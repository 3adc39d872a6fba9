--------------------------- MODULE WebPanelsProofs ---------------------------
(***************************************************************************)
(* Theorems about the panels of MCWebPanels, for any nodes, links, ports,  *)
(* ranges, captures, interfaces, commands, keys and slots.                 *)
(***************************************************************************)
EXTENDS MCWebPanels, Sequences, TLAPS, FiniteSetTheorems, WellFoundedInduction

-----------------------------------------------------------------------------
(* The details of a node.  Keys and reruns.                                *)

NdRuns == [section : D!Sections, key : D!Keys, cancelled : BOOLEAN]

-----------------------------------------------------------------------------
(* Keys and reruns.                                                        *)

\* The key of a section that has one is of a node, a range and a port there are.
LEMMA KeyTyped ==
  ASSUME NEW s \in D!Sections, NEW node \in NdNodes \cup {D!None},
         NEW range \in [{"telemetry", "latency"} -> Ranges \cup {D!Default}],
         NEW port \in Ports \cup {D!None}, D!KeyOf(s, node, range, port) # D!NoKey
  PROVE  D!KeyOf(s, node, range, port) \in D!Keys
<1>1. node # D!None /\ node \in NdNodes BY DEF D!KeyOf
<1>2. D!KeyOf(s, node, range, port) = [node |-> node, arg |-> D!Arg(s, range, port)] BY DEF D!KeyOf
<1>3. D!Arg(s, range, port) \in Ranges \cup Ports \cup {D!None, D!Default}
  <2>1. CASE s \in {"telemetry", "latency"} BY <2>1 DEF D!Arg
  <2>2. CASE s = "packets" BY <2>2 DEF D!Arg
  <2>3. CASE s \in {"positions", "activity"} BY <2>3 DEF D!Arg
  <2> QED BY <2>1, <2>2, <2>3 DEF D!Sections
<1> QED BY <1>1, <1>2, <1>3 DEF D!Keys

\* A cleanup changes no more of a run than whether it is cancelled.
LEMMA CancelledRuns ==
  ASSUME NEW changed, ndRuns \subseteq NdRuns
  PROVE  /\ D!Cancelled(changed) \subseteq NdRuns
         /\ \A r \in D!Cancelled(changed) : ~r.cancelled => r \in ndRuns /\ r.section \notin changed
         /\ \A r \in ndRuns : r.section \notin changed => r \in D!Cancelled(changed)
<1>1. ASSUME NEW r \in ndRuns
      PROVE  /\ [r EXCEPT !.cancelled = TRUE] \in NdRuns
             /\ [r EXCEPT !.cancelled = TRUE].cancelled
  BY DEF NdRuns
<1> QED BY <1>1 DEF D!Cancelled

\* A rerun keeps the types.
LEMMA RerunTyped ==
  ASSUME D!NdTypeOK, NEW changed \in SUBSET D!Sections, NEW node \in NdNodes \cup {D!None},
         NEW range \in [{"telemetry", "latency"} -> Ranges \cup {D!Default}],
         NEW port \in Ports \cup {D!None}, D!Rerun(changed, node, range, port)
  PROVE  /\ ndFollowed' \subseteq D!Sections /\ ndNode' \in NdNodes \cup {D!None}
         /\ ndRange' \in [{"telemetry", "latency"} -> Ranges \cup {D!Default}]
         /\ ndPort' \in Ports \cup {D!None}
         /\ ndLoading' \subseteq ndFollowed' /\ ndRuns' \subseteq NdRuns
<1> DEFINE again == {s \in changed \cap ndFollowed : D!KeyOf(s, node, range, port) # D!NoKey}
           new == {[section |-> s, key |-> D!KeyOf(s, node, range, port), cancelled |-> FALSE] : s \in again}
<1>1. ndRuns' = D!Cancelled(changed) \cup new /\ ndLoading' = ndLoading \cup again BY DEF D!Rerun
<1>2. new \subseteq NdRuns
  <2>1. ASSUME NEW s \in again
        PROVE  [section |-> s, key |-> D!KeyOf(s, node, range, port), cancelled |-> FALSE] \in NdRuns
    BY KeyTyped DEF NdRuns
  <2> QED BY <2>1
<1>3. D!Cancelled(changed) \subseteq NdRuns BY CancelledRuns DEF D!NdTypeOK, NdRuns
<1> QED BY <1>1, <1>2, <1>3 DEF D!NdTypeOK, D!Rerun

-----------------------------------------------------------------------------
(* Types.                                                                  *)

\* An answer keeps the types, whether it brings the section's key or an error.
LEMMA AnsweredTyped ==
  ASSUME D!NdTypeOK, NEW r \in ndRuns, NEW key \in D!Keys \cup {D!FailedKey}, D!Answered(r, key)
  PROVE  D!NdTypeOK'
<1> DEFINE shown == [ndShown EXCEPT ![r.section] = key]
<1> USE DEF D!NdTypeOK
<1>1. r \in NdRuns /\ ndRuns \subseteq NdRuns BY DEF NdRuns
<1>2. shown \in [D!Sections -> D!Keys \cup {D!NoKey, D!FailedKey}] OBVIOUS
<1>3. D!PacketsCleared(shown) \in [D!Sections -> D!Keys \cup {D!NoKey, D!FailedKey}]
  BY <1>2 DEF D!PacketsCleared
<1>4. ndLoading' \subseteq ndFollowed' /\ UNCHANGED <<ndFollowed, ndNode, ndRange>>
  BY DEF D!Answered
<1>5. CASE r.section # "activity" BY <1>1, <1>2, <1>4, <1>5 DEF D!Answered, NdRuns
<1>6. CASE r.section = "activity"
  <2>1. PICK ports \in SUBSET Ports : D!Rows(ports, shown) BY <1>6 DEF D!Answered
  <2>2. /\ ndPort' \in Ports \cup {D!None} /\ ndPorts' \subseteq Ports
        /\ ndShown' \in [D!Sections -> D!Keys \cup {D!NoKey, D!FailedKey}]
    BY <1>2, <1>3, <2>1 DEF D!Rows
  <2>3. ndRuns' \subseteq NdRuns
    <3>1. D!Cancelled({"packets"}) \subseteq NdRuns BY <1>1, CancelledRuns
    <3> QED BY <1>1, <1>6, <3>1 DEF D!Answered
  <2> QED BY <1>4, <2>2, <2>3 DEF NdRuns
<1> QED BY <1>5, <1>6

LEMMA NdStepTyped == D!NdTypeOK /\ [D!NdNext]_(D!ndVars) => D!NdTypeOK'
<1> SUFFICES ASSUME D!NdTypeOK, [D!NdNext]_(D!ndVars) PROVE D!NdTypeOK' OBVIOUS
<1> DEFINE Shown == [D!Sections -> D!Keys \cup {D!NoKey, D!FailedKey}]
<1>0. /\ D!PacketsCleared(ndShown) \in Shown
      /\ [s \in D!Sections |-> D!NoKey] \in Shown
      /\ [s \in {"telemetry", "latency"} |-> D!Default]
           \in [{"telemetry", "latency"} -> Ranges \cup {D!Default}]
      /\ {"packets"} \subseteq D!Sections /\ {"telemetry", "latency"} \subseteq D!Sections
  BY DEF D!NdTypeOK, D!PacketsCleared, D!Sections
<1>1. ASSUME NEW n \in NdNodes, D!OpenDetails(n) PROVE D!NdTypeOK'
  <2>1. D!Rerun(D!Sections, n, [s \in {"telemetry", "latency"} |-> D!Default], D!None)
    BY <1>1 DEF D!OpenDetails
  <2> QED BY <1>0, <1>1, <2>1, RerunTyped DEF D!OpenDetails, D!NdTypeOK, NdRuns
<1>2. ASSUME NEW n \in NdNodes, D!Retarget(n) PROVE D!NdTypeOK'
  <2>1. D!Rerun(D!Sections, n, ndRange, ndPort) BY <1>2 DEF D!Retarget
  <2> QED BY <1>0, <1>2, <2>1, RerunTyped DEF D!Retarget, D!NdTypeOK, NdRuns
<1>3. CASE D!CloseDetails
  <2>1. D!Cancelled(D!Sections) \subseteq NdRuns BY CancelledRuns DEF D!NdTypeOK, NdRuns
  <2> QED BY <1>0, <1>3, <2>1 DEF D!CloseDetails, D!NdTypeOK, NdRuns
<1>4. ASSUME NEW s \in {"telemetry", "latency"}, NEW r \in Ranges \cup {D!Default}, D!ChooseRange(s, r)
      PROVE  D!NdTypeOK'
  <2>1. /\ D!Rerun({s}, ndNode, [ndRange EXCEPT ![s] = r], ndPort)
        /\ [ndRange EXCEPT ![s] = r] \in [{"telemetry", "latency"} -> Ranges \cup {D!Default}]
        /\ {s} \subseteq D!Sections
    BY <1>0, <1>4 DEF D!ChooseRange, D!NdTypeOK
  <2> QED BY <1>4, <2>1, RerunTyped DEF D!ChooseRange, D!NdTypeOK, NdRuns
<1>5. ASSUME NEW p \in Ports, D!ClickPort(p) PROVE D!NdTypeOK'
  <2>1. D!Rerun({"packets"}, ndNode, ndRange, D!PortAfter(p)) /\ D!PortAfter(p) \in Ports \cup {D!None}
    BY <1>5 DEF D!ClickPort, D!PortAfter
  <2> QED BY <1>0, <1>5, <2>1, RerunTyped DEF D!ClickPort, D!NdTypeOK, NdRuns
<1>6. ASSUME NEW r \in ndRuns, D!Ignored(r) PROVE D!NdTypeOK' BY <1>6 DEF D!Ignored, D!NdTypeOK
<1>7. ASSUME NEW r \in ndRuns, D!Arrives(r) \/ D!Fails(r) PROVE D!NdTypeOK'
  <2>1. r.key \in D!Keys BY DEF D!NdTypeOK
  <2> QED BY <1>7, <2>1, AnsweredTyped DEF D!Arrives, D!Fails
<1>8. CASE UNCHANGED D!ndVars BY <1>8 DEF D!ndVars, D!NdTypeOK
<1> QED BY <1>1, <1>2, <1>3, <1>4, <1>5, <1>6, <1>7, <1>8 DEF D!NdNext

\* The state of the dialog is well typed.
THEOREM DetailsTypeCorrect == D!NdSpec => []D!NdTypeOK
<1>1. D!NdInit => D!NdTypeOK BY DEF D!NdInit, D!NdTypeOK, D!Sections
<1> QED BY <1>1, NdStepTyped, PTL DEF D!NdSpec

-----------------------------------------------------------------------------
(* What the sections show.                                                 *)

\* A run that was not cancelled was asked for what the section shows at this moment.
NdFresh == \A r \in ndRuns : ~r.cancelled => r.section \in ndFollowed /\ r.key = D!Key(r.section)

NdSound == D!NdTypeOK /\ NdFresh /\ D!SectionsTrue

\* A rerun keeps Sound if what does not change keeps its key and what it shows.
LEMMA RerunSound ==
  ASSUME NdSound, D!NdTypeOK', NEW changed, NEW node, NEW range, NEW port,
         D!Rerun(changed, node, range, port),
         \A s \in ndFollowed \ changed : D!KeyOf(s, node, range, port) = D!Key(s) /\ ndShown'[s] = ndShown[s]
  PROVE  NdSound'
<1> DEFINE again == {s \in changed \cap ndFollowed : D!KeyOf(s, node, range, port) # D!NoKey}
           New(s) == [section |-> s, key |-> D!KeyOf(s, node, range, port), cancelled |-> FALSE]
<1>1. /\ ndRuns' = D!Cancelled(changed) \cup {New(s) : s \in again}
      /\ ndLoading' = ndLoading \cup again /\ ndFollowed' = ndFollowed
      /\ ndNode' = node /\ ndRange' = range /\ ndPort' = port
  BY DEF D!Rerun
<1>2. \A s : D!Key(s)' = D!KeyOf(s, node, range, port) BY <1>1 DEF D!Key
<1>3. /\ \A r \in D!Cancelled(changed) : ~r.cancelled => r \in ndRuns /\ r.section \notin changed
      /\ \A r \in ndRuns : r.section \notin changed => r \in D!Cancelled(changed)
  BY CancelledRuns DEF NdSound, D!NdTypeOK, NdRuns
<1>4. NdFresh'
  <2> SUFFICES ASSUME NEW r \in ndRuns', ~r.cancelled
               PROVE  r.section \in ndFollowed /\ r.key = D!KeyOf(r.section, node, range, port)
    BY <1>1, <1>2 DEF NdFresh
  <2>1. CASE r \in D!Cancelled(changed) BY <1>3, <2>1 DEF NdSound, NdFresh
  <2>2. CASE r \in {New(s) : s \in again} BY <2>2
  <2> QED BY <1>1, <2>1, <2>2
<1>5. D!SectionsTrue'
  <2> SUFFICES ASSUME NEW s \in ndFollowed, D!KeyOf(s, node, range, port) # D!NoKey
               PROVE  IF s \in ndLoading' THEN New(s) \in ndRuns'
                      ELSE ndShown'[s] \in {D!KeyOf(s, node, range, port), D!FailedKey}
    BY <1>1, <1>2 DEF D!SectionsTrue, D!InView
  <2>1. CASE s \in changed BY <1>1, <2>1
  <2>2. CASE s \notin changed
    <3>1. /\ D!KeyOf(s, node, range, port) = D!Key(s) /\ D!InView(s) /\ ndShown'[s] = ndShown[s]
          /\ s \in ndLoading' <=> s \in ndLoading
      BY <1>1, <2>2 DEF D!InView
    <3>2. IF s \in ndLoading THEN New(s) \in ndRuns ELSE ndShown[s] \in {D!Key(s), D!FailedKey}
      BY <3>1 DEF NdSound, D!SectionsTrue
    <3>3. New(s).section = s OBVIOUS
    <3> QED BY <1>1, <1>3, <2>2, <3>1, <3>2, <3>3
  <2> QED BY <2>1, <2>2
<1> QED BY <1>4, <1>5 DEF NdSound

\* An answer keeps Sound: the run that brings it was asked for what the section shows, and
\* a port that goes with its row takes the runs of its packets with it.
LEMMA AnsweredSound ==
  ASSUME NdSound, D!NdTypeOK', NEW r \in ndRuns, NEW key \in {r.key, D!FailedKey}, D!Answered(r, key)
  PROVE  NdSound'
<1> DEFINE shown == [ndShown EXCEPT ![r.section] = key]
           New(s) == [section |-> s, key |-> D!Key(s), cancelled |-> FALSE]
<1>1. /\ ~r.cancelled /\ r.section \in ndFollowed /\ r.key = D!Key(r.section)
      /\ ndLoading' = ndLoading \ {r.section} /\ UNCHANGED <<ndFollowed, ndNode, ndRange>>
  BY DEF NdSound, NdFresh, D!Answered
<1>2. /\ ndShown \in [D!Sections -> D!Keys \cup {D!NoKey, D!FailedKey}]
      /\ ndFollowed \subseteq D!Sections /\ ndRuns \subseteq NdRuns
  BY DEF NdSound, D!NdTypeOK, NdRuns
<1>3. \A s \in ndFollowed : shown[s] = IF s = r.section THEN key ELSE ndShown[s] BY <1>2
<1>4. CASE ndPort' = ndPort
  <2>1. ndRuns' = ndRuns \ {r} /\ ndShown' = shown
    <3>1. CASE r.section # "activity" BY <3>1 DEF D!Answered
    <3>2. CASE r.section = "activity"
      <4>1. PICK ports : D!Rows(ports, shown) BY <3>2 DEF D!Answered
      <4>2. ndShown' = shown BY <1>4, <4>1 DEF D!Rows
      <4>3. ndRuns' = (IF ndPort' # ndPort THEN D!Cancelled({"packets"}) ELSE ndRuns) \ {r}
        BY <3>2 DEF D!Answered
      <4> QED BY <1>4, <4>2, <4>3
    <3> QED BY <3>1, <3>2
  <2>2. \A s : D!Key(s)' = D!Key(s) BY <1>1, <1>4 DEF D!Key
  <2>3. NdFresh' BY <1>1, <2>1, <2>2 DEF NdSound, NdFresh
  <2>4. D!SectionsTrue'
    <3> SUFFICES ASSUME NEW s \in ndFollowed, D!InView(s)'
                 PROVE  IF s \in ndLoading' THEN New(s) \in ndRuns'
                        ELSE ndShown'[s] \in {D!Key(s), D!FailedKey}
      BY <1>1, <2>2 DEF D!SectionsTrue, D!InView
    <3>1. CASE s = r.section BY <1>1, <1>3, <2>1, <3>1
    <3>2. CASE s # r.section
      <4>1. IF s \in ndLoading THEN New(s) \in ndRuns ELSE ndShown[s] \in {D!Key(s), D!FailedKey}
        BY <2>2 DEF NdSound, D!SectionsTrue, D!InView
      <4>2. New(s).section = s OBVIOUS
      <4> QED BY <1>1, <1>3, <2>1, <3>2, <4>1, <4>2
    <3> QED BY <3>1, <3>2
  <2> QED BY <2>3, <2>4 DEF NdSound
<1>5. CASE ndPort' # ndPort
  <2>1. r.section = "activity" /\ ndRuns' = D!Cancelled({"packets"}) \ {r} BY <1>5 DEF D!Answered
  <2>2. PICK ports : D!Rows(ports, shown) BY <2>1 DEF D!Answered
  <2>3. ndPort' = D!None /\ ndShown' = D!PacketsCleared(shown) BY <1>5, <2>2 DEF D!Rows
  <2>4. /\ ~D!InView("packets")'
        /\ \A s \in D!Sections \ {"packets"} : D!Key(s)' = D!Key(s)
    BY <1>1, <2>3 DEF D!InView, D!Key, D!KeyOf, D!Arg
  <2>5. \A s \in ndFollowed \ {"packets"} : ndShown'[s] = shown[s]
    BY <1>2, <2>3 DEF D!PacketsCleared
  <2>6. /\ \A q \in D!Cancelled({"packets"}) : ~q.cancelled => q \in ndRuns /\ q.section \notin {"packets"}
        /\ \A q \in ndRuns : q.section \notin {"packets"} => q \in D!Cancelled({"packets"})
    BY <1>2, CancelledRuns
  <2>7. NdFresh'
    <3> SUFFICES ASSUME NEW q \in ndRuns', ~q.cancelled
                 PROVE  q.section \in ndFollowed /\ q.key = D!Key(q.section)'
      BY <1>1 DEF NdFresh
    <3>1. q \in ndRuns /\ q.section # "packets" /\ q.section \in D!Sections
      BY <1>2, <2>1, <2>6 DEF NdRuns
    <3> QED BY <2>4, <3>1 DEF NdSound, NdFresh
  <2>8. D!SectionsTrue'
    <3> SUFFICES ASSUME NEW s \in ndFollowed \ {"packets"}, D!InView(s)'
                 PROVE  IF s \in ndLoading' THEN New(s) \in ndRuns'
                        ELSE ndShown'[s] \in {D!Key(s), D!FailedKey}
      BY <1>1, <1>2, <2>4 DEF D!SectionsTrue, D!InView
    <3>1. CASE s = r.section BY <1>1, <1>3, <2>5, <3>1
    <3>2. CASE s # r.section
      <4>1. IF s \in ndLoading THEN New(s) \in ndRuns ELSE ndShown[s] \in {D!Key(s), D!FailedKey}
        BY <1>2, <2>4 DEF NdSound, D!SectionsTrue, D!InView
      <4>2. New(s).section = s OBVIOUS
      <4> QED BY <1>1, <1>3, <2>1, <2>5, <2>6, <3>2, <4>1, <4>2
    <3> QED BY <3>1, <3>2
  <2> QED BY <2>7, <2>8 DEF NdSound
<1> QED BY <1>4, <1>5

LEMMA NdStepSound == NdSound /\ [D!NdNext]_(D!ndVars) => NdSound'
<1> SUFFICES ASSUME NdSound, [D!NdNext]_(D!ndVars) PROVE NdSound' OBVIOUS
<1>0. D!NdTypeOK /\ D!NdTypeOK' BY NdStepTyped DEF NdSound
<1>1. ASSUME NEW n \in NdNodes, D!OpenDetails(n) \/ D!Retarget(n) PROVE NdSound'
  <2>1. PICK range, port : D!Rerun(D!Sections, n, range, port) BY <1>1 DEF D!OpenDetails, D!Retarget
  <2>2. ndFollowed \ D!Sections = {} BY <1>0 DEF D!NdTypeOK
  <2> QED BY <1>0, <2>1, <2>2, RerunSound
<1>2. CASE D!CloseDetails
  <2>1. \A r \in ndRuns' : r.cancelled
    BY <1>0, <1>2, CancelledRuns DEF D!CloseDetails, D!NdTypeOK, NdRuns
  <2>2. \A s : ~D!InView(s)' BY <1>2 DEF D!CloseDetails, D!InView, D!Key, D!KeyOf
  <2> QED BY <1>0, <2>1, <2>2 DEF NdSound, NdFresh, D!SectionsTrue
<1>3. ASSUME NEW s \in {"telemetry", "latency"}, NEW r \in Ranges \cup {D!Default}, D!ChooseRange(s, r)
      PROVE  NdSound'
  <2> DEFINE range == [ndRange EXCEPT ![s] = r]
  <2>1. D!Rerun({s}, ndNode, range, ndPort) /\ ndShown' = ndShown BY <1>3 DEF D!ChooseRange
  <2>2. \A t \in D!Sections \ {s} : D!KeyOf(t, ndNode, range, ndPort) = D!Key(t)
    BY <1>0 DEF D!NdTypeOK, D!Key, D!KeyOf, D!Arg
  <2>3. \A t \in ndFollowed \ {s} : D!KeyOf(t, ndNode, range, ndPort) = D!Key(t) /\ ndShown'[t] = ndShown[t]
    BY <1>0, <2>1, <2>2 DEF D!NdTypeOK
  <2> HIDE DEF range
  <2> QED BY <1>0, <2>1, <2>3, RerunSound
<1>4. ASSUME NEW p \in Ports, D!ClickPort(p) PROVE NdSound'
  <2>1. D!Rerun({"packets"}, ndNode, ndRange, D!PortAfter(p)) /\ ndShown' = D!PacketsCleared(ndShown)
    BY <1>4 DEF D!ClickPort
  <2>2. \A t \in D!Sections \ {"packets"} : D!KeyOf(t, ndNode, ndRange, D!PortAfter(p)) = D!Key(t)
    BY DEF D!Key, D!KeyOf, D!Arg
  <2>3. \A t \in ndFollowed \ {"packets"} :
          D!KeyOf(t, ndNode, ndRange, D!PortAfter(p)) = D!Key(t) /\ ndShown'[t] = ndShown[t]
    BY <1>0, <2>1, <2>2 DEF D!NdTypeOK, D!PacketsCleared
  <2> QED BY <1>0, <2>1, <2>3, RerunSound
<1>5. ASSUME NEW r \in ndRuns, D!Ignored(r) PROVE NdSound'
  <2>1. /\ r.cancelled /\ ndRuns' = ndRuns \ {r}
        /\ UNCHANGED <<ndFollowed, ndNode, ndRange, ndPort, ndShown, ndLoading>>
    BY <1>5 DEF D!Ignored
  <2>2. \A s : D!Key(s)' = D!Key(s) BY <2>1 DEF D!Key
  <2>3. NdFresh' BY <2>1, <2>2 DEF NdSound, NdFresh
  <2>4. D!SectionsTrue'
    <3>1. \A s : [section |-> s, key |-> D!Key(s), cancelled |-> FALSE] # r BY <2>1
    <3> QED BY <2>1, <2>2, <3>1 DEF NdSound, D!SectionsTrue, D!InView
  <2> QED BY <1>0, <2>3, <2>4 DEF NdSound
<1>6. ASSUME NEW r \in ndRuns, D!Arrives(r) \/ D!Fails(r) PROVE NdSound'
  BY <1>0, <1>6, AnsweredSound DEF D!Arrives, D!Fails
<1>7. CASE UNCHANGED D!ndVars
  BY <1>0, <1>7 DEF D!ndVars, NdSound, NdFresh, D!SectionsTrue, D!InView, D!Key
<1> QED BY <1>1, <1>2, <1>3, <1>4, <1>5, <1>6, <1>7 DEF D!NdNext

\* A section of the dialog without its spinner shows what the node, the range and the port
\* of the moment ask for, or an error, and a spinner has a run that will take it away,
\* in whatever order the answers come.
THEOREM SectionsAlwaysTrue == D!NdSpec => []D!SectionsTrue
<1>1. D!NdInit => NdSound
  BY
  DEF D!NdInit, D!NdTypeOK, D!Sections, NdSound, NdFresh, D!SectionsTrue, D!InView, D!Key, D!KeyOf
<1>2. NdSound => D!SectionsTrue BY DEF NdSound
<1> QED BY <1>1, <1>2, NdStepSound, PTL DEF D!NdSpec

-----------------------------------------------------------------------------
(* The port selected.                                                      *)

\* Without the section of port activity there are no rows, and no port to select.
NdPortless == "activity" \notin ndFollowed => ndPort = D!None /\ ndPorts = {}

NdListed == D!PortListed /\ NdPortless

LEMMA NdStepListed == D!None \notin NdNodes /\ NdSound /\ NdListed /\ [D!NdNext]_(D!ndVars) => NdListed'
<1> SUFFICES ASSUME D!None \notin NdNodes, NdSound, NdListed, [D!NdNext]_(D!ndVars)
             PROVE NdListed' OBVIOUS
<1> USE DEF NdListed, D!PortListed, NdPortless
<1>1. ASSUME NEW n \in NdNodes, D!OpenDetails(n) PROVE NdListed' BY <1>1 DEF D!OpenDetails, D!Rerun
<1>2. ASSUME NEW n \in NdNodes, D!Retarget(n) PROVE NdListed'
  <2>1. D!Rerun(D!Sections, n, ndRange, ndPort) /\ UNCHANGED ndPorts BY <1>2 DEF D!Retarget
  <2>2. CASE "activity" \in ndFollowed
    <3>1. D!KeyOf("activity", n, ndRange, ndPort) # D!NoKey BY DEF D!KeyOf, D!NoKey
    <3> QED BY <2>1, <2>2, <3>1 DEF D!Rerun, D!Sections
  <2>3. CASE "activity" \notin ndFollowed BY <2>1, <2>3 DEF D!Rerun
  <2> QED BY <2>2, <2>3
<1>3. CASE D!CloseDetails BY <1>3 DEF D!CloseDetails
<1>4. ASSUME NEW s, NEW r, D!ChooseRange(s, r) PROVE NdListed' BY <1>4 DEF D!ChooseRange, D!Rerun
<1>5. ASSUME NEW p \in Ports, D!ClickPort(p) PROVE NdListed'
  <2>1. p \in ndPorts /\ "activity" \in ndFollowed /\ ndPort' \in {p, D!None} /\ UNCHANGED <<ndPorts, ndFollowed>>
    BY <1>5 DEF D!ClickPort, D!PortAfter, D!Rerun
  <2> QED BY <2>1
<1>6. ASSUME NEW r \in ndRuns, D!Ignored(r) PROVE NdListed' BY <1>6 DEF D!Ignored
<1>7. ASSUME NEW r \in ndRuns, NEW key, D!Answered(r, key) PROVE NdListed'
  <2>1. CASE r.section # "activity" BY <1>7, <2>1 DEF D!Answered
  <2>2. CASE r.section = "activity"
    <3>1. PICK ports : D!Rows(ports, [ndShown EXCEPT ![r.section] = key])
      BY <1>7, <2>2 DEF D!Answered
    <3>2. ndPort' = D!None \/ ndPort' \in ndPorts' BY <3>1 DEF D!Rows
    <3>3. "activity" \in ndFollowed' BY <1>7, <2>2 DEF D!Answered, NdSound, NdFresh
    <3> QED BY <3>2, <3>3
  <2> QED BY <2>1, <2>2
<1>8. CASE UNCHANGED D!ndVars BY <1>8 DEF D!ndVars
<1> QED BY <1>1, <1>2, <1>3, <1>4, <1>5, <1>6, <1>7, <1>8 DEF D!NdNext, D!Arrives, D!Fails

LEMMA NdBegins == D!NdInit => NdSound /\ NdListed
BY DEF D!NdInit, D!NdTypeOK, D!Sections, NdSound, NdFresh, D!SectionsTrue, D!InView, D!Key, D!KeyOf,
       NdListed, D!PortListed, NdPortless

\* The port whose packets are shown is one of the rows of the node in the dialog, once
\* the rows are there; no node has the id that stands for a closed dialog.
THEOREM PortAlwaysListed == ASSUME D!None \notin NdNodes PROVE D!NdSpec => []D!PortListed
<1>1. NdListed => D!PortListed BY DEF NdListed
<1> QED BY <1>1, NdBegins, NdStepSound, NdStepListed, PTL DEF D!NdSpec

-----------------------------------------------------------------------------
(* The overview.                                                           *)

OvFetches == [mode : {"none", "initial", "refresh"}, read : BOOLEAN, list : [Interfaces -> O!Statuses]]
OvCmds == [id : Interfaces \cup {O!None}, want : O!Statuses \cup {O!None},
             ph : {"sent", "acted", "closing", "none"}, own : BOOLEAN]

-----------------------------------------------------------------------------
(* Types.                                                                  *)

LEMMA OvEmpty == O!NoFetch \in OvFetches /\ O!NoCommand \in OvCmds
BY DEF O!NoFetch, O!NoCommand, OvFetches, OvCmds, O!Statuses

LEMMA FetchDataTyped ==
  ASSUME O!OvTypeOK, O!FetchData("refresh")
  PROVE  {ovLoading, ovRefreshing, ovError, ovFetching, ovTrusted}' \subseteq BOOLEAN /\ ovFetch' \in OvFetches
<1>1. [O!NoFetch EXCEPT !.mode = "refresh"] \in OvFetches BY OvEmpty DEF OvFetches
<1>2. ovFetch \in OvFetches BY DEF O!OvTypeOK, OvFetches
<1>3. CASE ovFetching BY <1>2, <1>3 DEF O!FetchData, O!OvTypeOK
<1>4. CASE ~ovFetching BY <1>1, <1>4 DEF O!FetchData, O!OvTypeOK
<1> QED BY <1>3, <1>4

LEMMA FetchDoneTyped ==
  ASSUME O!OvTypeOK, O!FetchDone
  PROVE  {ovLoading, ovRefreshing, ovFetching}' \subseteq BOOLEAN /\ ovFetch' \in OvFetches
BY OvEmpty DEF O!FetchDone, O!OvTypeOK

LEMMA DisownedTyped ==
  ASSUME ovCommands \in [O!Slots -> OvCmds]
  PROVE  /\ O!Disowned \in [O!Slots -> OvCmds]
         /\ \A s \in O!Slots : O!Disowned[s].ph = ovCommands[s].ph
BY DEF O!Disowned, OvCmds

\* A command that was sent wants one of the statuses.
OvMeant == \A s \in O!Slots : ovCommands[s].ph = "sent" => ovCommands[s].want \in O!Statuses

OvTyped == O!OvTypeOK /\ OvMeant

LEMMA OvStepTyped == OvTyped /\ [O!OvNext]_(O!ovVars) => OvTyped'
<1> SUFFICES ASSUME OvTyped, [O!OvNext]_(O!ovVars) PROVE OvTyped' OBVIOUS
<1> USE DEF OvFetches, OvCmds, OvTyped, OvMeant
<1>0. ovFetch \in OvFetches /\ ovCommands \in [O!Slots -> OvCmds] BY DEF O!OvTypeOK
<1>1. CASE O!Refresh BY <1>1, FetchDataTyped DEF O!Refresh, O!OvTypeOK
<1>2. CASE O!ServerReads BY <1>2 DEF O!ServerReads, O!OvTypeOK
<1>3. CASE O!DataArrive BY <1>3, FetchDoneTyped DEF O!DataArrive, O!OvTypeOK
<1>4. CASE O!DataFail
  <2>1. ovCommands' \in [O!Slots -> OvCmds] /\ OvMeant'
    BY <1>0, <1>4, DisownedTyped DEF O!DataFail, O!Disowned
  <2> QED BY <1>4, <2>1, FetchDoneTyped DEF O!DataFail, O!OvTypeOK
<1>5. CASE O!CloseInterface
  <2>1. ovCommands' \in [O!Slots -> OvCmds] /\ OvMeant'
    BY <1>0, <1>5, DisownedTyped DEF O!CloseInterface, O!Disowned
  <2> QED BY <1>5, <2>1 DEF O!CloseInterface, O!Closed, O!NoIface, O!load, O!OvTypeOK
<1>6. ASSUME NEW d \in O!Dialogs, NEW e \in Entries, O!OpenDialog(d, e) PROVE OvTyped'
  BY <1>6 DEF O!OpenDialog, O!load, O!OvTypeOK
<1>7. ASSUME NEW d \in O!Dialogs, O!CloseDialog(d) PROVE OvTyped'
  BY <1>7 DEF O!CloseDialog, O!load, O!OvTypeOK
<1>8. ASSUME NEW e \in Entries, O!FocusNode(e) PROVE OvTyped'
  BY <1>8 DEF O!FocusNode, O!load, O!OvTypeOK
<1>9. ASSUME NEW i \in Interfaces, O!OpenInterface(i) PROVE OvTyped'
  BY <1>9 DEF O!OpenInterface, O!load, O!OvTypeOK
<1>10. ASSUME NEW want \in O!Statuses, O!Command(want) PROVE OvTyped'
  <2>1. PICK s \in O!Slots : ovCommands' =
          [ovCommands EXCEPT ![s] = [id |-> ovIface.id, want |-> want, ph |-> "sent", own |-> TRUE]]
    BY <1>10 DEF O!Command
  <2>2. ovCommands' \in [O!Slots -> OvCmds] /\ OvMeant' BY <1>0, <2>1 DEF O!OvTypeOK
  <2> QED BY <1>10, <2>2 DEF O!Command, O!load, O!OvTypeOK
<1>11. ASSUME NEW s \in O!Slots, O!ServerActs(s) PROVE OvTyped'
  <2>1. ovCommands' \in [O!Slots -> OvCmds] /\ OvMeant' BY <1>0, <1>11 DEF O!ServerActs
  <2>2. ovServer' \in [Interfaces -> O!Statuses]
    <3>1. ovCommands[s].want \in O!Statuses /\ ovServer' = [ovServer EXCEPT ![ovCommands[s].id] = ovCommands[s].want]
      BY <1>0, <1>11 DEF O!ServerActs
    <3> QED BY <3>1 DEF O!OvTypeOK
  <2> QED BY <1>11, <2>1, <2>2 DEF O!ServerActs, O!load, O!OvTypeOK
<1>12. ASSUME NEW s \in O!Slots, O!CommandSucceeds(s) PROVE OvTyped'
  <2>1. ovCommands' \in [O!Slots -> OvCmds] /\ OvMeant'
    <3> DEFINE done == [ovCommands[s] EXCEPT !.ph = "closing", !.id = O!None, !.want = O!None]
    <3>1. done \in OvCmds /\ done.ph = "closing" BY <1>0
    <3>2. ovCommands' = [ovCommands EXCEPT ![s] = done] BY <1>0, <1>12 DEF O!CommandSucceeds
    <3> HIDE DEF done
    <3> QED BY <1>0, <3>1, <3>2
  <2> QED BY <1>12, <2>1, FetchDataTyped DEF O!CommandSucceeds, O!OvTypeOK
<1>13. ASSUME NEW s \in O!Slots, O!CommandFails(s) PROVE OvTyped'
  <2>1. ovCommands' \in [O!Slots -> OvCmds] /\ OvMeant'
    BY <1>0, <1>13, OvEmpty DEF O!CommandFails, O!NoCommand
  <2> QED BY <1>13, <2>1 DEF O!CommandFails, O!OvTypeOK
<1>14. ASSUME NEW s \in O!Slots, O!TimerCloses(s) PROVE OvTyped'
  <2>1. ovCommands' \in [O!Slots -> OvCmds] /\ OvMeant'
    <3>1. \A t \in O!Slots : O!Disowned[t].ph = "sent" => O!Disowned[t].want \in O!Statuses
      BY <1>0 DEF O!Disowned
    <3> QED BY <1>0, <1>14, <3>1, OvEmpty, DisownedTyped DEF O!TimerCloses, O!NoCommand
  <2> QED BY <1>14, <2>1 DEF O!TimerCloses, O!Closed, O!NoIface, O!load, O!OvTypeOK
<1>15. CASE UNCHANGED O!ovVars BY <1>15 DEF O!ovVars, O!OvTypeOK
<1> QED BY <1>1, <1>2, <1>3, <1>4, <1>5, <1>6, <1>7, <1>8, <1>9, <1>10, <1>11, <1>12, <1>13,
           <1>14, <1>15 DEF O!OvNext

LEMMA OvInitTyped == O!OvInit => OvTyped
<1> SUFFICES ASSUME O!OvInit PROVE OvTyped OBVIOUS
<1>1. ovFetch \in OvFetches BY OvEmpty DEF O!OvInit, OvFetches
<1>2. ovCommands \in [O!Slots -> OvCmds] /\ OvMeant
  BY OvEmpty DEF O!OvInit, OvMeant, O!NoCommand
<1>3. {ovList, ovServer} \subseteq [Interfaces -> O!Statuses] BY DEF O!OvInit, O!Statuses
<1>4. /\ {ovKnown, ovLoading, ovRefreshing, ovError, ovFetching, ovTrusted} \subseteq BOOLEAN
      /\ ovOpen \in [O!Dialogs -> Entries \cup {O!None}] /\ ovBusy = "idle"
  BY DEF O!OvInit
<1>5. ovIface \in [id : Interfaces \cup {O!None}, status : O!Statuses \cup {O!None}]
  BY DEF O!OvInit, O!NoIface
<1> QED BY <1>1, <1>2, <1>3, <1>4, <1>5 DEF OvTyped, O!OvTypeOK, OvFetches, OvCmds

\* The state of the overview is well typed.
THEOREM OverviewTypeCorrect == O!OvSpec => []O!OvTypeOK
<1>1. OvTyped => O!OvTypeOK BY DEF OvTyped
<1> QED BY <1>1, OvInitTyped, OvStepTyped, PTL DEF O!OvSpec

-----------------------------------------------------------------------------
(* The loads.                                                              *)

\* Each spinner belongs to the load in flight, and only a load in flight has been read.
OvLoads ==
  /\ ovFetch.mode \in {"none", "initial", "refresh"} /\ ovFetch.read \in BOOLEAN
  /\ ovFetching = (ovFetch.mode # "none")
  /\ ovLoading = (ovFetch.mode = "initial")
  /\ ovRefreshing = (ovFetch.mode = "refresh")
  /\ ovFetch.read => ovFetch.mode # "none"

\* A load that starts, or finds another in flight.
LEMMA FetchDataLoads ==
  ASSUME OvLoads, O!FetchData("refresh")
  PROVE  /\ OvLoads' /\ ovFetching'
         /\ ovTrusted' => ~ovFetching /\ ovTrusted /\ ~ovFetch'.read
<1>1. CASE ovFetching
  <2>1. ovTrusted' = FALSE /\ UNCHANGED <<ovLoading, ovRefreshing, ovError, ovFetching, ovFetch>>
    BY <1>1 DEF O!FetchData
  <2> QED BY <1>1, <2>1 DEF OvLoads
<1>2. CASE ~ovFetching
  <2>1. /\ ovFetching' = TRUE /\ ovLoading' = (ovLoading \/ FALSE) /\ ovRefreshing' = TRUE
        /\ ovFetch' = [O!NoFetch EXCEPT !.mode = "refresh"] /\ ovTrusted' = ovTrusted
    BY <1>2 DEF O!FetchData
  <2>2. ovFetch'.mode = "refresh" /\ ovFetch'.read = FALSE BY <2>1 DEF O!NoFetch
  <2>3. ovFetch.mode = "none" /\ ovLoading = FALSE BY <1>2 DEF OvLoads
  <2>4. ovLoading' = FALSE BY <2>1, <2>3
  <2>5. OvLoads' BY <2>1, <2>2, <2>4 DEF OvLoads
  <2> QED BY <1>2, <2>1, <2>2, <2>5
<1>3. ovFetching \in BOOLEAN BY DEF OvLoads
<1> QED BY <1>1, <1>2, <1>3

LEMMA FetchDoneLoads == ASSUME OvLoads, O!FetchDone PROVE OvLoads' /\ ~ovFetching'
<1>1. ovFetching' = FALSE /\ ovFetch' = O!NoFetch BY DEF O!FetchDone
<1>2. ovLoading' = FALSE /\ ovRefreshing' = FALSE BY DEF O!FetchDone, OvLoads
<1>3. ovFetch'.mode = "none" /\ ovFetch'.read = FALSE BY <1>1 DEF O!NoFetch
<1> QED BY <1>1, <1>2, <1>3 DEF OvLoads

-----------------------------------------------------------------------------
(* The statuses.                                                           *)

\* No command may still change the server, or has changed it untold.
OvQuiet == \A s \in O!Slots : ovCommands[s].ph \notin {"sent", "acted"}

\* What the load in flight has read, or, without one, what is listed, is the server's
\* unless a command is under way or a load was missed.
OvCurrent ==
  ovTrusted /\ OvQuiet =>
    IF ovFetching THEN ovFetch.read => ovFetch.list = ovServer ELSE ovList = ovServer

OvInv == OvTyped /\ OvLoads /\ OvCurrent

\* A step that leaves loads, list and server alone, and lets no command end, keeps both.
LEMMA OvElsewhere ==
  ASSUME OvLoads, OvCurrent, UNCHANGED <<O!load, ovServer>>, OvQuiet' => OvQuiet
  PROVE  OvLoads' /\ OvCurrent'
BY DEF O!load, OvLoads, OvCurrent

LEMMA OvStepCurrent == OvInv /\ [O!OvNext]_(O!ovVars) => OvInv'
<1> SUFFICES ASSUME OvInv, [O!OvNext]_(O!ovVars) PROVE OvLoads' /\ OvCurrent'
  BY OvStepTyped DEF OvInv
<1>0. OvLoads /\ OvCurrent /\ ovCommands \in [O!Slots -> OvCmds] /\ ovTrusted \in BOOLEAN
  BY DEF OvInv, OvTyped, O!OvTypeOK, OvCmds
<1>1. CASE O!Refresh
  <2>1. UNCHANGED <<ovList, ovCommands, ovServer>> BY <1>1 DEF O!Refresh
  <2>2. OvLoads' /\ ovFetching' /\ (ovTrusted' => ~ovFetch'.read)
    BY <1>0, <1>1, FetchDataLoads DEF O!Refresh
  <2> QED BY <2>1, <2>2 DEF OvCurrent
<1>2. CASE O!ServerReads
  <2>1. /\ ovFetch' = [ovFetch EXCEPT !.read = TRUE, !.list = ovServer] /\ ovFetch.mode # "none"
        /\ UNCHANGED <<ovList, ovLoading, ovRefreshing, ovFetching, ovCommands, ovServer, ovTrusted>>
    BY <1>2 DEF O!ServerReads
  <2>2. ovFetch'.mode = ovFetch.mode /\ ovFetch'.read = TRUE /\ ovFetch'.list = ovServer
    BY <2>1 DEF OvInv, OvTyped, O!OvTypeOK
  <2>3. OvLoads' BY <1>0, <2>1, <2>2 DEF OvLoads
  <2>4. ovFetching BY <1>0, <2>1 DEF OvLoads
  <2> QED BY <2>1, <2>2, <2>3, <2>4 DEF OvCurrent
<1>3. CASE O!DataArrive
  <2>1. OvLoads' /\ ~ovFetching' BY <1>0, <1>3, FetchDoneLoads DEF O!DataArrive
  <2>2. /\ ovFetch.read /\ ovList' = ovFetch.list /\ UNCHANGED <<ovCommands, ovServer>>
        /\ ovTrusted' => ovTrusted \/ ovFetch.list = ovServer
    BY <1>3 DEF O!DataArrive
  <2>3. ovFetching BY <1>0, <2>2 DEF OvLoads
  <2>4. ovTrusted /\ OvQuiet => ovFetch.list = ovServer BY <1>0, <2>2, <2>3 DEF OvCurrent
  <2>5. OvQuiet' => OvQuiet BY <2>2 DEF OvQuiet
  <2> QED BY <2>1, <2>2, <2>4, <2>5 DEF OvCurrent
<1>4. CASE O!DataFail
  <2>1. OvLoads' /\ ovTrusted' = FALSE BY <1>0, <1>4, FetchDoneLoads DEF O!DataFail
  <2> QED BY <2>1 DEF OvCurrent
<1>5. CASE O!CloseInterface
  <2>1. OvQuiet' => OvQuiet BY <1>0, <1>5, DisownedTyped DEF O!CloseInterface, OvQuiet
  <2> QED BY <1>0, <1>5, <2>1, OvElsewhere DEF O!CloseInterface
<1>6. ASSUME \/ \E d \in O!Dialogs, e \in Entries : O!OpenDialog(d, e)
             \/ \E d \in O!Dialogs : O!CloseDialog(d)
             \/ \E e \in Entries : O!FocusNode(e)
             \/ \E i \in Interfaces : O!OpenInterface(i)
      PROVE  OvLoads' /\ OvCurrent'
  <2>1. UNCHANGED <<O!load, ovCommands, ovServer>>
    BY <1>6 DEF O!OpenDialog, O!CloseDialog, O!FocusNode, O!OpenInterface
  <2>2. OvQuiet' => OvQuiet BY <2>1 DEF OvQuiet
  <2> QED BY <1>0, <2>1, <2>2, OvElsewhere
<1>7. ASSUME NEW want \in O!Statuses, O!Command(want) PROVE OvLoads' /\ OvCurrent'
  <2>1. PICK s \in O!Slots :
          /\ ovCommands[s] = O!NoCommand
          /\ ovCommands' = [ovCommands EXCEPT ![s] = [id |-> ovIface.id, want |-> want, ph |-> "sent", own |-> TRUE]]
    BY <1>7 DEF O!Command
  <2>2. ~OvQuiet' BY <1>0, <2>1 DEF OvQuiet
  <2> QED BY <1>0, <1>7, <2>2, OvElsewhere DEF O!Command
<1>8. ASSUME NEW s \in O!Slots, O!ServerActs(s) PROVE OvLoads' /\ OvCurrent'
  <2>1. ~OvQuiet' BY <1>0, <1>8 DEF O!ServerActs, OvQuiet, OvCmds
  <2>2. UNCHANGED O!load BY <1>8 DEF O!ServerActs
  <2> QED BY <1>0, <2>1, <2>2 DEF OvCurrent, OvLoads, O!load
<1>9. ASSUME NEW s \in O!Slots, O!CommandSucceeds(s) PROVE OvLoads' /\ OvCurrent'
  <2>1. UNCHANGED <<ovList, ovServer>> /\ O!FetchData("refresh") BY <1>9 DEF O!CommandSucceeds
  <2>2. OvLoads' /\ ovFetching' /\ (ovTrusted' => ~ovFetch'.read) BY <1>0, <2>1, FetchDataLoads
  <2> QED BY <2>2 DEF OvCurrent
<1>10. ASSUME NEW s \in O!Slots, O!CommandFails(s) PROVE OvLoads' /\ OvCurrent'
  BY <1>0, <1>10 DEF O!CommandFails, OvLoads, OvCurrent
<1>11. ASSUME NEW s \in O!Slots, O!TimerCloses(s) PROVE OvLoads' /\ OvCurrent'
  <2>1. OvQuiet' => OvQuiet
    <3>1. ovCommands[s].ph = "closing" /\ \A t \in O!Slots \ {s} : ovCommands'[t].ph = ovCommands[t].ph
      BY <1>0, <1>11, DisownedTyped DEF O!TimerCloses
    <3> QED BY <3>1 DEF OvQuiet
  <2> QED BY <1>0, <1>11, <2>1, OvElsewhere DEF O!TimerCloses
<1>12. CASE UNCHANGED O!ovVars
  BY <1>0, <1>12, OvElsewhere DEF O!ovVars, O!load, OvQuiet
<1> QED BY <1>1, <1>2, <1>3, <1>4, <1>5, <1>6, <1>7, <1>8, <1>9, <1>10, <1>11, <1>12 DEF O!OvNext

LEMMA OvInitCurrent == O!OvInit => OvInv
<1> SUFFICES ASSUME O!OvInit PROVE OvInv OBVIOUS
<1>1. OvTyped BY OvInitTyped
<1>2. ovFetch.mode = "initial" /\ ovFetch.read = FALSE BY DEF O!OvInit, O!NoFetch
<1>3. OvLoads BY <1>2 DEF O!OvInit, OvLoads
<1>4. OvCurrent BY DEF O!OvInit, OvCurrent
<1> QED BY <1>1, <1>3, <1>4 DEF OvInv

\* The guard that lets one load run at a time is up exactly while one is in flight, and
\* so is one of the two spinners: no failure leaves the overview refusing every refresh.
THEOREM GuardAlwaysTells == O!OvSpec => []O!GuardTellsLoad
<1>1. OvInv => O!GuardTellsLoad BY DEF OvInv, OvLoads, O!GuardTellsLoad
<1> QED BY <1>1, OvInitCurrent, OvStepCurrent, PTL DEF O!OvSpec

\* With nothing in flight the statuses listed are the server's, unless a load failed or a
\* command found another load in flight since: for any number of commands together.
THEOREM StatusesAlwaysListed == O!OvSpec => []O!StatusesListed
<1>1. OvInv => O!StatusesListed BY DEF OvInv, OvLoads, OvCurrent, O!StatusesListed, OvQuiet
<1> QED BY <1>1, OvInitCurrent, OvStepCurrent, PTL DEF O!OvSpec

-----------------------------------------------------------------------------
(* The links: what the list and the packets show is what is chosen.        *)

LkRequests == [kind : {"list", "listed", "details", "none"}, link : Links \cup {L!None},
               filter : LkFilters \cup {L!None}, watched : BOOLEAN]
LkPacketSets == [link : Links \cup {L!None}, filter : LkFilters \cup {L!None}, channels : SUBSET Tabs]
LkLists == [links : SUBSET Links, filter : LkFilters \cup {L!None}]

\* The requests in flight and their history are well typed.
LkFlight ==
  lkReq \in [LkSlots -> LkRequests] /\ lkOlder \in [LkSlots -> SUBSET LkSlots] /\ lkInOrder \in BOOLEAN

\* What the panel shows is well typed.
LkPanel ==
  /\ lkFilter \in LkFilters /\ lkList \in LkLists
  /\ lkSelected \in Links \cup {L!None} /\ lkLink \in Links \cup {L!None}
  /\ lkPackets \in LkPacketSets /\ lkTab \in Tabs \cup {L!All}
  /\ lkListing \in BOOLEAN /\ lkLoading \in BOOLEAN /\ lkStalled \in BOOLEAN

LEMMA LkTypesSplit == L!LkTypeOK <=> LkFlight /\ LkPanel
BY DEF L!LkTypeOK, LkFlight, LkPanel, LkRequests, LkPacketSets, LkLists

LEMMA LkEmptyTyped == L!NoRequest \in LkRequests /\ L!NoPackets \in LkPacketSets
BY DEF L!NoRequest, L!NoPackets, LkRequests, LkPacketSets

\* A request takes a free slot, and comes after all that are in flight.
LEMMA LkSent ==
  ASSUME LkFlight, NEW r \in LkRequests, L!Send(r)
  PROVE  /\ LkFlight'
         /\ \E i \in LkSlots :
              /\ lkReq[i] = L!NoRequest /\ lkReq' = [lkReq EXCEPT ![i] = r]
              /\ lkOlder' = [lkOlder EXCEPT ![i] = L!Waiting]
              /\ lkInOrder' => lkInOrder \/ (L!Waiting = {} /\ r.kind = "list")
<1> DEFINE i == CHOOSE j \in LkSlots : j \notin L!Waiting
<1>1. /\ L!Waiting # LkSlots
      /\ lkReq' = [lkReq EXCEPT ![i] = r] /\ lkOlder' = [lkOlder EXCEPT ![i] = L!Waiting]
      /\ lkInOrder' = (lkInOrder \/ (L!Waiting = {} /\ r.kind = "list"))
  BY DEF L!Send
<1>2. L!Waiting \subseteq LkSlots BY DEF L!Waiting
<1>3. i \in LkSlots /\ i \notin L!Waiting BY <1>1, <1>2
<1>4. lkReq[i] = L!NoRequest BY <1>3 DEF L!Waiting
<1> HIDE DEF i
<1>5. LkFlight' BY <1>1, <1>2, <1>3 DEF LkFlight
<1> QED BY <1>1, <1>3, <1>4, <1>5

\* A request that is over takes nothing but itself out of flight.
LEMMA LkOver ==
  ASSUME LkFlight, NEW i \in LkSlots, NEW well, L!Over(i, well)
  PROVE  /\ LkFlight'
         /\ lkReq' = [lkReq EXCEPT ![i] = L!NoRequest]
         /\ \A j \in LkSlots \ {i}, k \in LkSlots \ {i} : k \in lkOlder'[j] <=> k \in lkOlder[j]
         /\ lkInOrder' => lkInOrder /\ well /\ lkOlder[i] = {}
<1>1. /\ lkReq' = [lkReq EXCEPT ![i] = L!NoRequest]
      /\ lkOlder' = [j \in LkSlots |-> IF j = i THEN {} ELSE lkOlder[j] \ {i}]
      /\ lkInOrder' = (lkInOrder /\ well /\ lkOlder[i] = {})
  BY DEF L!Over
<1>2. lkReq' \in [LkSlots -> LkRequests] BY <1>1, LkEmptyTyped DEF LkFlight
<1>3. lkOlder' \in [LkSlots -> SUBSET LkSlots] BY <1>1 DEF LkFlight
<1>4. lkInOrder' \in BOOLEAN BY <1>1
<1> QED BY <1>1, <1>2, <1>3, <1>4 DEF LkFlight

LEMMA LkShowingTyped ==
  ASSUME LkPanel, NEW link \in Links \cup {L!None}, NEW packets \in LkPacketSets,
         L!Showing(link, packets)
  PROVE  lkLink' \in Links \cup {L!None} /\ lkPackets' \in LkPacketSets /\ lkTab' \in Tabs \cup {L!All}
BY DEF LkPanel, L!Showing

LEMMA LkAskingTyped ==
  ASSUME NEW kind \in {"list", "listed", "details"}, NEW link \in Links \cup {L!None},
         NEW filter \in LkFilters \cup {L!None}
  PROVE  /\ L!Asking(kind, link, filter) \in LkRequests
         /\ L!Asking(kind, link, filter).kind = kind
         /\ L!Asking(kind, link, filter).link = link
         /\ L!Asking(kind, link, filter).filter = filter
BY DEF L!Asking, LkRequests

\* A list in flight that was asked for with the filters shown.
LkListComes(j) == lkReq[j].kind = "list" /\ lkReq[j].filter = lkFilter

\* An answer in flight that brings packets for the filters shown, or none.
LkPacketsCome(j) ==
  /\ lkReq[j].kind # "none" /\ lkReq[j].filter = lkFilter
  /\ lkReq[j].kind = "list" \/ lkReq[j].link = lkSelected

\* While the answers come in order, one for other filters than those shown has a list for
\* those behind it, and so have a list and packets shown for other filters.
LkOrderly ==
  lkInOrder =>
    /\ \A i \in LkSlots : lkReq[i].kind # "none" /\ lkReq[i].filter # lkFilter =>
         \E j \in LkSlots : LkListComes(j) /\ i \in lkOlder[j]
    /\ lkList.filter # lkFilter => \E j \in LkSlots : LkListComes(j)
    /\ lkPackets.filter \notin {L!None, lkFilter} => \E j \in LkSlots : LkPacketsCome(j)

LkSelection == lkLink = lkSelected /\ (~lkLoading => lkPackets.link \in {L!None, lkSelected})


LkSound == LkFlight /\ LkPanel /\ LkOrderly /\ LkSelection

LEMMA LkFreeSlot == L!NoRequest.kind = "none" /\ L!NoPackets.filter = L!None /\ L!NoPackets.link = L!None
BY DEF L!NoRequest, L!NoPackets

\* Asking for a list, or for the details of the link that gets selected, keeps the order.
LEMMA LkSendOrderly ==
  ASSUME LkFlight, LkOrderly, NEW kind \in {"list", "details"}, NEW link \in Links \cup {L!None},
         lkFilter' \in LkFilters, L!Send(L!Asking(kind, link, lkFilter')),
         UNCHANGED <<lkList, lkPackets>>,
         kind = "details" => lkFilter' = lkFilter /\ lkSelected' = link
  PROVE  LkOrderly'
<1> DEFINE r == L!Asking(kind, link, lkFilter')
<1>1. r \in LkRequests /\ r.kind = kind /\ r.link = link /\ r.filter = lkFilter' BY LkAskingTyped
<1> HIDE DEF r
<1>2. PICK s \in LkSlots : /\ lkReq[s] = L!NoRequest /\ lkReq' = [lkReq EXCEPT ![s] = r]
                           /\ lkOlder' = [lkOlder EXCEPT ![s] = L!Waiting]
                           /\ lkInOrder' => lkInOrder \/ (L!Waiting = {} /\ r.kind = "list")
  BY <1>1, LkSent DEF r
<1>3. /\ lkReq'[s] = r /\ lkOlder'[s] = L!Waiting
      /\ \A i \in LkSlots \ {s} : lkReq'[i] = lkReq[i] /\ lkOlder'[i] = lkOlder[i]
  BY <1>2 DEF LkFlight
<1> SUFFICES ASSUME lkInOrder' PROVE LkOrderly' BY DEF LkOrderly
<1>4. CASE kind = "list"
  <2>1. LkListComes(s)' /\ LkPacketsCome(s)' BY <1>1, <1>3, <1>4 DEF LkListComes, LkPacketsCome
  <2>2. ASSUME NEW i \in LkSlots, lkReq'[i].kind # "none", lkReq'[i].filter # lkFilter'
        PROVE  i \in lkOlder'[s]
    <3>1. i # s /\ lkReq[i].kind # "none" BY <1>1, <1>3, <2>2
    <3> QED BY <1>3, <3>1, LkFreeSlot DEF L!Waiting
  <2> QED BY <2>1, <2>2 DEF LkOrderly
<1>5. CASE kind = "details"
  <2>1. lkInOrder /\ lkFilter' = lkFilter BY <1>1, <1>2, <1>5
  <2>2. \A j \in LkSlots : LkListComes(j) => j # s /\ LkListComes(j)'
    BY <1>2, <1>3, <2>1, LkFreeSlot DEF LkListComes
  <2>3. LkPacketsCome(s)' BY <1>1, <1>3, <1>5 DEF LkPacketsCome
  <2>4. ASSUME NEW i \in LkSlots, lkReq'[i].kind # "none", lkReq'[i].filter # lkFilter'
        PROVE  \E j \in LkSlots : LkListComes(j)' /\ i \in lkOlder'[j]
    <3>1. i # s BY <1>1, <1>3, <2>4
    <3>2. PICK j \in LkSlots : LkListComes(j) /\ i \in lkOlder[j]
      BY <1>3, <2>1, <2>4, <3>1 DEF LkOrderly
    <3> QED BY <1>3, <2>2, <3>2
  <2>5. lkList'.filter # lkFilter' => \E j \in LkSlots : LkListComes(j)' BY <2>1, <2>2 DEF LkOrderly
  <2> QED BY <2>3, <2>4, <2>5 DEF LkOrderly
<1> QED BY <1>4, <1>5

\* An answer to the oldest request that is no list keeps the order, if the packets it
\* leaves are of the filters, of a request whose answer is still to come, or the answer's own.
LEMMA LkDetailsOrderly ==
  ASSUME LkFlight, LkOrderly, NEW i \in LkSlots, L!Details(i), L!Over(i, TRUE),
         UNCHANGED <<lkFilter, lkList, lkSelected>>,
         IF lkSelected = lkReq[i].link THEN lkPackets'.filter = lkReq[i].filter ELSE lkPackets' = lkPackets
  PROVE  LkOrderly'
<1>1. /\ lkReq' = [lkReq EXCEPT ![i] = L!NoRequest]
      /\ \A j \in LkSlots \ {i}, k \in LkSlots \ {i} : k \in lkOlder'[j] <=> k \in lkOlder[j]
      /\ lkInOrder' => lkInOrder
  BY LkOver
<1>2. lkReq'[i].kind = "none" /\ \A j \in LkSlots \ {i} : lkReq'[j] = lkReq[j]
  BY <1>1, LkFreeSlot DEF LkFlight
<1>3. lkReq[i].kind # "list" /\ lkReq[i].kind # "none" BY DEF L!Details
<1>4. \A j \in LkSlots : LkListComes(j) => j # i /\ LkListComes(j)' BY <1>2, <1>3 DEF LkListComes
<1>5. \A j \in LkSlots : LkListComes(j)' => LkPacketsCome(j)' BY DEF LkListComes, LkPacketsCome
<1> SUFFICES ASSUME lkInOrder' PROVE LkOrderly' BY DEF LkOrderly
<1>6. ASSUME NEW k \in LkSlots, lkReq'[k].kind # "none", lkReq'[k].filter # lkFilter'
      PROVE  \E j \in LkSlots : LkListComes(j)' /\ k \in lkOlder'[j]
  <2>1. k # i /\ lkReq[k].kind # "none" /\ lkReq[k].filter # lkFilter BY <1>2, <1>6
  <2>2. PICK j \in LkSlots : LkListComes(j) /\ k \in lkOlder[j] BY <1>1, <2>1 DEF LkOrderly
  <2> QED BY <1>1, <1>4, <2>1, <2>2
<1>7. lkList'.filter # lkFilter' => \E j \in LkSlots : LkListComes(j)' BY <1>1, <1>4 DEF LkOrderly
<1>8. lkPackets'.filter \notin {L!None, lkFilter'} => \E j \in LkSlots : LkPacketsCome(j)'
  <2>1. CASE lkSelected = lkReq[i].link
    <3>1. lkReq[i].filter # lkFilter => \E j \in LkSlots : LkListComes(j)
      BY <1>1, <1>3 DEF LkOrderly
    <3> QED BY <1>4, <1>5, <2>1, <3>1
  <2>2. CASE lkSelected # lkReq[i].link
    <3> SUFFICES ASSUME lkPackets'.filter \notin {L!None, lkFilter'}
                 PROVE  \E j \in LkSlots : LkPacketsCome(j)'
      OBVIOUS
    <3>1. PICK j \in LkSlots : LkPacketsCome(j) BY <1>1, <2>2 DEF LkOrderly
    <3>2. j # i BY <1>3, <2>2, <3>1 DEF LkPacketsCome
    <3> QED BY <1>2, <3>1, <3>2 DEF LkPacketsCome
  <2> QED BY <2>1, <2>2
<1> QED BY <1>6, <1>7, <1>8 DEF LkOrderly

\* A list that comes first in order leaves what it shows for other filters to a list behind it.
LEMMA LkListOrderly ==
  ASSUME LkFlight, LkOrderly, NEW i \in LkSlots, NEW listed \in SUBSET Links, L!ListArrives(i, listed)
  PROVE  LkOrderly'
<1> SUFFICES ASSUME lkInOrder' PROVE LkOrderly' BY DEF LkOrderly
<1>1. lkReq[i].kind = "list" /\ lkFilter' = lkFilter /\ lkList'.filter = lkReq[i].filter
  BY DEF L!ListArrives
<1>2. lkInOrder /\ lkOlder[i] = {} BY LkOver DEF L!ListArrives
<1>3. \A k \in LkSlots : lkReq[k].kind # "none" /\ lkReq[k].filter # lkFilter =>
        \E j \in LkSlots \ {i} : LkListComes(j) /\ k \in lkOlder[j]
  BY <1>2 DEF LkOrderly
<1>4. CASE listed = {} /\ L!Nothing /\ L!Over(i, TRUE)
  <2>1. /\ lkReq' = [lkReq EXCEPT ![i] = L!NoRequest]
        /\ \A j \in LkSlots \ {i}, k \in LkSlots \ {i} : k \in lkOlder'[j] <=> k \in lkOlder[j]
    BY <1>4, LkOver
  <2>2. lkReq'[i].kind = "none" /\ \A j \in LkSlots \ {i} : lkReq'[j] = lkReq[j]
    BY <2>1, LkFreeSlot DEF LkFlight
  <2>3. \A j \in LkSlots \ {i} : LkListComes(j) => LkListComes(j)' BY <1>1, <2>2 DEF LkListComes
  <2>4. lkPackets'.filter = L!None BY <1>4, LkFreeSlot DEF L!Nothing, L!Showing
  <2>5. ASSUME NEW k \in LkSlots, lkReq'[k].kind # "none", lkReq'[k].filter # lkFilter'
        PROVE  \E j \in LkSlots : LkListComes(j)' /\ k \in lkOlder'[j]
    <3>1. k # i /\ lkReq[k].kind # "none" /\ lkReq[k].filter # lkFilter BY <1>1, <2>2, <2>5
    <3>2. PICK j \in LkSlots \ {i} : LkListComes(j) /\ k \in lkOlder[j] BY <1>3, <3>1
    <3> QED BY <2>1, <2>3, <3>1, <3>2
  <2>6. lkList'.filter # lkFilter' => \E j \in LkSlots : LkListComes(j)' BY <1>1, <1>3, <2>3
  <2> QED BY <2>4, <2>5, <2>6 DEF LkOrderly
<1>5. ASSUME NEW link, lkSelected' = link, lkPackets' = lkPackets, UNCHANGED lkOlder,
             lkReq' = [lkReq EXCEPT ![i] = L!Asking("listed", link, lkReq[i].filter)]
      PROVE  LkOrderly'
  <2>1. /\ lkReq'[i].kind = "listed" /\ lkReq'[i].link = link /\ lkReq'[i].filter = lkReq[i].filter
        /\ \A j \in LkSlots \ {i} : lkReq'[j] = lkReq[j]
    <3>1. /\ lkReq'[i] = L!Asking("listed", link, lkReq[i].filter)
          /\ \A j \in LkSlots \ {i} : lkReq'[j] = lkReq[j]
      BY <1>5 DEF LkFlight
    <3> QED BY <3>1 DEF L!Asking
  <2>2. \A j \in LkSlots \ {i} : LkListComes(j) => LkListComes(j)' /\ LkPacketsCome(j)'
    BY <1>1, <2>1 DEF LkListComes, LkPacketsCome
  <2>3. ASSUME NEW k \in LkSlots, lkReq'[k].kind # "none", lkReq'[k].filter # lkFilter'
        PROVE  \E j \in LkSlots : LkListComes(j)' /\ k \in lkOlder'[j]
    <3>1. lkReq[k].kind # "none" /\ lkReq[k].filter # lkFilter BY <1>1, <2>1, <2>3
    <3>2. PICK j \in LkSlots \ {i} : LkListComes(j) /\ k \in lkOlder[j] BY <1>3, <3>1
    <3> QED BY <1>5, <2>2, <3>2
  <2>4. lkReq[i].filter # lkFilter => \E j \in LkSlots \ {i} : LkListComes(j) BY <1>1, <1>3
  <2>5. lkList'.filter # lkFilter' => \E j \in LkSlots : LkListComes(j)' BY <1>1, <2>2, <2>4
  <2>6. \E j \in LkSlots : LkPacketsCome(j)'
    <3>1. lkReq[i].filter = lkFilter => LkPacketsCome(i)' BY <1>1, <1>5, <2>1 DEF LkPacketsCome
    <3> QED BY <2>2, <2>4, <3>1
  <2> QED BY <2>3, <2>5, <2>6 DEF LkOrderly
<1> QED BY <1>4, <1>5 DEF L!ListArrives, L!Showing

-----------------------------------------------------------------------------
\* The steps of the panel of links.

LEMMA LkAsks ==
  ASSUME LkSound, NEW f \in LkFilters, lkFilter' = f, L!AskList(f),
         UNCHANGED <<lkList, lkSelected, lkLink, lkPackets, lkTab, lkLoading, lkStalled>>
  PROVE  LkSound'
<1> USE DEF LkSound
<1>1. L!Asking("list", L!None, f) \in LkRequests BY LkAskingTyped
<1>2. LkFlight' BY <1>1, LkSent DEF L!AskList
<1>3. LkPanel' BY DEF L!AskList, LkPanel
<1>4. LkOrderly' BY LkSendOrderly DEF L!AskList
<1>5. LkSelection' BY DEF LkSelection
<1> QED BY <1>2, <1>3, <1>4, <1>5

LEMMA LkClicks == ASSUME LkSound, NEW link \in Links, L!ClickRow(link) PROVE LkSound'
<1> USE DEF LkSound
<1>0. LkFlight /\ LkPanel OBVIOUS
<1>1. /\ L!Asking("details", link, lkFilter) \in LkRequests
      /\ L!Showing(link, lkPackets) /\ lkPackets \in LkPacketSets
      /\ L!Send(L!Asking("details", link, lkFilter))
      /\ lkSelected' = link /\ lkLoading' = TRUE /\ lkStalled' = FALSE
      /\ UNCHANGED <<lkFilter, lkList, lkListing>>
  BY <1>0, LkAskingTyped DEF L!ClickRow, LkPanel
<1>2. LkFlight' BY <1>0, <1>1, LkSent
<1>3. LkPanel' BY <1>0, <1>1, LkShowingTyped DEF LkPanel
<1>4. UNCHANGED <<lkList, lkPackets>> BY <1>1 DEF L!Showing
<1>5. lkFilter' \in LkFilters BY <1>0, <1>1 DEF LkPanel
<1>6. LkOrderly' BY <1>0, <1>1, <1>4, <1>5, LkSendOrderly
<1>7. LkSelection' BY <1>1 DEF LkSelection, L!Showing
<1> QED BY <1>2, <1>3, <1>6, <1>7

LEMMA LkListComesIn ==
  ASSUME LkSound, NEW i \in LkSlots, NEW listed \in SUBSET Links, L!ListArrives(i, listed)
  PROVE  LkSound'
<1> USE DEF LkSound
<1>0. LkFlight /\ LkPanel /\ lkReq[i] \in LkRequests BY DEF LkFlight
<1>1. /\ lkList' \in LkLists /\ UNCHANGED lkFilter
  BY <1>0 DEF L!ListArrives, LkLists, LkRequests
<1>2. LkOrderly' BY <1>0, LkListOrderly
<1>3. CASE /\ listed = {} /\ L!Nothing /\ lkListing' = FALSE /\ L!Over(i, TRUE)
           /\ UNCHANGED <<lkLoading, lkStalled>>
  <2>1. LkFlight' BY <1>0, <1>3, LkOver
  <2>2. LkPanel' BY <1>0, <1>1, <1>3, LkShowingTyped, LkEmptyTyped DEF LkPanel, L!Nothing
  <2>3. LkSelection' BY <1>3, LkFreeSlot DEF LkSelection, L!Nothing, L!Showing
  <2> QED BY <1>2, <2>1, <2>2, <2>3
<1>4. ASSUME NEW link \in Links, lkSelected' = link, L!Showing(link, lkPackets),
             lkReq' = [lkReq EXCEPT ![i] = L!Asking("listed", link, lkReq[i].filter)],
             lkLoading' = TRUE, lkStalled' = FALSE,
             lkInOrder' = (lkInOrder /\ lkOlder[i] = {}), UNCHANGED <<lkListing, lkOlder>>
      PROVE  LkSound'
  <2>1. L!Asking("listed", link, lkReq[i].filter) \in LkRequests
    <3>1. lkReq[i].filter \in LkFilters \cup {L!None} BY <1>0 DEF LkRequests
    <3> QED BY <3>1, LkAskingTyped
  <2>2. LkFlight' BY <1>0, <1>4, <2>1 DEF LkFlight
  <2>3. lkPackets \in LkPacketSets BY <1>0 DEF LkPanel
  <2>4. LkPanel' BY <1>0, <1>1, <1>4, <2>3, LkShowingTyped DEF LkPanel
  <2>5. LkSelection' BY <1>4 DEF LkSelection, L!Showing
  <2> QED BY <1>2, <2>2, <2>4, <2>5
<1> QED BY <1>3, <1>4 DEF L!ListArrives

LEMMA LkListLost == ASSUME LkSound, NEW i \in LkSlots, L!ListFails(i) PROVE LkSound'
<1> USE DEF LkSound
<1>0. LkFlight /\ LkPanel /\ lkReq[i] \in LkRequests BY DEF LkFlight
<1>1. LkFlight' /\ ~lkInOrder' BY <1>0, LkOver DEF L!ListFails
<1>2. lkList' \in LkLists BY <1>0 DEF L!ListFails, LkLists, LkRequests
<1>3. LkPanel' BY <1>0, <1>2, LkShowingTyped, LkEmptyTyped DEF L!ListFails, L!Nothing, LkPanel
<1>4. LkSelection' BY LkFreeSlot DEF LkSelection, L!ListFails, L!Nothing, L!Showing
<1> QED BY <1>1, <1>3, <1>4 DEF LkOrderly

LEMMA LkDetailsEnd ==
  ASSUME LkSound, NEW i \in LkSlots, L!DetailsArrive(i) \/ L!DetailsFail(i) PROVE LkSound'
<1> USE DEF LkSound
<1>0. LkFlight /\ LkPanel /\ lkReq[i] \in LkRequests BY DEF LkFlight
<1>1. /\ L!Details(i) /\ UNCHANGED <<lkFilter, lkList, lkSelected>>
      /\ lkLoading' = (lkLoading /\ ~L!Current(i)) /\ lkStalled' = (lkStalled /\ ~L!Current(i))
      /\ lkListing' = (lkListing /\ lkReq[i].kind # "listed")
  BY DEF L!DetailsArrive, L!DetailsFail, L!Finished
<1>2. PICK packets \in LkPacketSets :
        /\ packets.link \in {lkReq[i].link, L!None}
        /\ L!DetailsArrive(i) => packets.filter = lkReq[i].filter
        /\ IF L!Current(i) THEN L!Showing(lkLink, packets) ELSE UNCHANGED <<lkLink, lkPackets, lkTab>>
  <2>1. CASE L!DetailsArrive(i)
    <3>1. PICK channels \in SUBSET Tabs : L!Current(i) =>
            L!Showing(lkLink, [link |-> lkReq[i].link, filter |-> lkReq[i].filter, channels |-> channels])
      BY <2>1 DEF L!DetailsArrive
    <3>2. [link |-> lkReq[i].link, filter |-> lkReq[i].filter, channels |-> channels] \in LkPacketSets
      BY <1>0 DEF LkPacketSets, LkRequests
    <3> QED BY <2>1, <3>1, <3>2 DEF L!DetailsArrive
  <2>2. CASE ~L!DetailsArrive(i) BY <2>2, LkEmptyTyped, LkFreeSlot DEF L!DetailsFail
  <2> QED BY <2>1, <2>2
<1>3. LkFlight' BY <1>0, LkOver DEF L!DetailsArrive, L!DetailsFail, L!Finished
<1>4. LkPanel'
  <2>1. lkLink' \in Links \cup {L!None} /\ lkPackets' \in LkPacketSets /\ lkTab' \in Tabs \cup {L!All}
    <3>1. lkLink \in Links \cup {L!None} BY <1>0 DEF LkPanel
    <3> QED BY <1>0, <1>2, <3>1, LkShowingTyped DEF LkPanel
  <2> QED BY <1>0, <1>1, <2>1 DEF LkPanel
<1>5. LkOrderly'
  <2>1. CASE L!DetailsFail(i) BY <1>0, <2>1, LkOver DEF L!DetailsFail, L!Finished, LkOrderly
  <2>2. CASE L!DetailsArrive(i)
    <3>1. L!Over(i, TRUE) BY <2>2 DEF L!DetailsArrive, L!Finished
    <3>2. IF lkSelected = lkReq[i].link THEN lkPackets'.filter = lkReq[i].filter ELSE lkPackets' = lkPackets
      BY <1>2, <2>2 DEF L!Current, L!Showing
    <3> QED BY <1>0, <1>1, <3>1, <3>2, LkDetailsOrderly
  <2> QED BY <2>1, <2>2
<1>6. LkSelection' BY <1>1, <1>2 DEF LkSelection, L!Current, L!Showing
<1> QED BY <1>3, <1>4, <1>5, <1>6

LEMMA LkStalls == ASSUME LkSound, NEW i \in LkSlots, L!Stall(i) PROVE LkSound'
<1> USE DEF LkSound
<1>0. LkFlight /\ LkPanel OBVIOUS
<1>1. /\ lkReq' = [lkReq EXCEPT ![i].watched = FALSE] /\ lkStalled' = TRUE
      /\ UNCHANGED <<lkFilter, lkList, lkSelected, lkLink, lkPackets, lkTab, lkListing, lkLoading,
                     lkOlder, lkInOrder>>
  BY DEF L!Stall
<1>2. /\ lkReq' \in [LkSlots -> LkRequests]
      /\ \A j \in LkSlots : /\ lkReq'[j].kind = lkReq[j].kind /\ lkReq'[j].link = lkReq[j].link
                            /\ lkReq'[j].filter = lkReq[j].filter
  BY <1>0, <1>1 DEF LkFlight, LkRequests
<1>3. LkFlight' BY <1>0, <1>1, <1>2 DEF LkFlight
<1>4. LkPanel' BY <1>0, <1>1 DEF LkPanel
<1>5. \A j \in LkSlots : /\ LkListComes(j)' <=> LkListComes(j)
                         /\ LkPacketsCome(j)' <=> LkPacketsCome(j)
  BY <1>1, <1>2 DEF LkListComes, LkPacketsCome
<1>6. LkOrderly' BY <1>1, <1>2, <1>5 DEF LkOrderly
<1>7. LkSelection' BY <1>1 DEF LkSelection
<1> QED BY <1>3, <1>4, <1>6, <1>7

LEMMA LkStep == LkSound /\ [L!LkNext]_(L!lkVars) => LkSound'
<1> SUFFICES ASSUME LkSound, [L!LkNext]_(L!lkVars) PROVE LkSound' OBVIOUS
<1>1. ASSUME NEW f \in LkFilters, L!ChangeFilter(f) PROVE LkSound'
  BY <1>1, LkAsks DEF L!ChangeFilter
<1>2. CASE L!RefreshLinks
  <2>1. lkFilter \in LkFilters BY DEF LkSound, LkPanel
  <2> QED BY <1>2, <2>1, LkAsks DEF L!RefreshLinks
<1>3. ASSUME NEW link \in Links, L!ClickRow(link) PROVE LkSound' BY <1>3, LkClicks
<1>4. ASSUME NEW c \in Tabs \cup {L!All}, L!ClickChannel(c) PROVE LkSound'
  BY <1>4 DEF L!ClickChannel, LkSound, LkFlight, LkPanel, L!NoRequest, LkOrderly, LkListComes,
              LkPacketsCome, LkSelection
<1>5. ASSUME NEW i \in LkSlots, NEW listed \in SUBSET Links, L!ListArrives(i, listed) PROVE LkSound'
  BY <1>5, LkListComesIn
<1>6. ASSUME NEW i \in LkSlots,
             L!ListFails(i) \/ L!DetailsArrive(i) \/ L!DetailsFail(i) \/ L!Stall(i)
      PROVE  LkSound'
  BY <1>6, LkListLost, LkDetailsEnd, LkStalls
<1>7. CASE UNCHANGED L!lkVars
  BY <1>7
  DEF L!lkVars, LkSound, LkFlight, LkPanel, LkOrderly, LkListComes, LkPacketsCome, LkSelection
<1> QED BY <1>1, <1>2, <1>3, <1>4, <1>5, <1>6, <1>7 DEF L!LkNext

LEMMA LkStarts == L!LkInit => LkSound
<1> SUFFICES ASSUME L!LkInit PROVE LkSound OBVIOUS
<1>1. LkFlight BY LkEmptyTyped DEF L!LkInit, LkFlight
<1>2. LkPanel BY LkEmptyTyped DEF L!LkInit, LkPanel, LkLists, L!NoList
<1>3. LkOrderly /\ LkSelection BY LkFreeSlot DEF L!LkInit, LkOrderly, LkSelection
<1> QED BY <1>1, <1>2, <1>3 DEF LkSound

\* What the sound state shows.
LEMMA LkShows == LkSound => L!ShowsSelected /\ L!ShowsFiltered
<1> SUFFICES ASSUME LkSound PROVE L!ShowsSelected /\ L!ShowsFiltered OBVIOUS
<1>1. L!ShowsSelected BY DEF LkSound, LkSelection, L!ShowsSelected, L!PacketsShown
<1>2. L!Waiting = {} => \A j \in LkSlots : lkReq[j].kind = "none" BY LkFreeSlot DEF L!Waiting
<1>3. L!ShowsFiltered
  BY <1>2 DEF LkSound, LkOrderly, LkListComes, LkPacketsCome, L!ShowsFiltered
<1> QED BY <1>1, <1>3

-----------------------------------------------------------------------------
(* The captures: the list is the server's once nothing is in flight.       *)

CpRequests == [kind : {"load", "refresh", "start", "stop", "delete", "clear", "none"},
               ph : {"sent", "acted", "fetching", "fetched", "none"},
               id : C!Captures \cup {C!NoCapture}, skip : BOOLEAN, list : C!Lists]

\* The panel, the server and the history are well typed.
CpPanel ==
  /\ cpLoading \in BOOLEAN /\ cpRefreshing \in BOOLEAN /\ cpSubmitting \in BOOLEAN
  /\ cpClearing \in BOOLEAN /\ cpTrusted \in BOOLEAN
  /\ cpDeleting \in C!Captures \cup {C!NoCapture}
  /\ cpList \in C!Lists /\ cpServer \in C!Lists /\ cpStarted \in 0..MaxCaptures
  /\ cpAlone \subseteq C!Captures

CpFlight ==
  /\ cpReq \in [CpSlots -> CpRequests]
  /\ cpNewer \subseteq CpSlots /\ cpOlder \in [CpSlots -> SUBSET CpSlots]

LEMMA CpTypesSplit == C!CpTypeOK <=> CpPanel /\ CpFlight
BY DEF C!CpTypeOK, CpPanel, CpFlight, CpRequests

LEMMA CpFree ==
  /\ C!NoList \in C!Lists /\ C!NoList.running = {}
  /\ C!Free \in CpRequests /\ C!Free.kind = "none" /\ C!Free.ph = "none"
BY DEF C!NoList, C!Lists, C!Free, CpRequests

LEMMA CpAskedTyped ==
  ASSUME CpPanel, NEW kind \in {"start", "stop", "delete", "clear"}, NEW id \in C!Captures \cup {C!NoCapture}
  PROVE  /\ C!Asked(kind, id) \in CpRequests
         /\ C!Asked(kind, id).kind = kind /\ C!Asked(kind, id).ph = "sent"
<1>1. C!SkipsRefresh \in BOOLEAN BY DEF CpPanel, C!SkipsRefresh
<1>2. C!Asked(kind, id) = [C!Free EXCEPT !.kind = kind, !.ph = "sent", !.id = id, !.skip = C!SkipsRefresh]
  BY DEF C!Asked
<1> QED BY <1>1, <1>2, CpFree DEF CpRequests

LEMMA CpFetchingTyped ==
  ASSUME NEW kind \in {"load", "refresh", "start", "stop", "delete", "clear", "none"}
  PROVE  /\ C!Fetching(kind) \in CpRequests
         /\ C!Fetching(kind).kind = kind /\ C!Fetching(kind).ph = "fetching"
BY CpFree DEF C!Fetching, CpRequests

LEMMA CpClearedTyped ==
  ASSUME CpPanel, NEW kind, C!Cleared(kind)
  PROVE  /\ cpSubmitting' \in BOOLEAN /\ cpClearing' \in BOOLEAN
         /\ cpDeleting' \in C!Captures \cup {C!NoCapture}
         /\ cpSubmitting /\ kind # "start" => cpSubmitting'
BY DEF CpPanel, C!Cleared

\* What has ended by itself was started, and runs no more.
CpEnded ==
  /\ \A c \in cpAlone \cup cpServer.ids : c <= cpStarted
  /\ cpAlone \cap cpServer.running = {}

\* A list is the server's but for what ended by itself.
CpSame(l) == l.ids = cpServer.ids /\ l.running \ cpAlone = cpServer.running

\* A request takes a free slot.
LEMMA CpSent ==
  ASSUME CpFlight, NEW r, C!Send(r)
  PROVE  /\ \E i \in CpSlots : cpReq[i] = C!Free /\ cpReq' = [cpReq EXCEPT ![i] = r]
         /\ UNCHANGED <<cpList, cpServer, cpStarted, cpAlone, cpNewer, cpOlder, cpTrusted>>
<1> DEFINE i == CHOOSE j \in CpSlots : cpReq[j] = C!Free
<1>1. /\ cpReq' = [cpReq EXCEPT ![i] = r] /\ \E j \in CpSlots : cpReq[j] = C!Free
      /\ UNCHANGED <<cpList, cpServer, cpStarted, cpAlone, cpNewer, cpOlder, cpTrusted>>
  BY DEF C!Send, C!history
<1>2. i \in CpSlots /\ cpReq[i] = C!Free BY <1>1
<1> HIDE DEF i
<1> QED BY <1>1, <1>2

CpFetched == {i \in CpSlots : cpReq[i].ph = "fetched"}

\* The lists on their way are in one order.
CpOrdered ==
  /\ cpNewer \subseteq CpFetched
  /\ \A i, j \in CpSlots : i \in cpOlder[j] => {i, j} \subseteq CpFetched /\ j \notin cpOlder[i]
  /\ \A i, j \in CpFetched : i = j \/ i \in cpOlder[j] \/ j \in cpOlder[i]

\* One start at a time, and a flag for it.
CpOneStart ==
  /\ \A i \in CpSlots : cpReq[i].kind = "start" => cpSubmitting
  /\ \A i, j \in CpSlots : cpReq[i].kind = "start" /\ cpReq[j].kind = "start" => i = j

CpStarts(phases) == {i \in CpSlots : cpReq[i].kind = "start" /\ cpReq[i].ph \in phases}

\* What was done but is not yet listed has a list to come; else the last list, on its way
\* or shown, is the server's.
CpLastListTrue ==
  \/ \E i \in CpSlots : cpReq[i].ph \in {"acted", "fetching"}
  \/ \E i \in cpNewer : CpSame(cpReq[i].list) /\ \A j \in cpNewer \ {i} : j \in cpOlder[i]
  \/ cpNewer = {} /\ CpSame(cpList)

CpTells(l) == cpServer.running \subseteq l.running

\* What runs is listed, by the list of the start that has not ended and those read after
\* it, or, without one, by the list shown and those newer.
CpRunningListed ==
  \/ CpStarts({"acted", "fetching"}) # {}
  \/ \E i \in CpStarts({"fetched"}) :
       CpTells(cpReq[i].list) /\ \A k \in cpNewer : i \in cpOlder[k] => CpTells(cpReq[k].list)
  \/ CpTells(cpList) /\ \A k \in cpNewer : CpTells(cpReq[k].list)

\* What is asked of the server is one of four things.
CpAsks == \A i \in CpSlots : cpReq[i].ph = "sent" => cpReq[i].kind \in {"start", "stop", "delete", "clear"}

CpListed == cpTrusted => CpLastListTrue /\ CpRunningListed

CpSound == CpPanel /\ CpEnded /\ CpFlight /\ CpOrdered /\ CpOneStart /\ CpAsks /\ CpListed


\* Asking for something, or for a list, leaves all that is on its way as it is.
LEMMA CpSendSound ==
  ASSUME CpSound, NEW r \in CpRequests, C!Send(r),
         \/ r.ph = "fetching" /\ r.kind # "start" /\ cpSubmitting' = cpSubmitting
         \/ /\ r.ph = "sent" /\ r.kind \in {"start", "stop", "delete", "clear"}
            /\ \/ r.kind # "start" /\ cpSubmitting' = cpSubmitting
               \/ ~cpSubmitting /\ cpSubmitting'
  PROVE  CpEnded' /\ CpFlight' /\ CpOrdered' /\ CpOneStart' /\ CpAsks' /\ CpListed'
<1> USE DEF CpSound
<1>1. PICK i \in CpSlots : cpReq[i] = C!Free /\ cpReq' = [cpReq EXCEPT ![i] = r] BY CpSent
<1>2. UNCHANGED <<cpList, cpServer, cpStarted, cpAlone, cpNewer, cpOlder, cpTrusted>> BY CpSent
<1>3. /\ cpReq'[i] = r /\ \A j \in CpSlots \ {i} : cpReq'[j] = cpReq[j]
      /\ cpReq[i].kind = "none" /\ cpReq[i].ph = "none"
  BY <1>1, CpFree DEF CpFlight
<1>4. CpFlight' BY <1>1, <1>2 DEF CpFlight
<1>5. CpFetched' = CpFetched /\ i \notin CpFetched BY <1>3 DEF CpFetched
<1>6. CpOrdered' BY <1>2, <1>5 DEF CpOrdered
<1>7. CpOneStart'
  <2>1. CASE r.kind # "start" /\ cpSubmitting' = cpSubmitting BY <1>3, <2>1 DEF CpOneStart
  <2>2. CASE ~cpSubmitting /\ cpSubmitting' BY <1>3, <2>2 DEF CpOneStart
  <2> QED BY <2>1, <2>2
<1>8. CpAsks' BY <1>3 DEF CpAsks
<1>9. ASSUME cpTrusted PROVE CpLastListTrue'
  <2>1. CASE \E j \in CpSlots : cpReq[j].ph \in {"acted", "fetching"}
    BY <1>3, <2>1 DEF CpLastListTrue
  <2>2. \A j \in cpNewer : cpReq'[j] = cpReq[j] BY <1>3, <1>5 DEF CpOrdered, CpFetched
  <2>3. CASE ~\E j \in CpSlots : cpReq[j].ph \in {"acted", "fetching"}
    <3>1. \/ \E j \in cpNewer : CpSame(cpReq[j].list) /\ \A k \in cpNewer \ {j} : k \in cpOlder[j]
          \/ cpNewer = {} /\ CpSame(cpList)
      BY <1>9, <2>3 DEF CpListed, CpLastListTrue
    <3> QED BY <1>2, <2>2, <3>1 DEF CpLastListTrue, CpSame
  <2> QED BY <2>1, <2>3
<1>10. ASSUME cpTrusted PROVE CpRunningListed'
  <2>1. \A j \in cpNewer \cup CpStarts({"fetched"}) : cpReq'[j] = cpReq[j] /\ j \in CpSlots
    BY <1>3, <1>5 DEF CpOrdered, CpFetched, CpStarts
  <2>2. /\ CpStarts({"acted", "fetching"})' = CpStarts({"acted", "fetching"})
        /\ CpStarts({"fetched"})' = CpStarts({"fetched"})
    BY <1>3 DEF CpStarts
  <2>3. \A j \in cpNewer \cup CpStarts({"fetched"}) : CpTells(cpReq[j].list)' = CpTells(cpReq[j].list)
    BY <1>2, <2>1 DEF CpTells
  <2>4. CpTells(cpList)' = CpTells(cpList) BY <1>2 DEF CpTells
  <2>5. CpRunningListed BY <1>10 DEF CpListed
  <2> QED BY <1>2, <2>2, <2>3, <2>4, <2>5 DEF CpRunningListed
<1>11. CpEnded' BY <1>2 DEF CpEnded
<1> QED BY <1>2, <1>4, <1>6, <1>7, <1>8, <1>9, <1>10, <1>11 DEF CpListed

\* Whoever asks: what is served keeps the types, and only a start makes more run.
LEMMA CpServed ==
  ASSUME CpPanel, CpEnded, MaxCaptures \in Nat, NEW kind \in {"start", "stop", "delete", "clear"},
         NEW id \in C!Captures \cup {C!NoCapture}, C!Serve(kind, id), UNCHANGED cpAlone
  PROVE  /\ cpStarted' \in 0..MaxCaptures /\ cpServer' \in C!Lists /\ CpEnded'
         /\ kind # "start" => cpServer'.running \subseteq cpServer.running
<1>1. /\ kind = "start" => cpStarted < MaxCaptures
      /\ cpStarted' = IF kind = "start" THEN cpStarted + 1 ELSE cpStarted
  BY DEF C!Serve
<1>2. /\ cpStarted \in 0..MaxCaptures /\ cpServer \in C!Lists /\ cpAlone \subseteq 1..MaxCaptures
      /\ cpServer.ids \subseteq 1..MaxCaptures /\ cpServer.running \subseteq cpServer.ids
  BY DEF CpPanel, C!Lists, C!Captures
<1>3. CASE kind = "start"
  <2>1. cpServer' = [ids |-> cpServer.ids \cup {cpStarted'}, running |-> cpServer.running \cup {cpStarted'}]
    BY <1>3 DEF C!Serve
  <2>2. cpStarted' = cpStarted + 1 /\ cpStarted' \in 1..MaxCaptures BY <1>1, <1>2, <1>3
  <2>3. cpServer' \in C!Lists BY <1>2, <2>1, <2>2 DEF C!Lists, C!Captures
  <2>4. cpServer'.ids = cpServer.ids \cup {cpStarted'}
        /\ cpServer'.running = cpServer.running \cup {cpStarted'}
    BY <2>1
  <2>5. \A c \in cpAlone \cup cpServer.ids : c \in 1..MaxCaptures /\ c <= cpStarted
    BY <1>2 DEF CpEnded
  <2>6. CpEnded'
    <3>1. \A c \in cpAlone \cup cpServer.ids : c <= cpStarted' /\ c # cpStarted' BY <1>2, <2>2, <2>5
    <3>2. cpStarted' <= cpStarted' BY <2>2
    <3>3. \A c \in cpAlone \cup cpServer'.ids : c <= cpStarted' BY <2>4, <3>1, <3>2
    <3>4. cpAlone \cap cpServer'.running = {} BY <2>4, <3>1 DEF CpEnded
    <3> QED BY <3>3, <3>4 DEF CpEnded
  <2> QED BY <1>3, <2>2, <2>3, <2>6
<1>4. CASE kind # "start"
  <2>1. cpServer' \in C!Lists /\ cpServer'.ids \subseteq cpServer.ids
        /\ cpServer'.running \subseteq cpServer.running
    <3>1. CASE kind = "stop"
      <4>1. cpServer' = [cpServer EXCEPT !.running = @ \ {id}] BY <3>1 DEF C!Serve
      <4> QED BY <1>2, <4>1 DEF C!Lists
    <3>2. CASE kind = "delete"
      <4>1. cpServer' = [ids |-> cpServer.ids \ {id}, running |-> cpServer.running \ {id}]
        BY <3>2 DEF C!Serve
      <4> QED BY <1>2, <4>1 DEF C!Lists
    <3>3. CASE kind = "clear"
      <4>1. cpServer' = C!NoList BY <3>3 DEF C!Serve
      <4> QED BY <4>1, CpFree DEF C!NoList
    <3> QED BY <1>4, <3>1, <3>2, <3>3
  <2>2. CpEnded'
    <3>1. cpStarted' = cpStarted BY <1>1, <1>4
    <3> QED BY <2>1, <3>1 DEF CpEnded
  <2> QED BY <1>1, <1>2, <1>4, <2>1, <2>2
<1> QED BY <1>3, <1>4

\* The server does what it was asked: a list of it is to come.
LEMMA CpActs == ASSUME CpSound, MaxCaptures \in Nat, NEW i \in CpSlots, C!Act(i) PROVE CpSound'
<1> USE DEF CpSound
<1> DEFINE r == cpReq[i]
           done == [cpReq[i] EXCEPT !.ph = "acted", !.id = C!NoCapture]
<1>1. /\ r.ph = "sent" /\ C!Serve(r.kind, r.id)
      /\ cpReq' = [cpReq EXCEPT ![i] = done]
      /\ UNCHANGED <<cpList, cpLoading, cpRefreshing, cpSubmitting, cpDeleting, cpClearing, cpAlone,
                     cpNewer, cpOlder, cpTrusted>>
  BY DEF C!Act, C!flags, C!history
<1>2. r \in CpRequests /\ r.kind \in {"start", "stop", "delete", "clear"}
  BY <1>1 DEF CpFlight, CpAsks
<1>3. done \in CpRequests /\ done.ph = "acted" /\ done.kind = r.kind BY <1>2 DEF CpRequests
<1> HIDE DEF done
<1>4. cpReq'[i] = done /\ \A j \in CpSlots \ {i} : cpReq'[j] = cpReq[j] BY <1>1 DEF CpFlight
<1>5. cpStarted' \in 0..MaxCaptures /\ CpEnded'
  <2>1. r.id \in C!Captures \cup {C!NoCapture} BY <1>2 DEF CpRequests
  <2> QED BY <1>1, <1>2, <2>1, CpServed
<1>6. cpServer' \in C!Lists /\ (r.kind # "start" => cpServer'.running \subseteq cpServer.running)
  <2>1. r.id \in C!Captures \cup {C!NoCapture} BY <1>2 DEF CpRequests
  <2> QED BY <1>1, <1>2, <2>1, CpServed
<1>7. CpPanel' BY <1>1, <1>5, <1>6 DEF CpPanel
<1>8. CpFlight' BY <1>1, <1>3 DEF CpFlight
<1>9. CpFetched' = CpFetched /\ i \notin CpFetched BY <1>1, <1>3, <1>4 DEF CpFetched
<1>10. CpOrdered' BY <1>1, <1>9 DEF CpOrdered
<1>11. CpOneStart' BY <1>1, <1>3, <1>4 DEF CpOneStart
<1>12. CpAsks' BY <1>3, <1>4 DEF CpAsks
<1>13. CpLastListTrue' BY <1>3, <1>4 DEF CpLastListTrue
<1>14. ASSUME cpTrusted PROVE CpRunningListed'
  <2>1. CASE r.kind = "start" BY <1>3, <1>4, <2>1 DEF CpRunningListed, CpStarts
  <2>2. CASE r.kind # "start"
    <3>1. \A j \in cpNewer \cup CpStarts({"fetched"}) : cpReq'[j] = cpReq[j]
      BY <1>4, <1>9 DEF CpOrdered, CpFetched, CpStarts
    <3>2. \A l : CpTells(l) => cpServer'.running \subseteq l.running BY <1>6, <2>2 DEF CpTells
    <3>3. /\ CpStarts({"acted", "fetching"})' = CpStarts({"acted", "fetching"})
          /\ CpStarts({"fetched"})' = CpStarts({"fetched"})
      BY <1>3, <1>4, <2>2 DEF CpStarts
    <3>4. \A j \in cpNewer \cup CpStarts({"fetched"}) : CpTells(cpReq[j].list) => CpTells(cpReq[j].list)'
      BY <3>1, <3>2 DEF CpTells
    <3>5. CpTells(cpList) => CpTells(cpList)' BY <1>1, <3>2 DEF CpTells
    <3>6. CpRunningListed BY <1>14 DEF CpListed
    <3> QED BY <1>1, <3>3, <3>4, <3>5, <3>6 DEF CpRunningListed
  <2> QED BY <2>1, <2>2
<1> QED BY <1>1, <1>5, <1>7, <1>8, <1>10, <1>11, <1>12, <1>13, <1>14 DEF CpListed

\* Another client is served: the list is no longer trusted.
LEMMA CpOthers == ASSUME CpSound, MaxCaptures \in Nat, C!OtherActs PROVE CpSound'
<1>1. /\ UNCHANGED <<cpList, cpLoading, cpRefreshing, cpSubmitting, cpDeleting, cpClearing, cpReq, cpAlone,
                     cpNewer, cpOlder>>
      /\ cpTrusted' = FALSE
  BY DEF C!OtherActs, C!flags, C!history
<1>2. cpServer.ids \subseteq C!Captures BY DEF CpSound, CpPanel, C!Lists
<1>3. PICK kind \in {"start", "stop", "delete", "clear"}, id \in C!Captures \cup {C!NoCapture} :
        C!Serve(kind, id)
  BY <1>2 DEF C!OtherActs
<1>4. cpStarted' \in 0..MaxCaptures /\ cpServer' \in C!Lists /\ CpEnded'
  BY <1>1, <1>3, CpServed DEF CpSound
<1>5. CpPanel' BY <1>1, <1>4 DEF CpSound, CpPanel
<1>6. CpFlight' /\ CpOrdered' /\ CpOneStart' /\ CpAsks'
  BY <1>1 DEF CpSound, CpFlight, CpOrdered, CpFetched, CpOneStart, CpAsks
<1> QED BY <1>1, <1>4, <1>5, <1>6 DEF CpSound, CpListed

\* A session that ends by itself leaves the lists true but for itself.
LEMMA CpEnds == ASSUME CpSound, NEW c \in C!Captures, C!EndAlone(c) PROVE CpSound'
<1>1. /\ UNCHANGED <<cpList, cpLoading, cpRefreshing, cpSubmitting, cpDeleting, cpClearing, cpReq, cpStarted,
                     cpNewer, cpOlder, cpTrusted>>
      /\ c \in cpServer.running /\ cpAlone' = cpAlone \cup {c}
      /\ cpServer' = [cpServer EXCEPT !.running = @ \ {c}]
  BY DEF C!EndAlone, C!flags
<1>2. /\ cpServer' \in C!Lists /\ cpServer'.ids = cpServer.ids /\ c \in cpServer.ids
      /\ cpServer'.running = cpServer.running \ {c}
  BY <1>1 DEF CpSound, CpPanel, C!Lists
<1>3. CpPanel' BY <1>1, <1>2 DEF CpSound, CpPanel
<1>4. CpEnded' BY <1>1, <1>2 DEF CpSound, CpEnded
<1>5. CpFlight' /\ CpOrdered' /\ CpOneStart' /\ CpAsks'
  BY <1>1 DEF CpSound, CpFlight, CpOrdered, CpFetched, CpOneStart, CpAsks
<1>6. /\ \A i \in CpSlots : CpSame(cpReq[i].list) => CpSame(cpReq[i].list)'
      /\ CpSame(cpList) => CpSame(cpList)'
  BY <1>1, <1>2 DEF CpSame
<1>7. /\ \A i \in CpSlots : CpTells(cpReq[i].list) => CpTells(cpReq[i].list)'
      /\ CpTells(cpList) => CpTells(cpList)'
  BY <1>1, <1>2 DEF CpTells
<1>8. cpNewer \subseteq CpSlots BY DEF CpSound, CpFlight
<1>9. CpLastListTrue => CpLastListTrue' BY <1>1, <1>6, <1>8 DEF CpLastListTrue
<1>10. CpRunningListed => CpRunningListed' BY <1>1, <1>7, <1>8 DEF CpRunningListed, CpStarts
<1>11. CpListed' BY <1>1, <1>9, <1>10 DEF CpSound, CpListed
<1> QED BY <1>3, <1>4, <1>5, <1>11 DEF CpSound

\* A request that is over takes nothing but itself out of flight.
LEMMA CpOver ==
  ASSUME CpSound, NEW i \in CpSlots, cpReq' = [cpReq EXCEPT ![i] = C!Free],
         cpNewer' \subseteq cpNewer \ {i}, cpOlder' = C!Without(i), C!Cleared(cpReq[i].kind)
  PROVE  /\ CpFlight' /\ CpOrdered' /\ CpOneStart' /\ CpAsks'
         /\ cpReq'[i] = C!Free /\ \A j \in CpSlots \ {i} : cpReq'[j] = cpReq[j]
         /\ \A j, k \in CpSlots \ {i} : k \in cpOlder'[j] <=> k \in cpOlder[j]
<1> USE DEF CpSound
<1>1. cpReq'[i] = C!Free /\ \A j \in CpSlots \ {i} : cpReq'[j] = cpReq[j] BY DEF CpFlight
<1>2. cpOlder' = [j \in CpSlots |-> IF j = i THEN {} ELSE cpOlder[j] \ {i}] BY DEF C!Without
<1>3. CpFlight' BY <1>2, CpFree DEF CpFlight
<1>4. CpFetched' = CpFetched \ {i} BY <1>1, CpFree DEF CpFetched
<1>5. \A j, k \in CpSlots \ {i} : k \in cpOlder'[j] <=> k \in cpOlder[j] BY <1>2
<1>6. CpOrdered'
  <2>1. cpNewer' \subseteq CpFetched' BY <1>4 DEF CpOrdered
  <2>2. \A j, k \in CpSlots : j \in cpOlder'[k] => {j, k} \subseteq CpFetched' /\ k \notin cpOlder'[j]
    BY <1>2, <1>4 DEF CpOrdered
  <2>3. \A j, k \in CpFetched' : j = k \/ j \in cpOlder'[k] \/ k \in cpOlder'[j]
    BY <1>2, <1>4 DEF CpOrdered, CpFetched
  <2> QED BY <2>1, <2>2, <2>3 DEF CpOrdered
<1>7. CpOneStart'
  <2>1. \A j \in CpSlots : cpReq'[j].kind = "start" => j # i /\ cpReq[j].kind = "start"
    BY <1>1, CpFree
  <2>2. (\E j \in CpSlots : cpReq'[j].kind = "start") => cpSubmitting'
    BY <2>1, CpClearedTyped DEF CpOneStart
  <2> QED BY <2>1, <2>2 DEF CpOneStart
<1>8. CpAsks' BY <1>1, CpFree DEF CpAsks
<1> QED BY <1>1, <1>3, <1>5, <1>6, <1>7, <1>8

\* The answer sends for a list, or, where it cannot, trust is gone.
LEMMA CpActed == ASSUME CpSound, NEW i \in CpSlots, C!Acted(i) PROVE CpSound'
<1> USE DEF CpSound
<1>1. /\ cpReq[i].ph = "acted" /\ cpReq[i] \in CpRequests
      /\ UNCHANGED <<cpList, cpLoading, cpServer, cpStarted, cpAlone, cpNewer, cpOlder>>
  BY DEF C!Acted, C!history, CpFlight
<1>2. i \notin CpFetched BY <1>1 DEF CpFetched
<1>5. CpEnded' BY <1>1 DEF CpEnded
<1>3. CASE cpReq[i].skip
  <2>1. /\ cpReq' = [cpReq EXCEPT ![i] = C!Free] /\ C!Cleared(cpReq[i].kind)
        /\ cpTrusted' = FALSE /\ UNCHANGED cpRefreshing
    BY <1>3 DEF C!Acted
  <2>2. cpNewer' \subseteq cpNewer \ {i} BY <1>1, <1>2 DEF CpOrdered
  <2>3. cpOlder' = C!Without(i)
    <3>1. \A j \in CpSlots : cpOlder[j] = IF j = i THEN {} ELSE cpOlder[j] \ {i}
      BY <1>2 DEF CpOrdered, CpFlight
    <3> QED BY <1>1, <3>1 DEF CpFlight, C!Without
  <2>4. CpFlight' /\ CpOrdered' /\ CpOneStart' /\ CpAsks' BY <2>1, <2>2, <2>3, CpOver
  <2>5. CpPanel' BY <1>1, <2>1, CpClearedTyped DEF CpPanel
  <2> QED BY <1>5, <2>1, <2>4, <2>5 DEF CpListed
<1>4. CASE ~cpReq[i].skip
  <2> DEFINE r == C!Fetching(cpReq[i].kind)
  <2>1. /\ cpReq' = [cpReq EXCEPT ![i] = r] /\ cpRefreshing' = TRUE
        /\ UNCHANGED <<cpSubmitting, cpDeleting, cpClearing, cpTrusted>>
    BY <1>4 DEF C!Acted
  <2>2. r \in CpRequests /\ r.kind = cpReq[i].kind /\ r.ph = "fetching"
    BY <1>1, CpFetchingTyped DEF CpRequests
  <2> HIDE DEF r
  <2>3. cpReq'[i] = r /\ \A j \in CpSlots \ {i} : cpReq'[j] = cpReq[j] BY <2>1 DEF CpFlight
  <2>4. CpPanel' BY <1>1, <2>1 DEF CpPanel
  <2>5. CpFlight' BY <1>1, <2>1, <2>2 DEF CpFlight
  <2>6. CpFetched' = CpFetched BY <1>2, <2>2, <2>3 DEF CpFetched
  <2>7. CpOrdered' BY <1>1, <2>6 DEF CpOrdered
  <2>8. CpOneStart' BY <2>1, <2>2, <2>3 DEF CpOneStart
  <2>9. CpAsks' BY <2>2, <2>3 DEF CpAsks
  <2>10. CpLastListTrue' BY <2>2, <2>3 DEF CpLastListTrue
  <2>11. ASSUME cpTrusted PROVE CpRunningListed'
    <3>1. \A j \in cpNewer \cup CpStarts({"fetched"}) : cpReq'[j] = cpReq[j]
      BY <1>2, <2>3 DEF CpOrdered, CpFetched, CpStarts
    <3>2. /\ CpStarts({"acted", "fetching"})' = CpStarts({"acted", "fetching"})
          /\ CpStarts({"fetched"})' = CpStarts({"fetched"})
      BY <1>1, <2>2, <2>3 DEF CpStarts
    <3>3. \A j \in cpNewer \cup CpStarts({"fetched"}) : CpTells(cpReq[j].list)' = CpTells(cpReq[j].list)
      BY <1>1, <3>1 DEF CpTells
    <3>4. CpTells(cpList)' = CpTells(cpList) BY <1>1 DEF CpTells
    <3>5. CpRunningListed BY <2>11 DEF CpListed
    <3> QED BY <1>1, <3>2, <3>3, <3>4, <3>5 DEF CpRunningListed
  <2> QED BY <1>5, <2>1, <2>4, <2>5, <2>7, <2>8, <2>9, <2>10, <2>11 DEF CpListed
<1>6. cpReq[i].skip \in BOOLEAN BY <1>1 DEF CpRequests
<1> QED BY <1>3, <1>4, <1>6

\* A list that is read is the last, and the server's.
LEMMA CpServes == ASSUME CpSound, NEW i \in CpSlots, C!ServeList(i) PROVE CpSound'
<1> USE DEF CpSound
<1> DEFINE r == [cpReq[i] EXCEPT !.ph = "fetched", !.list = cpServer]
<1>1. /\ cpReq[i].ph = "fetching" /\ cpReq' = [cpReq EXCEPT ![i] = r]
      /\ cpNewer' = cpNewer \cup {i} /\ cpOlder' = [cpOlder EXCEPT ![i] = CpFetched]
      /\ UNCHANGED <<cpList, cpLoading, cpRefreshing, cpSubmitting, cpDeleting, cpClearing, cpServer,
                     cpStarted, cpAlone, cpTrusted>>
  BY DEF C!ServeList, C!flags, CpFetched
<1>2. r \in CpRequests /\ r.kind = cpReq[i].kind /\ r.ph = "fetched" /\ r.list = cpServer
  BY DEF CpFlight, CpPanel, CpRequests
<1> HIDE DEF r
<1>3. cpReq'[i] = r /\ \A j \in CpSlots \ {i} : cpReq'[j] = cpReq[j] BY <1>1 DEF CpFlight
<1>4. cpOlder'[i] = CpFetched /\ \A j \in CpSlots \ {i} : cpOlder'[j] = cpOlder[j]
  BY <1>1 DEF CpFlight
<1>5. CpFetched' = CpFetched \cup {i} /\ i \notin CpFetched /\ CpFetched \subseteq CpSlots
  BY <1>1, <1>2, <1>3 DEF CpFetched
<1>6. CpPanel' BY <1>1 DEF CpPanel
<1>7. CpFlight' BY <1>1, <1>2, <1>5 DEF CpFlight
<1>8. CpOrdered'
  <2>1. cpNewer' \subseteq CpFetched' BY <1>1, <1>5 DEF CpOrdered
  <2>2. \A j \in CpSlots : i \notin cpOlder'[j] BY <1>4, <1>5 DEF CpOrdered
  <2>3. \A j, k \in CpSlots : j \in cpOlder'[k] => {j, k} \subseteq CpFetched' /\ k \notin cpOlder'[j]
    BY <1>4, <1>5, <2>2 DEF CpOrdered
  <2>4. \A j, k \in CpFetched' : j = k \/ j \in cpOlder'[k] \/ k \in cpOlder'[j]
    BY <1>4, <1>5 DEF CpOrdered
  <2> QED BY <2>1, <2>3, <2>4 DEF CpOrdered
<1>9. CpOneStart' BY <1>1, <1>2, <1>3 DEF CpOneStart
<1>10. CpAsks' BY <1>2, <1>3 DEF CpAsks
<1>11. CpLastListTrue'
  <2>1. cpReq'[i].list = cpServer' /\ \A j \in cpNewer' \ {i} : j \in cpOlder'[i]
    BY <1>1, <1>2, <1>3, <1>4 DEF CpOrdered
  <2>2. CpSame(cpReq[i].list)' BY <1>1, <2>1 DEF CpSame, CpEnded
  <2> QED BY <1>1, <2>1, <2>2 DEF CpLastListTrue
<1>12. ASSUME cpTrusted PROVE CpRunningListed'
  <2>1. CpTells(cpReq[i].list)' BY <1>1, <1>2, <1>3 DEF CpTells
  <2>2. /\ \A j \in CpSlots \ {i} : CpTells(cpReq[j].list)' = CpTells(cpReq[j].list)
        /\ CpTells(cpList)' = CpTells(cpList)
    BY <1>1, <1>3 DEF CpTells
  <2>3. cpNewer \subseteq CpSlots BY <1>5 DEF CpOrdered
  <2>4. CASE cpReq[i].kind = "start"
    <3>1. i \in CpStarts({"fetched"})' BY <1>2, <1>3, <2>4 DEF CpStarts
    <3>2. \A k \in cpNewer' : i \notin cpOlder'[k] BY <1>1, <1>4, <1>5, <2>3 DEF CpOrdered
    <3> QED BY <2>1, <3>1, <3>2 DEF CpRunningListed
  <2>5. CASE cpReq[i].kind # "start"
    <3>1. /\ CpStarts({"acted", "fetching"})' = CpStarts({"acted", "fetching"})
          /\ CpStarts({"fetched"})' = CpStarts({"fetched"})
      BY <1>2, <1>3, <2>5 DEF CpStarts
    <3>2. CASE CpStarts({"acted", "fetching"}) # {} BY <3>1, <3>2 DEF CpRunningListed
    <3>3. ASSUME NEW j \in CpStarts({"fetched"}), CpTells(cpReq[j].list),
                 \A k \in cpNewer : j \in cpOlder[k] => CpTells(cpReq[k].list)
          PROVE  CpRunningListed'
      <4>1. j \in CpSlots \ {i} BY <1>1, <3>3 DEF CpStarts
      <4>2. \A k \in cpNewer' : j \in cpOlder'[k] => CpTells(cpReq[k].list)'
        BY <1>1, <1>4, <1>5, <2>1, <2>2, <2>3, <3>3 DEF CpOrdered
      <4> QED BY <2>2, <3>1, <3>3, <4>1, <4>2 DEF CpRunningListed
    <3>4. CASE CpTells(cpList) /\ \A k \in cpNewer : CpTells(cpReq[k].list)
      BY <1>1, <2>1, <2>2, <2>3, <3>4 DEF CpRunningListed
    <3> QED BY <1>12, <3>2, <3>3, <3>4 DEF CpListed, CpRunningListed
  <2> QED BY <2>4, <2>5
<1>13. CpEnded' BY <1>1 DEF CpEnded
<1> QED BY <1>1, <1>6, <1>7, <1>8, <1>9, <1>10, <1>11, <1>12, <1>13 DEF CpListed

\* The list shown is overtaken by none, or it is right and nothing else is on its way.
LEMMA CpLands == ASSUME CpSound, NEW i \in CpSlots, C!ListLands(i) PROVE CpSound'
<1> USE DEF CpSound
<1> DEFINE r == cpReq[i]
<1>1. /\ r.ph = "fetched" /\ cpList' = r.list
      /\ cpLoading' = (cpLoading /\ r.kind # "load")
      /\ cpRefreshing' = (cpRefreshing /\ r.kind = "load")
      /\ C!Cleared(r.kind)
      /\ cpReq' = [cpReq EXCEPT ![i] = C!Free]
      /\ cpNewer' = cpNewer \ (cpOlder[i] \cup {i}) /\ cpOlder' = C!Without(i)
      /\ cpTrusted' = ((cpTrusted /\ ~(i \notin cpNewer)) \/
                       (r.list = cpServer /\ \A j \in CpSlots \ {i} : cpReq[j] = C!Free))
      /\ UNCHANGED <<cpServer, cpStarted, cpAlone>>
  BY DEF C!ListLands
<1>2. r \in CpRequests BY DEF CpFlight
<1>3. cpTrusted' \in BOOLEAN BY <1>1
<1>4. CpPanel'
  <2>1. cpList' \in C!Lists BY <1>1, <1>2 DEF CpRequests
  <2> QED BY <1>1, <1>3, <2>1, CpClearedTyped DEF CpPanel
<1>5. cpNewer' \subseteq cpNewer \ {i} BY <1>1
<1>6. /\ CpFlight' /\ CpOrdered' /\ CpOneStart' /\ CpAsks'
      /\ cpReq'[i] = C!Free /\ \A j \in CpSlots \ {i} : cpReq'[j] = cpReq[j]
      /\ \A j, k \in CpSlots \ {i} : k \in cpOlder'[j] <=> k \in cpOlder[j]
  BY <1>1, <1>5, CpOver
<1>7. i \in CpFetched /\ cpNewer \subseteq CpFetched /\ CpFetched \subseteq CpSlots
  BY <1>1 DEF CpFetched, CpOrdered
<1>11. CpEnded' BY <1>1 DEF CpEnded
<1>8. CASE r.list = cpServer /\ \A j \in CpSlots \ {i} : cpReq[j] = C!Free
  <2>1. cpNewer' = {} BY <1>5, <1>7, <1>8, CpFree DEF CpFetched
  <2>2. CpTells(cpList)' BY <1>1, <1>8 DEF CpTells
  <2>3. CpSame(cpList)' BY <1>1, <1>8 DEF CpSame, CpEnded
  <2> QED BY <1>1, <1>4, <1>6, <1>8, <1>11, <2>1, <2>2, <2>3
    DEF CpListed, CpLastListTrue, CpRunningListed
<1>9. CASE cpTrusted /\ i \in cpNewer
  <2>1. CpLastListTrue'
    <3>1. CASE \E j \in CpSlots : cpReq[j].ph \in {"acted", "fetching"}
      BY <1>1, <1>6, <3>1 DEF CpLastListTrue
    <3>2. ASSUME NEW w \in cpNewer, CpSame(cpReq[w].list), \A j \in cpNewer \ {w} : j \in cpOlder[w]
          PROVE  CpLastListTrue'
      <4>1. CASE w = i
        <5>1. CpSame(cpList)' BY <1>1, <3>2, <4>1 DEF CpSame
        <5>2. cpNewer' = {} BY <1>1, <3>2, <4>1
        <5> QED BY <5>1, <5>2 DEF CpLastListTrue
      <4>2. CASE w # i
        <5>1. w \notin cpOlder[i] BY <1>7, <1>9, <3>2, <4>2 DEF CpOrdered
        <5>2. w \in cpNewer' /\ CpSame(cpReq[w].list)' BY <1>1, <1>6, <1>7, <3>2, <4>2, <5>1 DEF CpSame
        <5>3. \A j \in cpNewer' \ {w} : j \in cpOlder'[w] BY <1>5, <1>6, <1>7, <3>2, <4>2
        <5> QED BY <5>2, <5>3 DEF CpLastListTrue
      <4> QED BY <4>1, <4>2
    <3> QED BY <1>9, <3>1, <3>2 DEF CpListed, CpLastListTrue
  <2>2. CpRunningListed'
    <3>1. \A j \in CpSlots \ {i} : CpTells(cpReq[j].list)' = CpTells(cpReq[j].list)
      BY <1>1, <1>6 DEF CpTells
    <3>2. CASE CpTells(r.list) /\ \A k \in cpNewer' : CpTells(cpReq[k].list)
      <4>1. CpTells(cpList)' BY <1>1, <3>2 DEF CpTells
      <4> QED BY <1>5, <1>7, <3>1, <3>2, <4>1 DEF CpRunningListed
    <3>3. ASSUME NEW j \in CpStarts({"acted", "fetching"}) PROVE CpRunningListed'
      <4>1. j \in CpStarts({"acted", "fetching"})' BY <1>1, <1>6, <3>3 DEF CpStarts
      <4> QED BY <4>1 DEF CpRunningListed
    <3>4. ASSUME NEW j \in CpStarts({"fetched"}), CpTells(cpReq[j].list),
                 \A k \in cpNewer : j \in cpOlder[k] => CpTells(cpReq[k].list)
          PROVE  CpRunningListed'
      <4>1. CASE j = i
        <5>1. \A k \in cpNewer' : i \in cpOlder[k] BY <1>1, <1>7 DEF CpOrdered
        <5> QED BY <1>5, <3>2, <3>4, <4>1, <5>1
      <4>2. CASE j # i
        <5>1. j \in CpStarts({"fetched"})' /\ j \in CpSlots \ {i} BY <1>6, <3>4, <4>2 DEF CpStarts
        <5>2. \A k \in cpNewer' : j \in cpOlder'[k] => CpTells(cpReq[k].list)'
          BY <1>5, <1>6, <1>7, <3>1, <3>4, <5>1
        <5> QED BY <3>1, <3>4, <5>1, <5>2 DEF CpRunningListed
      <4> QED BY <4>1, <4>2
    <3> QED BY <1>5, <1>9, <3>2, <3>3, <3>4 DEF CpListed, CpRunningListed
  <2> QED BY <1>4, <1>6, <1>11, <2>1, <2>2 DEF CpListed
<1>10. CASE ~cpTrusted' BY <1>4, <1>6, <1>10, <1>11 DEF CpListed
<1> QED BY <1>1, <1>3, <1>8, <1>9, <1>10

LEMMA CpFails == ASSUME CpSound, NEW i \in CpSlots, C!Fails(i) PROVE CpSound'
<1> USE DEF CpSound
<1>1. /\ C!Cleared(cpReq[i].kind) /\ cpReq' = [cpReq EXCEPT ![i] = C!Free]
      /\ cpNewer' = cpNewer \ {i} /\ cpOlder' = C!Without(i) /\ cpTrusted' = FALSE
      /\ cpLoading' \in BOOLEAN /\ cpRefreshing' \in BOOLEAN /\ UNCHANGED <<cpList, cpServer, cpStarted, cpAlone>>
  BY DEF C!Fails
<1>2. CpFlight' /\ CpOrdered' /\ CpOneStart' /\ CpAsks' BY <1>1, CpOver
<1>3. CpPanel' BY <1>1, CpClearedTyped DEF CpPanel
<1>4. CpEnded' BY <1>1 DEF CpEnded
<1> QED BY <1>1, <1>2, <1>3, <1>4 DEF CpListed

-----------------------------------------------------------------------------
\* The steps of the panel of captures.

LEMMA CpStep == CpSound /\ MaxCaptures \in Nat /\ [C!CpNext]_(C!cpVars) => CpSound'
<1> SUFFICES ASSUME CpSound, MaxCaptures \in Nat, [C!CpNext]_(C!cpVars) PROVE CpSound' OBVIOUS
<1>0. CpPanel BY DEF CpSound
<1>1. CASE C!RefreshSessions
  <2>1. /\ C!Send(C!Fetching("refresh")) /\ cpRefreshing' = TRUE
        /\ UNCHANGED <<cpLoading, cpSubmitting, cpDeleting, cpClearing>>
    BY <1>1 DEF C!RefreshSessions
  <2>2. CpEnded' /\ CpFlight' /\ CpOrdered' /\ CpOneStart' /\ CpAsks' /\ CpListed'
    <3>1. /\ C!Fetching("refresh") \in CpRequests
          /\ C!Fetching("refresh").kind = "refresh" /\ C!Fetching("refresh").ph = "fetching"
      BY CpFetchingTyped
    <3> QED BY <2>1, <3>1, CpSendSound
  <2>3. CpPanel' BY <1>0, <2>1, CpSent DEF CpPanel, CpSound
  <2> QED BY <2>2, <2>3 DEF CpSound
<1>2. ASSUME NEW kind \in {"start", "stop", "delete", "clear"}, NEW id \in C!Captures \cup {C!NoCapture},
             C!Send(C!Asked(kind, id)), kind = "start" => ~cpSubmitting /\ cpSubmitting',
             kind # "start" => cpSubmitting' = cpSubmitting,
             cpSubmitting' \in BOOLEAN, cpDeleting' \in C!Captures \cup {C!NoCapture},
             cpClearing' \in BOOLEAN, UNCHANGED <<cpLoading, cpRefreshing>>
      PROVE  CpSound'
  <2>1. /\ C!Asked(kind, id) \in CpRequests
        /\ C!Asked(kind, id).kind = kind /\ C!Asked(kind, id).ph = "sent"
    BY <1>0, <1>2, CpAskedTyped
  <2>2. CpEnded' /\ CpFlight' /\ CpOrdered' /\ CpOneStart' /\ CpAsks' /\ CpListed'
    BY <1>2, <2>1, CpSendSound
  <2>3. UNCHANGED <<cpList, cpServer, cpStarted, cpAlone, cpTrusted>> BY <1>2, CpSent DEF CpSound
  <2>4. CpPanel' BY <1>0, <1>2, <2>3 DEF CpPanel
  <2> QED BY <2>2, <2>4 DEF CpSound
<1>3. CASE C!StartCapture
  <2>1. ~cpSubmitting BY <1>3 DEF C!StartCapture, C!StartOffered
  <2> QED BY <1>0, <1>2, <1>3, <2>1 DEF C!StartCapture, CpPanel
<1>4. CASE C!DeleteAll BY <1>0, <1>2, <1>4 DEF C!DeleteAll, CpPanel
<1>5. ASSUME NEW c \in C!Captures, C!StopCapture(c) \/ C!DeleteCapture(c) PROVE CpSound'
  BY <1>0, <1>2, <1>5 DEF C!StopCapture, C!DeleteCapture, C!flags, CpPanel
<1>6. ASSUME NEW i \in CpSlots,
             C!Act(i) \/ C!Acted(i) \/ C!ServeList(i) \/ C!ListLands(i) \/ C!Fails(i)
      PROVE  CpSound'
  BY <1>6, CpActs, CpActed, CpServes, CpLands, CpFails
<1>7. CASE UNCHANGED C!cpVars
  BY <1>7 DEF C!cpVars, CpSound, CpPanel, CpEnded, CpFlight, CpOrdered, CpFetched, CpOneStart, CpAsks,
              CpListed, CpLastListTrue, CpRunningListed, CpStarts, CpTells, CpSame
<1>8. ASSUME NEW c \in C!Captures, C!EndAlone(c) PROVE CpSound' BY <1>8, CpEnds
<1>9. CASE C!OtherActs BY <1>9, CpOthers
<1> QED BY <1>1, <1>3, <1>4, <1>5, <1>6, <1>7, <1>8, <1>9 DEF C!CpNext

LEMMA CpBegins == MaxCaptures \in Nat \ {0} /\ C!CpInit => CpSound
<1> SUFFICES ASSUME MaxCaptures \in Nat \ {0}, C!CpInit PROVE CpSound OBVIOUS
<1>1. \A i \in CpSlots : cpReq[i] \in {C!Free, C!Fetching("load")} BY DEF C!CpInit
<1>2. \A i \in CpSlots : /\ cpReq[i] \in CpRequests /\ cpReq[i].kind \in {"none", "load"}
                         /\ cpReq[i].ph \in {"none", "fetching"}
  BY <1>1, CpFree, CpFetchingTyped
<1>3. CpFlight BY <1>2 DEF C!CpInit, CpFlight
<1>4. cpServer \in C!Lists /\ cpStarted \in 0..MaxCaptures
  BY CpFree DEF C!CpInit, C!Lists, C!Captures
<1>5. CpPanel BY <1>4, CpFree DEF C!CpInit, CpPanel
<1>6. CpOrdered BY <1>2 DEF C!CpInit, CpOrdered, CpFetched
<1>7. CpOneStart /\ CpAsks BY <1>2 DEF CpOneStart, CpAsks
<1>8. CpListed
  <2>1. cpTrusted => cpList = cpServer /\ cpAlone = {} /\ cpNewer = {} BY CpFree DEF C!CpInit
  <2> QED BY <2>1 DEF CpListed, CpLastListTrue, CpRunningListed, CpTells, CpSame
<1>9. CpEnded
  <2>1. cpAlone = {} BY DEF C!CpInit
  <2>2. cpServer.ids = {} \/ (cpServer.ids = {1} /\ cpStarted = 1)
    <3>1. CASE cpServer = C!NoList BY <3>1 DEF C!NoList
    <3>2. CASE cpServer # C!NoList BY <3>2 DEF C!CpInit
    <3> QED BY <3>1, <3>2
  <2> QED BY <2>1, <2>2 DEF CpEnded
<1> QED BY <1>3, <1>5, <1>6, <1>7, <1>8, <1>9 DEF CpSound

LEMMA CpShows == CpSound => C!CapturesListed
<1> SUFFICES ASSUME CpSound, C!Quiet, cpTrusted PROVE CpSame(cpList) BY DEF C!CapturesListed, CpSame
<1>1. \A i \in CpSlots : cpReq[i].ph = "none" BY CpFree DEF C!Quiet
<1>2. cpNewer = {} BY <1>1 DEF CpSound, CpOrdered, CpFetched
<1> QED BY <1>1, <1>2 DEF CpSound, CpListed, CpLastListTrue

\* A start is offered only when none is in flight and nothing runs in the list, which then
\* tells all that runs.
LEMMA CpOffers ==
  ASSUME CpSound, [C!CpNext]_(C!cpVars), NEW i \in CpSlots, cpReq[i] = C!Free,
         cpReq'[i].kind = "start", cpTrusted
  PROVE  cpServer.running = {}
<1>1. CASE C!StartCapture
  <2>1. \A j \in CpSlots : cpReq[j].kind # "start"
    BY <1>1 DEF C!StartCapture, C!StartOffered, CpSound, CpOneStart
  <2>2. CpTells(cpList) BY <2>1 DEF CpSound, CpListed, CpRunningListed, CpStarts
  <2> QED BY <1>1, <2>2 DEF C!StartCapture, C!StartOffered, CpTells
<1>2. cpReq[i].kind = "none" /\ cpReq[i].ph = "none" BY CpFree
<1>3. ASSUME NEW r, r.kind # "start", C!Send(r) PROVE FALSE
  <2>1. PICK j \in CpSlots : cpReq[j] = C!Free /\ cpReq' = [cpReq EXCEPT ![j] = r]
    BY <1>3, CpSent DEF CpSound
  <2>2. cpReq'[i] \in {r, cpReq[i]} BY <2>1 DEF CpSound, CpFlight
  <2> QED BY <1>2, <1>3, <2>2
<1>4. ASSUME NEW j \in CpSlots, cpReq[j].ph # "none", NEW q, cpReq' = [cpReq EXCEPT ![j] = q]
      PROVE  FALSE
  BY <1>2, <1>4 DEF CpSound, CpFlight
<1>5. ~C!RefreshSessions BY <1>3, CpFetchingTyped DEF C!RefreshSessions
<1>6. \A k \in {"stop", "delete", "clear"}, id \in C!Captures \cup {C!NoCapture} : ~C!Send(C!Asked(k, id))
  BY <1>3, CpAskedTyped DEF CpSound
<1>7. ~C!DeleteAll /\ \A c \in C!Captures : ~C!StopCapture(c) /\ ~C!DeleteCapture(c)
  <2>1. ~C!DeleteAll
    <3>1. ~C!Send(C!Asked("clear", C!NoCapture)) BY <1>6
    <3> QED BY <3>1 DEF C!DeleteAll
  <2>2. ASSUME NEW c \in C!Captures PROVE ~C!StopCapture(c) /\ ~C!DeleteCapture(c)
    <3>1. ~C!Send(C!Asked("stop", c)) /\ ~C!Send(C!Asked("delete", c)) BY <1>6
    <3> QED BY <3>1 DEF C!StopCapture, C!DeleteCapture
  <2> QED BY <2>1, <2>2
<1>8. \A j \in CpSlots : ~C!Act(j) /\ ~C!Acted(j) /\ ~C!ServeList(j) /\ ~C!ListLands(j)
  <2> SUFFICES ASSUME NEW j \in CpSlots
               PROVE ~C!Act(j) /\ ~C!Acted(j) /\ ~C!ServeList(j) /\ ~C!ListLands(j)
    OBVIOUS
  <2>1. ~C!Act(j)
    <3>1. C!Act(j) => /\ cpReq[j].ph # "none"
                      /\ cpReq' = [cpReq EXCEPT ![j] = [cpReq[j] EXCEPT !.ph = "acted", !.id = C!NoCapture]]
      BY DEF C!Act
    <3> QED BY <1>4, <3>1
  <2>2. ~C!Acted(j)
    <3>1. C!Acted(j) => /\ cpReq[j].ph # "none"
                        /\ \/ cpReq' = [cpReq EXCEPT ![j] = C!Free]
                           \/ cpReq' = [cpReq EXCEPT ![j] = C!Fetching(cpReq[j].kind)]
      BY DEF C!Acted
    <3> QED BY <1>4, <3>1
  <2>3. ~C!ServeList(j)
    <3>1. C!ServeList(j) => /\ cpReq[j].ph # "none"
                            /\ cpReq' = [cpReq EXCEPT ![j] = [cpReq[j] EXCEPT !.ph = "fetched", !.list = cpServer]]
      BY DEF C!ServeList
    <3> QED BY <1>4, <3>1
  <2>4. ~C!ListLands(j)
    <3>1. C!ListLands(j) => cpReq[j].ph # "none" /\ cpReq' = [cpReq EXCEPT ![j] = C!Free]
      BY DEF C!ListLands
    <3> QED BY <1>4, <3>1
  <2> QED BY <2>1, <2>2, <2>3, <2>4
<1>9. \A j \in CpSlots : ~C!Fails(j)
  <2> SUFFICES ASSUME NEW j \in CpSlots, C!Fails(j) PROVE FALSE OBVIOUS
  <2>1. j # i /\ cpReq' = [cpReq EXCEPT ![j] = C!Free] BY DEF C!Fails
  <2> QED BY <1>2, <2>1 DEF CpSound, CpFlight
<1>10. ~UNCHANGED C!cpVars BY <1>2 DEF C!cpVars
<1>11. ~C!OtherActs /\ \A c \in C!Captures : ~C!EndAlone(c)
  <2>1. C!OtherActs => cpReq' = cpReq BY DEF C!OtherActs
  <2>2. \A c \in C!Captures : C!EndAlone(c) => cpReq' = cpReq BY DEF C!EndAlone
  <2> QED BY <1>2, <2>1, <2>2
<1> QED BY <1>1, <1>5, <1>7, <1>8, <1>9, <1>10, <1>11 DEF C!CpNext

-----------------------------------------------------------------------------
(* The virtual nodes: the key on display is the one the server holds.      *)

VnRequests == [kind : V!Kinds \cup {"none"}, ph : {"sent", "acted", "fetching", "fetched", "none"},
               node : VnNodes \cup {V!None}, id : VnNodes \cup {V!None},
               regen : BOOLEAN, key : 0..MaxKeys, list : SUBSET VnNodes]
VnForms == [open : BOOLEAN, editing : VnNodes \cup {V!None}, id : VnNodes \cup {V!None},
            regen : BOOLEAN, loose : BOOLEAN]
VnSecrets == [node : VnNodes \cup {V!None}, key : 0..MaxKeys]

VnPanel ==
  /\ vnList \subseteq VnNodes /\ vnListing \in BOOLEAN /\ vnOptions \in BOOLEAN
  /\ vnConfirm \in VnNodes \cup {V!None} /\ vnRotating \in VnNodes \cup {V!None}
  /\ vnDeleting \in VnNodes \cup {V!None} /\ vnShown \in VnSecrets
VnFormTyped == vnForm \in VnForms /\ vnSaving \in BOOLEAN /\ vnPrefilling \in BOOLEAN
VnServer ==
  vnReq \in [VnSlots -> VnRequests] /\ vnKeys \in [VnNodes -> 0..MaxKeys] /\ vnMixed \in BOOLEAN

LEMMA VnTypesSplit == V!VnTypeOK <=> VnPanel /\ VnFormTyped /\ VnServer
BY DEF V!VnTypeOK, VnPanel, VnFormTyped, VnServer, VnRequests, VnForms, VnSecrets

Changes == {"save", "rotate", "delete"}
Reading == {"fetching", "fetched"}

\* A list is on its way at once, and a rotation that was answered forgets its node.
VnPhases ==
  \A i \in VnSlots :
    /\ vnReq[i].kind = "list" => vnReq[i].ph \in Reading
    /\ vnReq[i].kind = "none" => vnReq[i].ph = "none"
    /\ vnReq[i].kind = "rotate" /\ vnReq[i].ph \in Reading => vnReq[i].node = V!None

\* A key to show is the server's, of a node there is.
VnLatest(s) == s.node \in VnNodes /\ s.key = vnKeys[s.node]

\* Unless two changes were mixed one is under way at a time,
VnOneChange ==
  \A i, j \in VnSlots : vnReq[i].kind \in Changes /\ vnReq[j].kind \in Changes => i = j

\* a rotation keeps its node marked until it was answered,
VnMarked ==
  \A i \in VnSlots : vnReq[i].kind = "rotate" /\ vnReq[i].ph \notin Reading =>
    /\ vnReq[i].node \in VnNodes \ {V!None} /\ vnRotating = vnReq[i].node /\ vnReq[i].id = V!None
    /\ vnReq[i].ph = "sent" => vnReq[i].regen
    /\ vnReq[i].ph # "sent" => VnLatest(vnReq[i])

\* a save that was done brings the latest key, if any,
VnSaved ==
  \A i \in VnSlots : vnReq[i].kind = "save" /\ vnReq[i].ph # "sent" /\ vnReq[i].key > 0 => VnLatest(vnReq[i])

\* and so does what is shown, while the server is asked for no change.
VnDisplayed ==
  vnShown # V!NoSecrets => /\ VnLatest(vnShown)
                           /\ \A i \in VnSlots : vnReq[i].kind \in Changes => vnReq[i].ph # "sent"

VnUnmixed == ~vnMixed => VnOneChange /\ VnMarked /\ VnSaved /\ VnDisplayed

VnIdentity ==
  vnForm.editing # V!None /\ ~vnForm.loose =>
    /\ vnForm.id = vnForm.editing
    /\ \A i \in VnSlots : vnReq[i].kind # "prefill"

VnSound == VnPanel /\ VnFormTyped /\ VnServer /\ VnPhases /\ VnUnmixed /\ VnIdentity

LEMMA VnEmpty ==
  /\ V!NoRequest.kind = "none" /\ V!NoRequest.ph = "none" /\ V!NoRequest.node = V!None
  /\ V!EmptyForm \in VnForms /\ V!EmptyForm.editing = V!None
BY DEF V!NoRequest, V!EmptyForm, VnForms

LEMMA VnNoneTyped == MaxKeys \in Nat => V!NoRequest \in VnRequests /\ V!NoSecrets \in VnSecrets
BY DEF V!NoRequest, V!NoSecrets, VnRequests, VnSecrets, V!Kinds

LEMMA VnAskedTyped ==
  ASSUME MaxKeys \in Nat, NEW kind \in V!Kinds, NEW node \in VnNodes \cup {V!None},
         NEW id \in VnNodes \cup {V!None}, NEW regen \in BOOLEAN
  PROVE  /\ V!Asked(kind, node, id, regen) \in VnRequests
         /\ V!Asked(kind, node, id, regen).kind = kind /\ V!Asked(kind, node, id, regen).ph = "sent"
         /\ V!Asked(kind, node, id, regen).node = node /\ V!Asked(kind, node, id, regen).id = id
         /\ V!Asked(kind, node, id, regen).regen = regen
BY DEF V!Asked, VnRequests, V!Kinds

LEMMA VnKinds == {"list", "prefill", "save", "rotate", "delete"} \subseteq V!Kinds /\ V!None \in VnNodes \cup {V!None}
BY DEF V!Kinds

\* A list on its way: all that is kept of its request is the key of a save.
LEMMA VnFetchingTyped ==
  ASSUME MaxKeys \in Nat, NEW r \in VnRequests
  PROVE  /\ V!Fetching(r) \in VnRequests
         /\ V!Fetching(r).kind = r.kind /\ V!Fetching(r).ph = "fetching"
         /\ r.kind # "save" => V!Fetching(r).node = V!None
         /\ r.kind = "save" /\ V!Fetching(r).key > 0 =>
              V!Fetching(r).key = r.key /\ V!Fetching(r).node = r.node
<1>1. CASE r.kind = "save" /\ r.key > 0
  <2>1. V!Fetching(r) = [r EXCEPT !.ph = "fetching"] BY <1>1 DEF V!Fetching
  <2> QED BY <1>1, <2>1 DEF VnRequests
<1>2. CASE ~(r.kind = "save" /\ r.key > 0)
  <2>1. V!Fetching(r) = [kind |-> r.kind, ph |-> "fetching", node |-> V!None, id |-> V!None,
                         regen |-> FALSE, key |-> 0, list |-> {}]
    BY <1>2 DEF V!Fetching, V!NoRequest
  <2> QED BY <2>1 DEF VnRequests
<1> QED BY <1>1, <1>2

\* A request takes a free slot; a change is alone, or it is one more rotation of a node, or
\* from now on changes are mixed.
LEMMA VnSent ==
  ASSUME VnServer, VnPhases, NEW r \in VnRequests, V!Send(r)
  PROVE  /\ VnServer' /\ UNCHANGED vnKeys
         /\ \E i \in VnSlots : /\ vnReq[i].kind = "none" /\ vnReq'[i] = r
                               /\ \A j \in VnSlots \ {i} : vnReq'[j] = vnReq[j]
         /\ vnMixed => vnMixed'
         /\ r.kind \in Changes /\ ~vnMixed' =>
              \A j \in VnSlots : vnReq[j].kind \in Changes =>
                r.kind = "rotate" /\ vnReq[j].kind = "rotate" /\ r.node = vnReq[j].node
<1> DEFINE i == CHOOSE j \in VnSlots : vnReq[j] = V!NoRequest
<1>1. /\ vnReq' = [vnReq EXCEPT ![i] = r] /\ \E j \in VnSlots : vnReq[j] = V!NoRequest
      /\ vnMixed' = (vnMixed \/ \E j \in VnSlots :
           /\ {r.kind, vnReq[j].kind} \subseteq {"save", "rotate", "delete"}
           /\ ~(r.kind = "rotate" /\ vnReq[j].kind = "rotate" /\ r.node = vnReq[j].node))
      /\ UNCHANGED vnKeys
  BY DEF V!Send
<1>2. i \in VnSlots /\ vnReq[i] = V!NoRequest BY <1>1
<1> HIDE DEF i
<1>3. vnReq' \in [VnSlots -> VnRequests] BY <1>1, <1>2 DEF VnServer
<1>4. vnMixed' \in BOOLEAN BY <1>1
<1>5. VnServer' BY <1>1, <1>3, <1>4 DEF VnServer
<1>6. vnReq'[i] = r /\ \A j \in VnSlots \ {i} : vnReq'[j] = vnReq[j] BY <1>1, <1>2 DEF VnServer
<1>7. ASSUME ~vnMixed', r.kind \in Changes, NEW j \in VnSlots, vnReq[j].kind \in Changes
      PROVE  r.kind = "rotate" /\ vnReq[j].kind = "rotate" /\ r.node = vnReq[j].node
  BY <1>1, <1>7 DEF Changes
<1>8. vnMixed => vnMixed' BY <1>1
<1>9. UNCHANGED vnKeys BY <1>1
<1>10. \E k \in VnSlots : /\ vnReq[k].kind = "none" /\ vnReq'[k] = r
                          /\ \A j \in VnSlots \ {k} : vnReq'[j] = vnReq[j]
  BY <1>2, <1>6, VnEmpty
<1> QED BY <1>5, <1>7, <1>8, <1>9, <1>10

\* Something asked for that is no change of a node.
LEMMA VnReadSent ==
  ASSUME VnSound, NEW r \in VnRequests, V!Send(r), r.kind \in {"list", "prefill"},
         r.kind = "list" => r.ph \in Reading, UNCHANGED <<vnRotating, vnShown>>
  PROVE  VnServer' /\ VnPhases' /\ VnUnmixed'
<1> USE DEF VnSound
<1>1. PICK i \in VnSlots : /\ vnReq[i].kind = "none" /\ vnReq'[i] = r
                           /\ \A j \in VnSlots \ {i} : vnReq'[j] = vnReq[j]
  BY VnSent
<1>2. VnServer' /\ UNCHANGED vnKeys /\ (vnMixed => vnMixed') BY VnSent
<1>3. VnPhases' BY <1>1 DEF VnPhases
<1>4. \A j \in VnSlots : vnReq'[j].kind \in Changes => vnReq'[j] = vnReq[j] /\ j # i
  BY <1>1 DEF Changes
<1>5. VnUnmixed'
  <2> SUFFICES ASSUME ~vnMixed' PROVE (VnOneChange /\ VnMarked /\ VnSaved /\ VnDisplayed)'
    BY DEF VnUnmixed
  <2>1. VnOneChange /\ VnMarked /\ VnSaved /\ VnDisplayed BY <1>2 DEF VnUnmixed
  <2>2. VnOneChange' BY <1>4, <2>1 DEF VnOneChange
  <2>3. VnMarked' BY <1>2, <1>4, <2>1 DEF VnMarked, VnLatest, Changes
  <2>4. VnSaved' BY <1>2, <1>4, <2>1 DEF VnSaved, VnLatest, Changes
  <2>5. VnDisplayed' BY <1>2, <1>4, <2>1 DEF VnDisplayed, VnLatest
  <2> QED BY <2>2, <2>3, <2>4, <2>5
<1> QED BY <1>2, <1>3, <1>5

\* A change asked for, with no key on display.
LEMMA VnChangeSent ==
  ASSUME VnSound, NEW r \in VnRequests, V!Send(r), r.kind \in Changes, r.ph = "sent",
         vnShown = V!NoSecrets, UNCHANGED vnShown,
         IF r.kind = "rotate"
           THEN /\ vnRotating # r.node /\ vnRotating' = r.node /\ r.node \in VnNodes \ {V!None}
                /\ r.id = V!None /\ r.regen
           ELSE UNCHANGED vnRotating
  PROVE  /\ VnServer' /\ VnPhases' /\ VnUnmixed'
         /\ (\A i \in VnSlots : vnReq[i].kind # "prefill") => \A i \in VnSlots : vnReq'[i].kind # "prefill"
<1> USE DEF VnSound
<1>1. PICK i \in VnSlots : /\ vnReq[i].kind = "none" /\ vnReq'[i] = r
                           /\ \A j \in VnSlots \ {i} : vnReq'[j] = vnReq[j]
  BY VnSent
<1>2. VnServer' /\ UNCHANGED vnKeys /\ (vnMixed => vnMixed') BY VnSent
<1>3. VnPhases' BY <1>1 DEF VnPhases, Changes, Reading
<1>4. VnUnmixed'
  <2> SUFFICES ASSUME ~vnMixed' PROVE (VnOneChange /\ VnMarked /\ VnSaved /\ VnDisplayed)'
    BY DEF VnUnmixed
  <2>1. VnOneChange /\ VnMarked /\ VnSaved BY <1>2 DEF VnUnmixed
  <2>2. \A j \in VnSlots : vnReq[j].kind \in Changes =>
          r.kind = "rotate" /\ vnReq[j].kind = "rotate" /\ r.node = vnReq[j].node
    BY VnSent
  <2>3. \A j \in VnSlots \ {i} : vnReq'[j].kind \notin Changes
    <3> SUFFICES ASSUME NEW j \in VnSlots, vnReq[j].kind \in Changes PROVE FALSE BY <1>1
    <3>1. r.kind = "rotate" /\ vnReq[j].kind = "rotate" /\ r.node = vnReq[j].node BY <2>2
    <3>2. CASE vnReq[j].ph \in Reading BY <3>1, <3>2 DEF VnPhases
    <3>3. CASE vnReq[j].ph \notin Reading BY <2>1, <3>1, <3>3 DEF VnMarked
    <3> QED BY <3>2, <3>3
  <2>4. VnOneChange' BY <2>3 DEF VnOneChange
  <2>5. VnMarked' BY <1>1, <2>3 DEF VnMarked, Changes
  <2>6. VnSaved' BY <1>1, <2>3 DEF VnSaved, Changes
  <2>7. VnDisplayed' BY DEF VnDisplayed
  <2> QED BY <2>4, <2>5, <2>6, <2>7
<1>5. r.kind # "prefill" BY DEF Changes
<1> QED BY <1>1, <1>2, <1>3, <1>4, <1>5

\* Another state of the request in a slot, with the server's nodes as they are.
LEMMA VnReplaced ==
  ASSUME VnSound, NEW i \in VnSlots, NEW r \in VnRequests, vnReq' = [vnReq EXCEPT ![i] = r],
         UNCHANGED <<vnKeys, vnMixed>>, r.kind \in {vnReq[i].kind, "none"},
         r.kind = "none" => r.ph = "none", r.kind = "list" => r.ph \in Reading,
         r.kind = "rotate" /\ r.ph \in Reading => r.node = V!None,
         r.kind \in Changes => r.ph \in Reading,
         r.kind = "save" /\ r.key > 0 /\ ~vnMixed => VnLatest(r),
         vnReq[i].kind # "rotate" => UNCHANGED vnRotating,
         ~vnMixed /\ vnShown' # vnShown /\ vnShown' # V!NoSecrets =>
           VnLatest(vnShown') /\ vnReq[i].kind \in Changes
  PROVE  /\ VnServer' /\ VnPhases' /\ VnUnmixed'
         /\ \A j \in VnSlots : vnReq'[j].kind = "prefill" => vnReq[j].kind = "prefill"
<1> USE DEF VnSound
<1>1. vnReq'[i] = r /\ \A j \in VnSlots \ {i} : vnReq'[j] = vnReq[j] BY DEF VnServer
<1>2. VnServer' BY DEF VnServer
<1>3. VnPhases' BY <1>1 DEF VnPhases
<1>4. VnUnmixed'
  <2> SUFFICES ASSUME ~vnMixed' PROVE (VnOneChange /\ VnMarked /\ VnSaved /\ VnDisplayed)'
    BY DEF VnUnmixed
  <2>1. VnOneChange /\ VnMarked /\ VnSaved /\ VnDisplayed /\ ~vnMixed BY DEF VnUnmixed
  <2>2. \A j \in VnSlots : vnReq'[j].kind \in Changes => vnReq[j].kind \in Changes
    BY <1>1 DEF Changes
  <2>3. VnOneChange' BY <2>1, <2>2 DEF VnOneChange
  <2>4. VnMarked'
    <3> SUFFICES ASSUME NEW j \in VnSlots, vnReq'[j].kind = "rotate", vnReq'[j].ph \notin Reading
                 PROVE  /\ vnReq'[j].node \in VnNodes \ {V!None} /\ vnRotating' = vnReq'[j].node
                        /\ vnReq'[j].id = V!None
                        /\ vnReq'[j].ph = "sent" => vnReq'[j].regen
                        /\ vnReq'[j].ph # "sent" => VnLatest(vnReq[j])'
      BY DEF VnMarked, VnLatest
    <3>1. j # i BY <1>1 DEF Changes
    <3>2. vnReq'[j] = vnReq[j] BY <1>1, <3>1
    <3>3. vnReq[i].kind # "rotate" BY <2>1, <3>1, <3>2 DEF VnOneChange, Changes
    <3> QED BY <2>1, <3>2, <3>3 DEF VnMarked, VnLatest
  <2>5. VnSaved' BY <1>1, <2>1 DEF VnSaved, VnLatest
  <2>6. VnDisplayed'
    <3> SUFFICES ASSUME vnShown' # V!NoSecrets
                 PROVE  /\ VnLatest(vnShown')
                        /\ \A j \in VnSlots : vnReq'[j].kind \in Changes => vnReq'[j].ph # "sent"
      BY DEF VnDisplayed, VnLatest
    <3>1. CASE vnShown' = vnShown BY <1>1, <2>1, <3>1 DEF VnDisplayed, Changes, Reading
    <3>2. CASE vnShown' # vnShown
      <4>1. VnLatest(vnShown') /\ vnReq[i].kind \in Changes BY <2>1, <3>2
      <4>2. \A j \in VnSlots : vnReq'[j].kind \in Changes => j = i
        BY <1>1, <2>1, <4>1 DEF VnOneChange
      <4> QED BY <1>1, <4>1, <4>2 DEF Reading
    <3> QED BY <3>1, <3>2
  <2> QED BY <2>3, <2>4, <2>5, <2>6
<1>5. \A j \in VnSlots : vnReq'[j].kind = "prefill" => vnReq[j].kind = "prefill" BY <1>1
<1> QED BY <1>2, <1>3, <1>4, <1>5

LEMMA VnActs ==
  ASSUME VnSound, MaxKeys \in Nat, NEW i \in VnSlots, V!Act(i)
  PROVE  VnSound'
<1> USE DEF VnSound
<1> DEFINE r == vnReq[i]
           Key == IF r.kind = "delete" THEN 0
                  ELSE (IF r.node = V!None THEN 0 ELSE vnKeys[r.node])
                       + IF r.regen \/ r.node = V!None THEN 1 ELSE 0
           Done(id) == [r EXCEPT !.ph = "acted", !.id = V!None, !.regen = FALSE,
                                 !.node = IF r.regen THEN id ELSE V!None,
                                 !.key = IF r.regen THEN Key ELSE 0]
<1>1. /\ r.ph = "sent" /\ r.kind # "prefill"
      /\ r.node # V!None => r.node \in VnNodes
      /\ UNCHANGED <<V!panel, V!form, vnMixed>>
  BY DEF V!Act, V!Live
<1>2. PICK id \in IF r.id # V!None THEN {r.id} ELSE IF r.node # V!None THEN {r.node} ELSE VnNodes \ V!Live :
        /\ Key <= MaxKeys
        /\ vnKeys' = [n \in VnNodes |-> IF n = id THEN Key ELSE IF n = r.node THEN 0 ELSE vnKeys[n]]
        /\ vnReq' = [vnReq EXCEPT ![i].ph = "acted", ![i].id = V!None, ![i].regen = FALSE,
                                  ![i].node = IF r.regen THEN id ELSE V!None,
                                  ![i].key = IF r.regen THEN Key ELSE 0]
  BY DEF V!Act
<1>3. r \in VnRequests BY DEF VnServer
<1>4. id \in VnNodes BY <1>1, <1>2, <1>3 DEF VnRequests
<1>5. Key \in 0..MaxKeys
  <2>1. r.node # V!None => vnKeys[r.node] \in 0..MaxKeys BY <1>1 DEF VnServer
  <2>2. Key \in Nat BY <2>1
  <2> QED BY <1>2, <2>2
<1>6. vnReq' = [vnReq EXCEPT ![i] = Done(id)] BY <1>2, <1>3 DEF VnServer, VnRequests
<1>7. Done(id) \in VnRequests
  <2> DEFINE node == IF r.regen THEN id ELSE V!None
             key == IF r.regen THEN Key ELSE 0
  <2>1. node \in VnNodes \cup {V!None} /\ key \in 0..MaxKeys BY <1>4, <1>5
  <2>2. Done(id) = [r EXCEPT !.ph = "acted", !.id = V!None, !.regen = FALSE, !.node = node, !.key = key]
    OBVIOUS
  <2> HIDE DEF node, key, r
  <2> QED BY <1>3, <2>1, <2>2 DEF VnRequests
<1>8. /\ Done(id).kind = r.kind /\ Done(id).ph = "acted" /\ Done(id).id = V!None
      /\ r.regen => Done(id).node = id /\ Done(id).key = Key
      /\ ~r.regen => Done(id).key = 0
  BY <1>3 DEF VnRequests
<1>9. vnKeys' \in [VnNodes -> 0..MaxKeys] /\ vnKeys'[id] = Key
  BY <1>2, <1>4, <1>5 DEF VnServer
<1>10. vnReq'[i] = Done(id) /\ \A j \in VnSlots \ {i} : vnReq'[j] = vnReq[j] BY <1>6 DEF VnServer
<1> HIDE DEF r, Key, Done
<1>11. VnServer' BY <1>1, <1>6, <1>7, <1>9 DEF VnServer
<1>12. VnPanel' /\ VnFormTyped' BY <1>1 DEF VnPanel, VnFormTyped, V!panel, V!form
<1>13. r.kind \in Changes
  <2>1. r.kind \in V!Kinds \cup {"none"} BY <1>3 DEF VnRequests
  <2>2. r.kind # "list" /\ r.kind # "none" BY <1>1 DEF VnPhases, r, Reading
  <2> QED BY <1>1, <2>1, <2>2 DEF V!Kinds, Changes
<1>14. VnPhases' BY <1>8, <1>10, <1>13 DEF VnPhases, Changes, Reading
<1>15. VnUnmixed'
  <2> SUFFICES ASSUME ~vnMixed' PROVE (VnOneChange /\ VnMarked /\ VnSaved /\ VnDisplayed)'
    BY DEF VnUnmixed
  <2>1. VnOneChange /\ VnMarked /\ VnSaved /\ VnDisplayed BY <1>1 DEF VnUnmixed
  <2>2. \A j \in VnSlots : vnReq'[j].kind \in Changes => j = i
    BY <1>10, <1>13, <2>1 DEF VnOneChange, r
  <2>3. VnOneChange' BY <2>2 DEF VnOneChange
  <2>4. VnMarked'
    <3> SUFFICES ASSUME r.kind = "rotate"
                 PROVE  /\ Done(id).node \in VnNodes \ {V!None} /\ vnRotating = Done(id).node
                        /\ id = Done(id).node /\ Done(id).key = Key
      BY <1>1, <1>4, <1>8, <1>9, <1>10, <2>2 DEF VnMarked, VnLatest, Changes, V!panel
    <3>1. r.node \in VnNodes \ {V!None} /\ vnRotating = r.node /\ r.id = V!None /\ r.regen
      BY <1>1, <2>1 DEF VnMarked, r, Reading
    <3> QED BY <1>2, <1>8, <3>1
  <2>5. VnSaved'
    <3> SUFFICES ASSUME Done(id).key > 0 PROVE Done(id).node = id /\ Done(id).key = Key
      BY <1>4, <1>9, <1>10, <2>2 DEF VnSaved, VnLatest, Changes
    <3> QED BY <1>8
  <2>6. VnDisplayed'
    <3>1. vnShown = V!NoSecrets BY <1>1, <1>13, <2>1 DEF VnDisplayed, r
    <3> QED BY <1>1, <3>1 DEF VnDisplayed, V!panel
  <2> QED BY <2>3, <2>4, <2>5, <2>6
<1>16. VnIdentity' BY <1>1, <1>8, <1>10 DEF VnIdentity, V!form, r
<1> QED BY <1>11, <1>12, <1>14, <1>15, <1>16

LEMMA VnAnswered ==
  ASSUME VnSound, MaxKeys \in Nat, NEW i \in VnSlots, V!Acted(i)
  PROVE  VnSound'
<1> USE DEF VnSound
<1> DEFINE r == vnReq[i]
<1>1. /\ r.ph = "acted" /\ vnListing' = TRUE
      /\ IF r.kind = "rotate" THEN vnShown' = [node |-> r.node, key |-> r.key] ELSE UNCHANGED vnShown
      /\ IF r.kind = "save" THEN vnForm' = V!EmptyForm /\ vnPrefilling' = FALSE
                            ELSE UNCHANGED <<vnForm, vnPrefilling>>
      /\ vnReq' = [vnReq EXCEPT ![i] = V!Fetching(r)]
      /\ UNCHANGED <<vnList, vnOptions, vnConfirm, vnRotating, vnDeleting, vnSaving, vnKeys, vnMixed>>
  BY DEF V!Acted
<1>2. r \in VnRequests BY DEF VnServer
<1>3. /\ V!Fetching(r) \in VnRequests
      /\ V!Fetching(r).kind = r.kind /\ V!Fetching(r).ph = "fetching"
      /\ r.kind # "save" => V!Fetching(r).node = V!None
      /\ r.kind = "save" /\ V!Fetching(r).key > 0 =>
           V!Fetching(r).key = r.key /\ V!Fetching(r).node = r.node
  BY <1>2, VnFetchingTyped
<1>4. r.kind # "none" BY <1>1 DEF VnPhases
<1>5. ~vnMixed /\ r.kind = "save" /\ r.key > 0 => VnLatest(r)
  BY <1>1 DEF VnUnmixed, VnSaved
<1>6. ~vnMixed /\ r.kind = "rotate" => VnLatest(r)
  BY <1>1 DEF VnUnmixed, VnMarked, Reading
<1>7. VnPanel'
  <2>1. [node |-> r.node, key |-> r.key] \in VnSecrets BY <1>2 DEF VnRequests, VnSecrets
  <2>2. vnShown' \in VnSecrets BY <1>1, <2>1 DEF VnPanel
  <2> QED BY <1>1, <2>2 DEF VnPanel
<1>8. VnFormTyped' BY <1>1, VnEmpty DEF VnFormTyped
<1> HIDE DEF r
<1>9. r.kind = "save" /\ V!Fetching(r).key > 0 /\ ~vnMixed => VnLatest(V!Fetching(r))
  BY <1>3, <1>5 DEF VnLatest
<1>10. ~vnMixed /\ vnShown' # vnShown => VnLatest(vnShown') /\ r.kind \in Changes
  BY <1>1, <1>6 DEF VnLatest, Changes
<1>11. /\ VnServer' /\ VnPhases' /\ VnUnmixed'
       /\ \A j \in VnSlots : vnReq'[j].kind = "prefill" => vnReq[j].kind = "prefill"
  <2>1. vnReq[i] = r BY DEF r
  <2> QED BY <1>1, <1>3, <1>4, <1>9, <1>10, <2>1, VnReplaced DEF Reading
<1>12. VnIdentity' BY <1>1, <1>11, VnEmpty DEF VnIdentity
<1> QED BY <1>7, <1>8, <1>11, <1>12

LEMMA VnFinishedTyped ==
  ASSUME VnPanel, VnFormTyped, NEW kind, V!Finished(kind)
  PROVE  /\ vnRotating' \in VnNodes \cup {V!None} /\ vnDeleting' \in VnNodes \cup {V!None}
         /\ vnSaving' \in BOOLEAN
         /\ kind # "rotate" => UNCHANGED vnRotating
<1>1. V!None \in VnNodes \cup {V!None} OBVIOUS
<1>2. vnRotating' \in VnNodes \cup {V!None} /\ (kind # "rotate" => UNCHANGED vnRotating)
  BY <1>1 DEF V!Finished, VnPanel
<1>3. vnDeleting' \in VnNodes \cup {V!None} BY <1>1 DEF V!Finished, VnPanel
<1>4. vnSaving' \in BOOLEAN BY DEF V!Finished, VnFormTyped
<1> QED BY <1>2, <1>3, <1>4

LEMMA VnServed ==
  ASSUME VnSound, MaxKeys \in Nat, NEW i \in VnSlots, V!ListServed(i)
  PROVE  VnSound'
<1> USE DEF VnSound
<1> DEFINE r == vnReq[i]
           s == [r EXCEPT !.ph = "fetched", !.list = V!Live]
<1>1. /\ r.ph = "fetching" /\ UNCHANGED <<V!panel, V!form, vnKeys, vnMixed>>
      /\ vnReq' = [vnReq EXCEPT ![i].ph = "fetched", ![i].list = V!Live]
  BY DEF V!ListServed
<1>2. r \in VnRequests BY DEF VnServer
<1>3. vnReq' = [vnReq EXCEPT ![i] = s] BY <1>1, <1>2 DEF VnServer, VnRequests
<1>4. V!Live \in SUBSET VnNodes BY DEF V!Live
<1>5. /\ s \in VnRequests /\ s.kind = r.kind /\ s.ph = "fetched" /\ s.node = r.node /\ s.key = r.key
  BY <1>2, <1>4 DEF VnRequests
<1>6. r.kind # "none" /\ (r.kind = "rotate" => r.node = V!None)
  BY <1>1 DEF VnPhases, Reading
<1>7. ~vnMixed /\ r.kind = "save" /\ r.key > 0 => VnLatest(r)
  BY <1>1 DEF VnUnmixed, VnSaved
<1> HIDE DEF r, s
<1>8. s.kind = "save" /\ s.key > 0 /\ ~vnMixed => VnLatest(s) BY <1>5, <1>7 DEF VnLatest
<1>9. "fetched" \in Reading BY DEF Reading
<1>10. UNCHANGED <<vnRotating, vnShown>> BY <1>1 DEF V!panel
<1>11. /\ VnServer' /\ VnPhases' /\ VnUnmixed'
       /\ \A j \in VnSlots : vnReq'[j].kind = "prefill" => vnReq[j].kind = "prefill"
  <2>1. vnReq[i] = r BY DEF r
  <2>2. s.kind \in {vnReq[i].kind, "none"} /\ s.kind # "none" /\ s.ph \in Reading
    BY <1>5, <1>6, <1>9, <2>1
  <2>3. s.kind = "rotate" /\ s.ph \in Reading => s.node = V!None BY <1>5, <1>6
  <2>4. UNCHANGED <<vnKeys, vnMixed>> BY <1>1
  <2>5. ~vnMixed /\ vnShown' # vnShown /\ vnShown' # V!NoSecrets =>
          VnLatest(vnShown') /\ vnReq[i].kind \in Changes
    BY <1>10
  <2>6. VnSound OBVIOUS
  <2> HIDE DEF VnSound
  <2> QED BY <1>3, <1>5, <1>8, <1>10, <2>2, <2>3, <2>4, <2>5, <2>6, VnReplaced
<1>12. VnPanel' /\ VnFormTyped' BY <1>1 DEF VnPanel, VnFormTyped, V!panel, V!form
<1>13. VnIdentity' BY <1>1, <1>11 DEF VnIdentity, V!form
<1> QED BY <1>11, <1>12, <1>13

LEMMA VnListed ==
  ASSUME VnSound, MaxKeys \in Nat, NEW i \in VnSlots, V!ListLands(i) \/ V!ListFails(i)
  PROVE  VnSound'
<1> USE DEF VnSound
<1> DEFINE r == vnReq[i]
<1>1. /\ r.ph \in Reading /\ vnListing' = FALSE
      /\ vnShown' = IF r.kind = "save" /\ r.key > 0 THEN [node |-> r.node, key |-> r.key] ELSE vnShown
      /\ V!Finished(r.kind)
      /\ vnReq' = [vnReq EXCEPT ![i] = V!NoRequest]
      /\ UNCHANGED <<vnOptions, vnConfirm, vnForm, vnPrefilling, vnKeys, vnMixed>>
  BY DEF V!ListLands, V!ListFails, V!ListOver, Reading
<1>2. r \in VnRequests BY DEF VnServer
<1>3. ~vnMixed /\ r.kind = "save" /\ r.key > 0 => VnLatest(r)
  BY <1>1 DEF VnUnmixed, VnSaved, Reading
<1>4. /\ vnRotating' \in VnNodes \cup {V!None} /\ vnDeleting' \in VnNodes \cup {V!None}
      /\ vnSaving' \in BOOLEAN
      /\ r.kind # "rotate" => UNCHANGED vnRotating
  BY <1>1, VnFinishedTyped
<1>5. VnPanel'
  <2>1. [node |-> r.node, key |-> r.key] \in VnSecrets BY <1>2 DEF VnRequests, VnSecrets
  <2>2. vnShown' \in VnSecrets BY <1>1, <2>1 DEF VnPanel
  <2>3. vnList' \subseteq VnNodes
    <3>1. CASE V!ListLands(i) BY <1>2, <3>1 DEF V!ListLands, VnRequests
    <3>2. CASE V!ListFails(i) BY <3>2 DEF V!ListFails, VnPanel
    <3> QED BY <3>1, <3>2
  <2> QED BY <1>1, <1>4, <2>2, <2>3 DEF VnPanel
<1>6. VnFormTyped' BY <1>1, <1>4 DEF VnFormTyped
<1> HIDE DEF r
<1>7. ~vnMixed /\ vnShown' # vnShown => VnLatest(vnShown') /\ r.kind \in Changes
  BY <1>1, <1>3 DEF VnLatest, Changes
<1>8. /\ VnServer' /\ VnPhases' /\ VnUnmixed'
      /\ \A j \in VnSlots : vnReq'[j].kind = "prefill" => vnReq[j].kind = "prefill"
  <2>1. vnReq[i] = r BY DEF r
  <2>2. V!NoRequest \in VnRequests /\ V!NoRequest.kind = "none" /\ V!NoRequest.ph = "none"
    BY VnNoneTyped, VnEmpty
  <2>3. "none" \notin Changes BY DEF Changes
  <2> QED BY <1>1, <1>4, <1>7, <2>1, <2>2, <2>3, VnReplaced
<1>9. VnIdentity' BY <1>1, <1>8 DEF VnIdentity
<1> QED BY <1>5, <1>6, <1>8, <1>9

LEMMA VnFails ==
  ASSUME VnSound, MaxKeys \in Nat, NEW i \in VnSlots, V!Fails(i)
  PROVE  VnSound'
<1> USE DEF VnSound
<1> DEFINE r == vnReq[i]
<1>1. /\ vnPrefilling' = (vnPrefilling /\ r.kind # "prefill")
      /\ V!Finished(r.kind)
      /\ vnReq' = [vnReq EXCEPT ![i] = V!NoRequest]
      /\ UNCHANGED <<vnList, vnListing, vnOptions, vnConfirm, vnShown, vnForm, vnKeys, vnMixed>>
  BY DEF V!Fails
<1>2. /\ vnRotating' \in VnNodes \cup {V!None} /\ vnDeleting' \in VnNodes \cup {V!None}
      /\ vnSaving' \in BOOLEAN
      /\ r.kind # "rotate" => UNCHANGED vnRotating
  BY <1>1, VnFinishedTyped
<1>3. VnPanel' BY <1>1, <1>2 DEF VnPanel
<1>4. VnFormTyped' BY <1>1, <1>2 DEF VnFormTyped
<1> HIDE DEF r
<1>5. /\ VnServer' /\ VnPhases' /\ VnUnmixed'
      /\ \A j \in VnSlots : vnReq'[j].kind = "prefill" => vnReq[j].kind = "prefill"
  <2>1. vnReq[i] = r BY DEF r
  <2>2. V!NoRequest \in VnRequests /\ V!NoRequest.kind = "none" /\ V!NoRequest.ph = "none"
    BY VnNoneTyped, VnEmpty
  <2>3. "none" \notin Changes BY DEF Changes
  <2> QED BY <1>1, <1>2, <2>1, <2>2, <2>3, VnReplaced
<1>6. VnIdentity' BY <1>1, <1>5 DEF VnIdentity
<1> QED BY <1>3, <1>4, <1>5, <1>6

LEMMA VnPrefilled ==
  ASSUME VnSound, MaxKeys \in Nat, NEW i \in VnSlots, V!PrefillLands(i)
  PROVE  VnSound'
<1> USE DEF VnSound
<1>1. /\ vnReq[i].kind = "prefill" /\ vnPrefilling' = FALSE
      /\ vnReq' = [vnReq EXCEPT ![i] = V!NoRequest]
      /\ UNCHANGED <<V!panel, vnSaving, vnKeys, vnMixed>>
  BY DEF V!PrefillLands
<1>2. PICK id \in VnNodes : vnForm' = [vnForm EXCEPT !.id = id] BY DEF V!PrefillLands
<1>3. VnPanel' BY <1>1 DEF VnPanel, V!panel
<1>4. vnForm' \in VnForms /\ vnForm'.editing = vnForm.editing /\ vnForm'.loose = vnForm.loose
  BY <1>2 DEF VnFormTyped, VnForms
<1>5. VnFormTyped' BY <1>1, <1>4 DEF VnFormTyped
<1>6. /\ VnServer' /\ VnPhases' /\ VnUnmixed'
      /\ \A j \in VnSlots : vnReq'[j].kind = "prefill" => vnReq[j].kind = "prefill"
  <2>1. V!NoRequest \in VnRequests /\ V!NoRequest.kind = "none" /\ V!NoRequest.ph = "none"
    BY VnNoneTyped, VnEmpty
  <2>2. "none" \notin Changes BY DEF Changes
  <2>3. UNCHANGED <<vnRotating, vnShown>> BY <1>1 DEF V!panel
  <2> QED BY <1>1, <2>1, <2>2, <2>3, VnReplaced
<1>7. VnIdentity' BY <1>1, <1>4 DEF VnIdentity
<1> QED BY <1>3, <1>5, <1>6, <1>7

\* A step that asks for nothing and shows no other key.
LEMMA VnQuiet ==
  ASSUME VnSound, UNCHANGED <<vnReq, vnKeys, vnMixed, vnRotating>>,
         vnShown' \in {vnShown, V!NoSecrets}
  PROVE  VnServer' /\ VnPhases' /\ VnUnmixed'
<1> USE DEF VnSound
<1>1. VnServer' BY DEF VnServer
<1>2. VnPhases' BY DEF VnPhases
<1>3. VnUnmixed'
  <2> SUFFICES ASSUME ~vnMixed' PROVE (VnOneChange /\ VnMarked /\ VnSaved /\ VnDisplayed)'
    BY DEF VnUnmixed
  <2>1. VnOneChange /\ VnMarked /\ VnSaved /\ VnDisplayed BY DEF VnUnmixed
  <2>2. VnOneChange' BY <2>1 DEF VnOneChange
  <2>3. VnMarked' BY <2>1 DEF VnMarked, VnLatest
  <2>4. VnSaved' BY <2>1 DEF VnSaved, VnLatest
  <2>5. VnDisplayed' BY <2>1 DEF VnDisplayed, VnLatest
  <2> QED BY <2>2, <2>3, <2>4, <2>5
<1> QED BY <1>1, <1>2, <1>3

\* What is done on the list and its rows, and in the dialogs.
LEMMA VnListStep ==
  ASSUME VnSound, MaxKeys \in Nat,
         \/ V!RefreshNodes \/ V!OptionsArrive \/ V!CancelRotate \/ V!ConfirmRotate \/ V!CloseSecrets
         \/ \E n \in VnNodes : V!AskRotate(n) \/ V!DeleteNode(n)
  PROVE  VnSound'
<1> USE DEF VnSound
<1>1. CASE V!RefreshNodes
  <2> DEFINE r == V!Fetching(V!Asked("list", V!None, V!None, FALSE))
  <2>1. V!Send(r) /\ vnListing' = TRUE
        /\ UNCHANGED <<vnList, vnOptions, vnConfirm, vnRotating, vnDeleting, vnShown, V!form>>
    BY <1>1 DEF V!RefreshNodes
  <2>2. r \in VnRequests /\ r.kind = "list" /\ r.ph = "fetching"
    <3>1. /\ V!Asked("list", V!None, V!None, FALSE) \in VnRequests
          /\ V!Asked("list", V!None, V!None, FALSE).kind = "list"
      BY VnKinds DEF V!Asked, VnRequests
    <3> QED BY <3>1, VnFetchingTyped
  <2> HIDE DEF r
  <2>3. VnServer' /\ VnPhases' /\ VnUnmixed' BY <2>1, <2>2, VnReadSent DEF Reading
  <2>4. VnPanel' /\ VnFormTyped' BY <2>1 DEF VnPanel, VnFormTyped, V!form
  <2>5. VnIdentity'
    <3>1. PICK i \in VnSlots : vnReq'[i] = r /\ \A j \in VnSlots \ {i} : vnReq'[j] = vnReq[j]
      BY <2>1, <2>2, VnSent
    <3> QED BY <2>1, <2>2, <3>1 DEF VnIdentity, V!form
  <2> QED BY <2>3, <2>4, <2>5
<1>2. CASE \/ V!OptionsArrive \/ V!CancelRotate \/ V!CloseSecrets \/ \E n \in VnNodes : V!AskRotate(n)
  <2>1. /\ UNCHANGED <<vnReq, vnKeys, vnMixed, vnRotating, vnDeleting, vnList, vnListing, V!form>>
        /\ vnShown' \in {vnShown, V!NoSecrets} /\ vnOptions' \in {vnOptions, TRUE}
        /\ vnConfirm' \in VnNodes \cup {V!None, vnConfirm}
    BY <1>2 DEF V!OptionsArrive, V!CancelRotate, V!CloseSecrets, V!AskRotate
  <2>2. VnServer' /\ VnPhases' /\ VnUnmixed' BY <2>1, VnQuiet
  <2>3. vnShown' \in VnSecrets BY <2>1, VnNoneTyped DEF VnPanel
  <2>4. VnPanel' /\ VnFormTyped' BY <2>1, <2>3 DEF VnPanel, VnFormTyped, V!form
  <2>5. VnIdentity' BY <2>1 DEF VnIdentity, V!form
  <2> QED BY <2>2, <2>4, <2>5
<1>3. CASE V!ConfirmRotate
  <2> DEFINE r == V!Asked("rotate", vnConfirm, V!None, TRUE)
  <2>1. /\ vnConfirm # V!None /\ vnShown = V!NoSecrets /\ vnRotating # vnConfirm /\ V!Send(r)
        /\ vnRotating' = vnConfirm /\ vnConfirm' = V!None
        /\ UNCHANGED <<vnList, vnListing, vnOptions, vnDeleting, vnShown, V!form>>
    BY <1>3 DEF V!ConfirmRotate
  <2>2. vnConfirm \in VnNodes \ {V!None} BY <2>1 DEF VnPanel
  <2>3. /\ r \in VnRequests /\ r.kind = "rotate" /\ r.ph = "sent" /\ r.node = vnConfirm
        /\ r.id = V!None /\ r.regen
    BY <2>2, VnKinds DEF V!Asked, VnRequests
  <2> HIDE DEF r
  <2>4. /\ VnServer' /\ VnPhases' /\ VnUnmixed'
        /\ (\A i \in VnSlots : vnReq[i].kind # "prefill") => \A i \in VnSlots : vnReq'[i].kind # "prefill"
    <3>1. r.kind \in Changes BY <2>3 DEF Changes
    <3>2. UNCHANGED vnShown BY <2>1
    <3> QED BY <2>1, <2>2, <2>3, <3>1, <3>2, VnChangeSent
  <2>5. VnPanel' /\ VnFormTyped' BY <2>1, <2>2 DEF VnPanel, VnFormTyped, V!form
  <2>6. VnIdentity' BY <2>1, <2>4 DEF VnIdentity, V!form
  <2> QED BY <2>4, <2>5, <2>6
<1>4. ASSUME NEW n \in VnNodes, V!DeleteNode(n) PROVE VnSound'
  <2> DEFINE r == V!Asked("delete", n, V!None, FALSE)
  <2>1. /\ vnShown = V!NoSecrets /\ V!Send(r) /\ vnDeleting' = n
        /\ UNCHANGED <<vnList, vnListing, vnOptions, vnConfirm, vnRotating, vnShown, V!form>>
    BY <1>4 DEF V!DeleteNode, V!OnRow, V!OnList, V!Uncovered
  <2>2. r \in VnRequests /\ r.kind = "delete" /\ r.ph = "sent"
    BY VnKinds DEF V!Asked, VnRequests
  <2> HIDE DEF r
  <2>3. /\ VnServer' /\ VnPhases' /\ VnUnmixed'
        /\ (\A i \in VnSlots : vnReq[i].kind # "prefill") => \A i \in VnSlots : vnReq'[i].kind # "prefill"
    <3>1. r.kind \in Changes BY <2>2 DEF Changes
    <3>2. UNCHANGED vnShown /\ UNCHANGED vnRotating BY <2>1
    <3> QED BY <2>1, <2>2, <3>1, <3>2, VnChangeSent
  <2>4. VnPanel' /\ VnFormTyped' BY <2>1 DEF VnPanel, VnFormTyped, V!form
  <2>5. VnIdentity' BY <2>1, <2>3 DEF VnIdentity, V!form
  <2> QED BY <2>3, <2>4, <2>5
<1> QED BY <1>1, <1>2, <1>3, <1>4

\* What is done in the form.
LEMMA VnFormStep ==
  ASSUME VnSound, MaxKeys \in Nat,
         \/ V!OpenCreate \/ V!CloseForm \/ V!ToggleRegenerate \/ V!Suggest \/ V!Submit
         \/ \E n \in VnNodes : V!OpenEdit(n) \/ V!TypeIdentity(n)
  PROVE  VnSound'
<1> USE DEF VnSound
<1>1. CASE V!OpenCreate \/ V!Suggest
  <2> DEFINE r == V!Asked("prefill", V!None, V!None, FALSE)
  <2>1. /\ V!Send(r) /\ vnPrefilling' = TRUE /\ UNCHANGED <<V!panel, vnSaving>>
    BY <1>1 DEF V!OpenCreate, V!Suggest, V!AskPrefill
  <2>2. vnForm' \in VnForms /\ vnForm'.editing = V!None
    <3>1. CASE V!OpenCreate
      <4>1. vnForm' = [V!EmptyForm EXCEPT !.open = TRUE] BY <3>1 DEF V!OpenCreate
      <4> QED BY <4>1, VnEmpty DEF VnForms
    <3>2. CASE V!Suggest BY <3>2 DEF V!Suggest, VnFormTyped
    <3> QED BY <1>1, <3>1, <3>2
  <2>3. r \in VnRequests /\ r.kind = "prefill" BY VnKinds DEF V!Asked, VnRequests
  <2> HIDE DEF r
  <2>4. VnServer' /\ VnPhases' /\ VnUnmixed'
    <3>1. UNCHANGED <<vnRotating, vnShown>> BY <2>1 DEF V!panel
    <3> QED BY <2>1, <2>3, <3>1, VnReadSent
  <2>5. VnPanel' /\ VnFormTyped' BY <2>1, <2>2 DEF VnPanel, VnFormTyped, V!panel
  <2>6. VnIdentity' BY <2>2 DEF VnIdentity
  <2> QED BY <2>4, <2>5, <2>6
<1>2. CASE \/ V!CloseForm \/ V!ToggleRegenerate \/ \E n \in VnNodes : V!OpenEdit(n) \/ V!TypeIdentity(n)
  <2>1. /\ UNCHANGED <<V!panel, vnSaving, vnReq, vnKeys, vnMixed>>
        /\ vnPrefilling' \in {vnPrefilling, FALSE}
    BY <1>2 DEF V!CloseForm, V!ToggleRegenerate, V!OpenEdit, V!TypeIdentity
  <2>2. /\ vnForm' \in VnForms
        /\ vnForm'.editing # V!None /\ ~vnForm'.loose =>
             /\ vnForm'.id = vnForm'.editing
             /\ \A i \in VnSlots : vnReq[i].kind # "prefill"
    <3>1. CASE V!CloseForm
      <4>1. vnForm' = V!EmptyForm BY <3>1 DEF V!CloseForm
      <4> QED BY <4>1, VnEmpty
    <3>2. CASE V!ToggleRegenerate
      <4>1. vnForm' = [vnForm EXCEPT !.regen = ~@] BY <3>2 DEF V!ToggleRegenerate
      <4>2. /\ vnForm' \in VnForms /\ vnForm'.editing = vnForm.editing
            /\ vnForm'.loose = vnForm.loose /\ vnForm'.id = vnForm.id
        BY <4>1 DEF VnFormTyped, VnForms
      <4> QED BY <4>2 DEF VnIdentity
    <3>3. ASSUME NEW n \in VnNodes, V!OpenEdit(n) PROVE <2>2!1 /\ <2>2!2
      <4> DEFINE loose == V!InFlight("prefill") # {}
      <4>1. vnForm' = [V!EmptyForm EXCEPT !.open = TRUE, !.editing = n, !.id = n, !.loose = loose]
        BY <3>3 DEF V!OpenEdit
      <4>2. loose \in BOOLEAN OBVIOUS
      <4>3. ~loose => \A i \in VnSlots : vnReq[i].kind # "prefill" BY DEF V!InFlight
      <4> HIDE DEF loose
      <4>4. /\ vnForm' \in VnForms /\ vnForm'.id = vnForm'.editing
            /\ vnForm'.loose = loose
        BY <4>1, <4>2, VnEmpty DEF VnForms
      <4> QED BY <4>3, <4>4
    <3>4. ASSUME NEW n \in VnNodes, V!TypeIdentity(n) PROVE <2>2!1 /\ <2>2!2
      <4> DEFINE loose == vnForm.editing # V!None
      <4>1. vnForm' = [vnForm EXCEPT !.id = n, !.loose = loose]
        BY <3>4 DEF V!TypeIdentity
      <4>2. loose \in BOOLEAN OBVIOUS
      <4>3. /\ vnForm' \in VnForms /\ vnForm'.editing = vnForm.editing /\ vnForm'.loose = loose
        <5> HIDE DEF loose
        <5> QED BY <4>1, <4>2 DEF VnFormTyped, VnForms
      <4> QED BY <4>3
    <3> QED BY <1>2, <3>1, <3>2, <3>3, <3>4
  <2>3. VnServer' /\ VnPhases' /\ VnUnmixed'
    <3>1. UNCHANGED <<vnReq, vnKeys, vnMixed, vnRotating>> /\ vnShown' \in {vnShown, V!NoSecrets}
      BY <2>1 DEF V!panel
    <3> QED BY <3>1, VnQuiet
  <2>4. VnPanel' /\ VnFormTyped' BY <2>1, <2>2 DEF VnPanel, VnFormTyped, V!panel
  <2>5. VnIdentity' BY <2>1, <2>2 DEF VnIdentity
  <2> QED BY <2>3, <2>4, <2>5
<1>3. CASE V!Submit
  <2> DEFINE r == V!Asked("save", vnForm.editing, vnForm.id, vnForm.regen)
  <2>1. /\ vnShown = V!NoSecrets /\ V!Send(r) /\ vnSaving' = TRUE
        /\ UNCHANGED <<V!panel, vnForm, vnPrefilling>>
    BY <1>3 DEF V!Submit, V!OnForm, V!Uncovered
  <2>2. r \in VnRequests /\ r.kind = "save" /\ r.ph = "sent"
    <3>1. /\ vnForm.editing \in VnNodes \cup {V!None} /\ vnForm.id \in VnNodes \cup {V!None}
          /\ vnForm.regen \in BOOLEAN
      BY DEF VnFormTyped, VnForms
    <3> QED BY <3>1, VnAskedTyped, VnKinds
  <2> HIDE DEF r
  <2>3. /\ VnServer' /\ VnPhases' /\ VnUnmixed'
        /\ (\A i \in VnSlots : vnReq[i].kind # "prefill") => \A i \in VnSlots : vnReq'[i].kind # "prefill"
    <3>1. r.kind \in Changes BY <2>2 DEF Changes
    <3>2. UNCHANGED vnShown /\ UNCHANGED vnRotating BY <2>1 DEF V!panel
    <3> QED BY <2>1, <2>2, <3>1, <3>2, VnChangeSent
  <2>4. VnPanel' /\ VnFormTyped' BY <2>1 DEF VnPanel, VnFormTyped, V!panel
  <2>5. VnIdentity' BY <2>1, <2>3 DEF VnIdentity
  <2> QED BY <2>3, <2>4, <2>5
<1> QED BY <1>1, <1>2, <1>3

LEMMA VnStep ==
  ASSUME MaxKeys \in Nat, VnSound, [V!VnNext]_(V!vnVars)
  PROVE  VnSound'
<1>1. CASE UNCHANGED V!vnVars
  <2>1. VnServer' /\ VnPhases' /\ VnUnmixed' BY <1>1, VnQuiet DEF V!vnVars
  <2>2. VnPanel' /\ VnFormTyped' BY <1>1 DEF VnSound, VnPanel, VnFormTyped, V!vnVars
  <2>3. VnIdentity' BY <1>1 DEF VnSound, VnIdentity, V!vnVars
  <2> QED BY <2>1, <2>2, <2>3 DEF VnSound
<1>2. CASE \E i \in VnSlots : V!Act(i) \/ V!PrefillLands(i) \/ V!Acted(i) \/ V!ListServed(i)
                              \/ V!ListLands(i) \/ V!ListFails(i) \/ V!Fails(i)
  BY <1>2, VnActs, VnPrefilled, VnAnswered, VnServed, VnListed, VnFails
<1>3. CASE \/ V!RefreshNodes \/ V!OptionsArrive \/ V!CancelRotate \/ V!ConfirmRotate \/ V!CloseSecrets
           \/ \E n \in VnNodes : V!AskRotate(n) \/ V!DeleteNode(n)
  BY <1>3, VnListStep
<1>4. CASE \/ V!OpenCreate \/ V!CloseForm \/ V!ToggleRegenerate \/ V!Suggest \/ V!Submit
           \/ \E n \in VnNodes : V!OpenEdit(n) \/ V!TypeIdentity(n)
  BY <1>4, VnFormStep
<1> QED BY <1>1, <1>2, <1>3, <1>4 DEF V!VnNext

LEMMA VnStarts ==
  ASSUME MaxKeys \in Nat \ {0}, V!VnInit
  PROVE  VnSound
<1> DEFINE first == CHOOSE j \in VnSlots : TRUE
           r == V!Fetching(V!Asked("list", V!None, V!None, FALSE))
<1>1. /\ vnList = {} /\ vnListing = TRUE /\ vnForm = V!EmptyForm /\ vnOptions = FALSE
      /\ vnSaving = FALSE /\ vnPrefilling = FALSE /\ vnConfirm = V!None /\ vnRotating = V!None
      /\ vnDeleting = V!None /\ vnShown = V!NoSecrets /\ vnMixed = FALSE
      /\ vnReq = [i \in VnSlots |-> IF i = first THEN r ELSE V!NoRequest]
      /\ vnKeys = [n \in VnNodes |-> 1]
  BY DEF V!VnInit
<1>2. r \in VnRequests /\ r.kind = "list" /\ r.ph = "fetching"
  <2>1. /\ V!Asked("list", V!None, V!None, FALSE) \in VnRequests
        /\ V!Asked("list", V!None, V!None, FALSE).kind = "list"
    BY VnKinds DEF V!Asked, VnRequests
  <2> QED BY <2>1, VnFetchingTyped
<1>3. V!NoRequest \in VnRequests /\ V!NoSecrets \in VnSecrets BY VnNoneTyped
<1> HIDE DEF first, r
<1>4. VnPanel BY <1>1, <1>3 DEF VnPanel
<1>5. VnFormTyped BY <1>1, VnEmpty DEF VnFormTyped
<1>6. VnServer
  <2>1. vnReq \in [VnSlots -> VnRequests] BY <1>1, <1>2, <1>3
  <2>2. 1 \in 0..MaxKeys OBVIOUS
  <2>3. vnKeys \in [VnNodes -> 0..MaxKeys] BY <1>1, <2>2
  <2> QED BY <1>1, <2>1, <2>3 DEF VnServer
<1>7. \A i \in VnSlots : (vnReq[i].kind = "list" /\ vnReq[i].ph = "fetching") \/ vnReq[i] = V!NoRequest
  BY <1>1, <1>2
<1>8. VnPhases BY <1>7, VnEmpty DEF VnPhases, Reading
<1>9. VnUnmixed BY <1>1, <1>7, VnEmpty
  DEF VnUnmixed, VnOneChange, VnMarked, VnSaved, VnDisplayed, Changes
<1>10. VnIdentity BY <1>1, VnEmpty DEF VnIdentity
<1> QED BY <1>4, <1>5, <1>6, <1>8, <1>9, <1>10 DEF VnSound

LEMMA VnShows == VnSound => V!ShownKeyIsCurrent /\ V!EditKeepsIdentity
BY
DEF VnSound, VnUnmixed, VnDisplayed, VnLatest, VnIdentity, V!ShownKeyIsCurrent, V!EditKeepsIdentity

-----------------------------------------------------------------------------
(* The map: a focus waits until its marker can be shown.                   *)

\* The focus and its timer, as the effect leaves them.
NmEffect ==
  /\ nmFocused # M!None <=> nmShould
  /\ nmTimer = M!TimerFor(nmShown, nmShould, nmFocused, nmData)

NmSound == M!NmTypeOK /\ NmEffect

LEMMA NmTimerTyped ==
  ASSUME NEW shown, NEW should, NEW focused \in NmNodes \cup {M!None}, NEW data
  PROVE  M!TimerFor(shown, should, focused, data) \in NmNodes \cup {M!None}
BY DEF M!TimerFor

\* What the map shows and the loads, typed, after a step that runs the effect again.
LEMMA NmReruns ==
  ASSUME M!NmTypeOK, M!Rerun, nmShown' \in BOOLEAN, nmLoading' \in BOOLEAN, nmShould' \in BOOLEAN,
         nmData' \in M!Answers, nmLoads' \in 0..MaxLoads,
         nmFocused' \in NmNodes \cup {M!None}, nmSelected' \in NmNodes \cup {M!None},
         nmView' \in NmNodes \cup {M!None}, nmFocused' # M!None <=> nmShould',
         nmChunk' \in {"unasked", "coming", "here"}
  PROVE  NmSound'
<1>1. nmTimer' = M!TimerFor(nmShown', nmShould', nmFocused', nmData') BY DEF M!Rerun
<1>2. nmTimer' \in NmNodes \cup {M!None} BY <1>1, NmTimerTyped
<1>3. M!NmTypeOK' BY <1>2 DEF M!NmTypeOK
<1>4. NmEffect' BY <1>1 DEF NmEffect
<1> QED BY <1>3, <1>4 DEF NmSound

LEMMA NmTold ==
  /\ M!NoData \in M!Answers
  /\ \A data \in M!Answers : M!Positioned(data) \subseteq NmNodes
  /\ \A data \in M!Answers, told \in SUBSET NmNodes :
       [n \in NmNodes |-> IF n \in told THEN data[n] ELSE "unknown"] \in M!Answers
BY DEF M!NoData, M!Answers, M!Positioned

LEMMA NmRemounts ==
  ASSUME M!NmTypeOK, M!Remount
  PROVE  nmView' \in NmNodes \cup {M!None}
BY DEF M!Remount, M!NmTypeOK

LEMMA NmStep ==
  ASSUME MaxLoads \in Nat \ {0}, NmSound, [M!NmNext]_(M!nmVars)
  PROVE  NmSound'
<1> USE DEF NmSound
<1>1. ASSUME UNCHANGED <<nmShown, nmData, nmFocused, nmShould, nmTimer>>,
             nmChunk' \in {"unasked", "coming", "here"},
             nmLoading' \in BOOLEAN, nmLoads' \in 0..MaxLoads,
             nmSelected' \in NmNodes \cup {M!None}, nmView' \in NmNodes \cup {M!None}
      PROVE  NmSound'
  BY <1>1 DEF M!NmTypeOK, NmEffect
<1>2. ASSUME NEW n \in NmNodes \cup {M!None}, M!OpenMap(n) PROVE NmSound'
  <2>1. nmFocused' \in NmNodes \cup {M!None} BY <1>2 DEF M!OpenMap, M!NmTypeOK
  <2>2. nmShould' \in BOOLEAN BY <1>2 DEF M!OpenMap
  <2>3. nmFocused' # M!None <=> nmShould' BY <1>2 DEF M!OpenMap, NmEffect
  <2>4. /\ nmShown' = TRUE /\ nmLoading' = TRUE /\ nmData' = M!NoData /\ nmLoads' = 1
        /\ nmSelected' = M!None /\ nmView' = M!None /\ M!Rerun
    BY <1>2 DEF M!OpenMap
  <2>5. nmLoads' \in 0..MaxLoads BY <2>4
  <2>6. nmChunk' \in {"unasked", "coming", "here"} BY <1>2 DEF M!OpenMap, M!NmTypeOK
  <2> QED BY <2>1, <2>2, <2>3, <2>4, <2>5, <2>6, NmTold, NmReruns
<1>3. CASE M!LeaveMap
  <2>1. /\ nmShown' = FALSE /\ nmLoading' = FALSE /\ nmData' = M!NoData /\ nmLoads' = 0
        /\ nmSelected' = M!None /\ nmView' = M!None /\ M!Rerun
        /\ UNCHANGED <<nmChunk, nmFocused, nmShould>>
    BY <1>3 DEF M!LeaveMap
  <2>2. nmFocused' \in NmNodes \cup {M!None} /\ nmShould' \in BOOLEAN BY <2>1 DEF M!NmTypeOK
  <2>3. nmFocused' # M!None <=> nmShould' BY <2>1 DEF NmEffect
  <2>4. nmLoads' \in 0..MaxLoads BY <2>1
  <2>5. nmChunk' \in {"unasked", "coming", "here"} BY <2>1 DEF M!NmTypeOK
  <2> QED BY <2>1, <2>2, <2>3, <2>4, <2>5, NmTold, NmReruns
<1>4. CASE M!Refresh BY <1>1, <1>4 DEF M!Refresh, M!NmTypeOK
<1>5. CASE M!ChangeSetting
  <2>1. nmData' \in M!Answers BY <1>5, NmTold DEF M!ChangeSetting, M!NmTypeOK
  <2>2. nmLoads' \in 0..MaxLoads BY <1>5 DEF M!ChangeSetting, M!NmTypeOK
  <2>3. /\ nmLoading' = TRUE /\ M!Rerun /\ M!Remount
        /\ UNCHANGED <<nmShown, nmChunk, nmFocused, nmShould, nmSelected>>
    BY <1>5 DEF M!ChangeSetting
  <2>4. nmFocused' # M!None <=> nmShould' BY <2>3 DEF NmEffect
  <2>5. nmView' \in NmNodes \cup {M!None} BY <2>3, NmRemounts
  <2> QED BY <2>1, <2>2, <2>3, <2>4, <2>5, NmReruns DEF M!NmTypeOK
<1>6. CASE M!DataArrives
  <2>1. nmLoads' \in 0..MaxLoads BY <1>6 DEF M!DataArrives, M!NmTypeOK
  <2>2. /\ nmLoading' = FALSE /\ nmData' \in M!Answers /\ M!Rerun /\ M!Remount
        /\ UNCHANGED <<nmShown, nmChunk, nmFocused, nmShould, nmSelected>>
    BY <1>6 DEF M!DataArrives
  <2>3. nmFocused' # M!None <=> nmShould' BY <2>2 DEF NmEffect
  <2>4. nmView' \in NmNodes \cup {M!None} BY <2>2, NmRemounts
  <2> QED BY <2>1, <2>2, <2>3, <2>4, NmReruns DEF M!NmTypeOK
<1>7. CASE M!LoadFails
  <2>1. /\ nmLoads > 0 /\ nmLoads' = nmLoads - 1 /\ nmLoading' = FALSE
        /\ UNCHANGED <<nmShown, nmChunk, nmData, nmFocused, nmShould, nmTimer, nmSelected, nmView>>
    BY <1>7 DEF M!LoadFails
  <2>2. nmLoads' \in 0..MaxLoads BY <2>1 DEF M!NmTypeOK
  <2>3. nmLoading' \in BOOLEAN BY <2>1
  <2> QED BY <1>1, <2>1, <2>2, <2>3 DEF M!NmTypeOK
<1>8. CASE M!TimerFires
  <2>1. /\ nmShould' = FALSE /\ nmFocused' = M!None /\ M!Rerun
        /\ UNCHANGED <<nmShown, nmChunk, nmData, nmLoading, nmLoads>>
    BY <1>8 DEF M!TimerFires
  <2>2. nmSelected' \in NmNodes \cup {M!None} /\ nmView' \in NmNodes \cup {M!None}
    BY <1>8, NmTold DEF M!TimerFires, M!FocusOn, M!NmTypeOK
  <2> QED BY <2>1, <2>2, NmReruns DEF M!NmTypeOK
<1>9. ASSUME NEW n \in NmNodes, M!ClickMarker(n) PROVE NmSound'
  <2>1. nmSelected' \in NmNodes \cup {M!None} BY <1>9 DEF M!ClickMarker
  <2> QED BY <1>1, <1>9, <2>1 DEF M!ClickMarker, M!NmTypeOK
<1>10. CASE M!CloseNode
  <2>1. nmSelected' \in NmNodes \cup {M!None} BY <1>10 DEF M!CloseNode
  <2> QED BY <1>1, <1>10, <2>1 DEF M!CloseNode, M!NmTypeOK
<1>11. CASE M!FlyToAny
  <2>1. nmView' \in NmNodes \cup {M!None} BY <1>11, NmTold DEF M!FlyToAny, M!NmTypeOK
  <2> QED BY <1>1, <1>11, <2>1 DEF M!FlyToAny, M!NmTypeOK
<1>12. CASE UNCHANGED M!nmVars BY <1>1, <1>12 DEF M!nmVars, M!NmTypeOK
<1>13. CASE M!ChunkLoads BY <1>1, <1>13 DEF M!ChunkLoads, M!NmTypeOK
<1> QED BY <1>13, <1>2, <1>3, <1>4, <1>5, <1>6, <1>7, <1>8, <1>9, <1>10, <1>11, <1>12 DEF M!NmNext

LEMMA NmStarts ==
  ASSUME MaxLoads \in Nat \ {0}, M!NmInit
  PROVE  NmSound
<1>1. M!NmTypeOK
  <2>1. /\ nmShown = FALSE /\ nmLoading = FALSE /\ nmShould = FALSE
        /\ nmChunk = "unasked" /\ nmLoads = 0 /\ nmFocused = M!None /\ nmTimer = M!None
        /\ nmSelected = M!None /\ nmView = M!None /\ nmData = M!NoData
    BY DEF M!NmInit
  <2>2. {nmShown, nmLoading, nmShould} \subseteq BOOLEAN BY <2>1
  <2>3. nmLoads \in 0..MaxLoads BY <2>1
  <2>4. {nmFocused, nmTimer, nmSelected, nmView} \subseteq NmNodes \cup {M!None} BY <2>1
  <2> QED BY <2>1, <2>2, <2>3, <2>4, NmTold DEF M!NmTypeOK
<1>2. NmEffect BY DEF M!NmInit, NmEffect, M!TimerFor
<1> QED BY <1>1, <1>2 DEF NmSound

LEMMA NmShows == NmSound => M!FocusWaitsForMarkers
<1> SUFFICES ASSUME NmSound PROVE M!FocusWaitsForMarkers OBVIOUS
<1>1. (nmFocused # M!None) = nmShould BY DEF NmSound, NmEffect, M!NmTypeOK
<1>2. M!Positioned(nmData) # {} <=> \E n \in NmNodes : nmData[n] = "other" BY DEF M!Positioned
<1>3. /\ nmTimer # M!None <=> nmShown /\ nmShould /\ \E n \in NmNodes : nmData[n] = "other"
      /\ nmTimer # M!None => nmTimer = nmFocused
  BY <1>2 DEF NmSound, NmEffect, M!TimerFor
<1> QED BY <1>1, <1>3 DEF M!FocusWaitsForMarkers

-----------------------------------------------------------------------------
(* The selection: one node or two different ones.                          *)

NsAsked == [kind : {"click", "focus"}, node : NsNodes \cup NsForeign, active : BOOLEAN]

\* NsTypeOK, with the requests one for each slot.
NsTyped ==
  /\ nsFirst \in NsNodes \cup {S!None} /\ nsSecond \in NsNodes \cup {S!None}
  /\ nsPending \in NsNodes \cup NsForeign \cup {S!None}
  /\ nsReq \in [NsSlots -> NsAsked \cup {S!NoRequest}]

\* A second node has a first, another one.
NsPair == nsSecond # S!None => nsFirst # S!None /\ nsFirst # nsSecond

\* The request a pending focus waits for.
NsFocusAsked ==
  nsPending # S!None => \E i \in NsSlots : /\ nsReq[i].kind = "focus" /\ nsReq[i].active
                                           /\ nsReq[i].node = nsPending

NsSound == NsTyped /\ NsPair /\ NsFocusAsked

LEMMA NsChosenIsPair ==
  ASSUME NEW first \in NsNodes \cup {S!None}, NEW second \in NsNodes \cup {S!None}, NEW n \in NsNodes,
         second # S!None => first # S!None /\ first # second
  PROVE  /\ S!Chosen(first, second, n)[1] \in NsNodes \cup {S!None}
         /\ S!Chosen(first, second, n)[2] \in NsNodes \cup {S!None}
         /\ S!Chosen(first, second, n)[2] # S!None =>
              /\ S!Chosen(first, second, n)[1] # S!None
              /\ S!Chosen(first, second, n)[1] # S!Chosen(first, second, n)[2]
BY DEF S!Chosen

\* A request that is over, and the focus with it when it was the current one.
LEMMA NsEnded ==
  ASSUME NsTyped, NsFocusAsked, NEW i \in NsSlots, nsReq' = [nsReq EXCEPT ![i] = S!NoRequest],
         nsPending' \in {nsPending, S!None},
         nsReq[i].kind = "focus" /\ nsReq[i].active => nsPending' = S!None
  PROVE  /\ nsPending' \in NsNodes \cup NsForeign \cup {S!None}
         /\ nsReq' \in [NsSlots -> NsAsked \cup {S!NoRequest}] /\ NsFocusAsked'
<1>1. \A j \in NsSlots \ {i} : nsReq'[j] = nsReq[j] BY DEF NsTyped
<1>2. NsFocusAsked' BY <1>1 DEF NsFocusAsked
<1> QED BY <1>2 DEF NsTyped

LEMMA NsStep ==
  ASSUME NsSound, [S!NsNext]_(S!nsVars)
  PROVE  NsSound'
<1> USE DEF NsSound
<1>1. ASSUME NEW n \in NsNodes \cup NsForeign, S!ClickNode(n) PROVE NsSound'
  <2>1. PICK i \in NsSlots :
          /\ nsReq[i] = S!NoRequest
          /\ nsReq' = [nsReq EXCEPT ![i] = [kind |-> "click", node |-> n, active |-> TRUE]]
    BY <1>1 DEF S!ClickNode, S!Ask, S!Waiting
  <2>2. UNCHANGED <<nsFirst, nsSecond, nsPending>> BY <1>1 DEF S!ClickNode
  <2>3. [kind |-> "click", node |-> n, active |-> TRUE] \in NsAsked BY DEF NsAsked
  <2>4. NsTyped' BY <2>1, <2>2, <2>3 DEF NsTyped
  <2>5. \A j \in NsSlots : nsReq[j].kind = "focus" => nsReq'[j] = nsReq[j]
    BY <2>1 DEF NsTyped, S!NoRequest, S!None
  <2> QED BY <2>2, <2>4, <2>5 DEF NsPair, NsFocusAsked
<1>2. ASSUME NEW n \in NsNodes \cup NsForeign, S!FocusOn(n) PROVE NsSound'
  <2> DEFINE Focus == [kind |-> "focus", node |-> n, active |-> TRUE]
             Old(j) == IF nsReq[j].kind = "focus" THEN [nsReq[j] EXCEPT !.active = FALSE] ELSE nsReq[j]
  <2>1. PICK i \in NsSlots : nsReq' = [j \in NsSlots |-> IF j = i THEN Focus ELSE Old(j)]
    BY <1>2 DEF S!FocusOn
  <2>2. nsPending' = n /\ UNCHANGED <<nsFirst, nsSecond>> BY <1>2 DEF S!FocusOn
  <2>3. Focus \in NsAsked BY DEF NsAsked
  <2>4. ASSUME NEW j \in NsSlots PROVE Old(j) \in NsAsked \cup {S!NoRequest}
    <3>1. CASE nsReq[j] \in NsAsked BY <3>1 DEF NsAsked
    <3>2. CASE nsReq[j] = S!NoRequest
      <4>1. nsReq[j].kind # "focus" BY <3>2 DEF S!NoRequest, S!None
      <4> QED BY <3>2, <4>1
    <3> QED BY <3>1, <3>2 DEF NsTyped
  <2>5. Focus.kind = "focus" /\ Focus.active /\ Focus.node = n OBVIOUS
  <2> HIDE DEF Focus, Old
  <2>6. NsTyped' BY <2>1, <2>2, <2>3, <2>4 DEF NsTyped
  <2>7. NsFocusAsked' BY <2>1, <2>2, <2>5 DEF NsFocusAsked
  <2> QED BY <2>2, <2>6, <2>7 DEF NsPair
<1>3. ASSUME NEW i \in NsSlots, S!ClickAnswered(i) PROVE NsSound'
  <2>1. /\ nsReq[i].kind = "click" /\ nsReq[i].node \in NsNodes
        /\ nsFirst' = S!Chosen(nsFirst, nsSecond, nsReq[i].node)[1]
        /\ nsSecond' = S!Chosen(nsFirst, nsSecond, nsReq[i].node)[2]
        /\ nsReq' = [nsReq EXCEPT ![i] = S!NoRequest] /\ UNCHANGED nsPending
    BY <1>3 DEF S!ClickAnswered
  <2>2. /\ nsFirst' \in NsNodes \cup {S!None} /\ nsSecond' \in NsNodes \cup {S!None}
        /\ nsSecond' # S!None => nsFirst' # S!None /\ nsFirst' # nsSecond'
    BY <2>1, NsChosenIsPair DEF NsTyped, NsPair
  <2> QED BY <2>1, <2>2, NsEnded DEF NsTyped, NsPair
<1>4. ASSUME NEW i \in NsSlots, S!FocusAnswered(i) PROVE NsSound'
  <2>1. /\ nsReq[i].kind = "focus" /\ nsReq[i].node \in NsNodes
        /\ nsFirst' = nsReq[i].node /\ nsSecond' = S!None
        /\ nsPending' = IF nsReq[i].active THEN S!None ELSE nsPending
        /\ nsReq' = [nsReq EXCEPT ![i] = S!NoRequest]
    BY <1>4 DEF S!FocusAnswered
  <2> QED BY <2>1, NsEnded DEF NsTyped, NsPair
<1>5. ASSUME NEW i \in NsSlots, S!AskFails(i) PROVE NsSound'
  <2>1. /\ nsPending' = IF nsReq[i].kind = "focus" /\ nsReq[i].active THEN S!None ELSE nsPending
        /\ nsReq' = [nsReq EXCEPT ![i] = S!NoRequest] /\ UNCHANGED <<nsFirst, nsSecond>>
    BY <1>5 DEF S!AskFails
  <2> QED BY <2>1, NsEnded DEF NsTyped, NsPair
<1>6. CASE S!ClearSelection BY <1>6 DEF S!ClearSelection, NsTyped, NsPair, NsFocusAsked
<1>7. CASE S!SwapNodes BY <1>7 DEF S!SwapNodes, NsTyped, NsPair, NsFocusAsked
<1>8. CASE UNCHANGED S!nsVars BY <1>8 DEF S!nsVars, NsTyped, NsPair, NsFocusAsked
<1> QED BY <1>1, <1>2, <1>3, <1>4, <1>5, <1>6, <1>7, <1>8 DEF S!NsNext

LEMMA NsStarts == S!NsInit => NsSound
BY DEF S!NsInit, NsSound, NsTyped, NsPair, NsFocusAsked

LEMMA NsShows == NsSound => S!NsTypeOK /\ S!SelectionIsPair
<1> SUFFICES ASSUME NsSound PROVE S!NsTypeOK /\ S!SelectionIsPair OBVIOUS
<1>1. S!NsTypeOK BY DEF NsSound, NsTyped, S!NsTypeOK, NsAsked
<1>2. ASSUME nsPending # S!None
      PROVE  \E i \in NsSlots : nsReq[i] = [kind |-> "focus", node |-> nsPending, active |-> TRUE]
  <2>1. PICK i \in NsSlots : nsReq[i].kind = "focus" /\ nsReq[i].active /\ nsReq[i].node = nsPending
    BY <1>2 DEF NsSound, NsFocusAsked
  <2>2. nsReq[i] \in NsAsked
    BY <2>1 DEF NsSound, NsTyped, S!NoRequest, S!None
  <2>3. nsReq[i] = [kind |-> "focus", node |-> nsPending, active |-> TRUE]
    BY <2>1, <2>2 DEF NsAsked
  <2> QED BY <2>3
<1>3. nsSecond # S!None => nsFirst # S!None /\ nsFirst # nsSecond BY DEF NsSound, NsPair
<1> QED BY <1>1, <1>2, <1>3 DEF S!SelectionIsPair

-----------------------------------------------------------------------------
(* The graph: a settled canvas shows the choice.                           *)

NgGraphs == [raw : G!Datas, filter : NgFilters \cup {G!None}, built : G!Builts]
NgFetchRequests == [filter : NgFilters, refresh : BOOLEAN, seen : NgGraphs]
NgAskRequests == [raw : G!Datas, nodes : NgFilters, filter : NgFilters, sel : SUBSET NgIfaces]

\* NgTypeOK, with what is in flight.
NgData ==
  /\ ngFilter \in NgFilters /\ ngRaw \in G!Datas
  /\ ngSel \subseteq NgIfaces /\ ngKnown \subseteq NgIfaces /\ ngBuilt \in G!Builts
  /\ ngCanvas \in NgGraphs
NgFlags ==
  /\ ngLoading \in BOOLEAN /\ ngError \in BOOLEAN /\ ngBusy \in BOOLEAN /\ ngMixed \in BOOLEAN
  /\ ngTimer \in [on : BOOLEAN, graph : NgGraphs]
NgFetchesTyped == ngFetches \in Seq(NgFetchRequests) /\ Len(ngFetches) <= MaxFetches
NgAsksTyped == ngAsks \in Seq(NgAskRequests) /\ Len(ngAsks) <= MaxAsks

\* The fetch asked for last is for the settings, and with none in flight they were fetched
\* or an error says so; a spinner has a fetch.
NgFetched ==
  /\ Len(ngFetches) > 0 => ngFetches[Len(ngFetches)].filter = ngFilter
  /\ Len(ngFetches) = 0 => (ngError \/ ngRaw.filter = ngFilter)
  /\ ngLoading => Len(ngFetches) > 0

\* The interfaces asked for last are for the data and the selection, and with no such
\* request in flight their nodes were built from these.
NgAsked ==
  /\ Len(ngAsks) > 0 => ngAsks[Len(ngAsks)] = G!Ask(ngRaw, ngFilter, ngFilter, ngSel)
  /\ Len(ngAsks) = 0 =>
       /\ ngBuilt \in {G!NotBuilt, G!Built(ngSel, ngRaw, ngFilter, ngFilter)}
       /\ ngKnown # {} => ngSel # {} /\ ngSel \subseteq ngKnown

\* The canvas is what is merged, or an answer to come copies it.
NgCopied == Len(ngAsks) = 0 => ngCanvas = G!Merged(ngRaw, ngFilter, ngBuilt)

\* A refresh is in flight, or its timer runs, while it is marked as going on.
NgRefreshed == ngBusy => ngTimer.on \/ \E i \in 1..Len(ngFetches) : ngFetches[i].refresh

NgTypes == NgData /\ NgFlags /\ NgFetchesTyped /\ NgAsksTyped
NgSound == NgTypes /\ NgRefreshed /\ (~ngMixed => NgFetched /\ NgAsked /\ NgCopied)

\* One taken out of a queue: the others stay, and so does the last unless it was that one.
LEMMA NgRest ==
  ASSUME NEW X, NEW q \in Seq(X), NEW i \in 1..Len(q)
  PROVE  /\ G!Rest(q, i) \in Seq(X) /\ Len(G!Rest(q, i)) = Len(q) - 1
         /\ \A j \in 1..Len(q) \ {i} : \E k \in 1..Len(G!Rest(q, i)) : G!Rest(q, i)[k] = q[j]
         /\ i = 1 /\ Len(q) > 1 => G!Rest(q, i)[Len(q) - 1] = q[Len(q)]
<1> DEFINE r == G!Rest(q, i)
<1>1. r = [j \in 1..Len(q) - 1 |-> IF j < i THEN q[j] ELSE q[j + 1]] BY DEF G!Rest
<1>2. Len(q) \in Nat /\ Len(q) - 1 \in Nat /\ i \in Nat OBVIOUS
<1>3. \A j \in 1..Len(q) - 1 : r[j] = (IF j < i THEN q[j] ELSE q[j + 1]) /\ r[j] \in X
  <2>1. \A j \in 1..Len(q) : q[j] \in X OBVIOUS
  <2> QED BY <1>1, <1>2, <2>1
<1> HIDE DEF r
<1>4. r \in Seq(X) /\ Len(r) = Len(q) - 1
  <2>1. r \in [1..Len(q) - 1 -> X] BY <1>1, <1>3
  <2> QED BY <1>2, <2>1
<1>5. ASSUME NEW j \in 1..Len(q) \ {i} PROVE \E k \in 1..Len(r) : r[k] = q[j]
  <2>1. CASE j < i BY <1>2, <1>3, <1>4, <2>1
  <2>2. CASE j > i
    <3>1. j - 1 \in 1..Len(r) /\ ~(j - 1 < i) /\ (j - 1) + 1 = j BY <1>2, <1>4, <2>2
    <3>2. r[j - 1] = q[j] BY <1>3, <1>4, <3>1
    <3> QED BY <3>1, <3>2
  <2> QED BY <1>2, <2>1, <2>2
<1>6. i = 1 /\ Len(q) > 1 => r[Len(q) - 1] = q[Len(q)]
  <2> SUFFICES ASSUME i = 1, Len(q) > 1 PROVE r[Len(q) - 1] = q[Len(q)] OBVIOUS
  <2>1. Len(q) - 1 \in 1..Len(q) - 1 /\ ~(Len(q) - 1 < i) /\ (Len(q) - 1) + 1 = Len(q) BY <1>2
  <2> QED BY <1>3, <2>1
<1> QED BY <1>4, <1>5, <1>6 DEF r

\* One asked for joins the end of a queue.
LEMMA NgAppended ==
  ASSUME NEW X, NEW q \in Seq(X), NEW x \in X
  PROVE  /\ Append(q, x) \in Seq(X) /\ Len(Append(q, x)) = Len(q) + 1 /\ Len(q) \in Nat
         /\ Append(q, x)[Len(q) + 1] = x
         /\ \A j \in 1..Len(q) : Append(q, x)[j] = q[j]
OBVIOUS

LEMMA NgMergedTyped ==
  ASSUME NEW raw \in G!Datas, NEW filter \in NgFilters \cup {G!None}, NEW built \in G!Builts
  PROVE  G!Merged(raw, filter, built) \in NgGraphs
BY DEF G!Merged, NgGraphs

LEMMA NgEmptyTyped == G!NoData \in G!Datas /\ G!NotBuilt \in G!Builts /\ G!Empty \in NgGraphs
<1>1. G!NoData \in G!Datas BY DEF G!Datas
<1>2. G!NotBuilt \in G!Builts BY <1>1 DEF G!NotBuilt, G!Built, G!Builts
<1> QED BY <1>1, <1>2 DEF G!Empty, G!Merged, NgGraphs

LEMMA NgAskTyped ==
  ASSUME NEW raw \in G!Datas, NEW nodes \in NgFilters, NEW filter \in NgFilters,
         NEW sel \in SUBSET NgIfaces
  PROVE  G!Ask(raw, nodes, filter, sel) \in NgAskRequests
BY DEF G!Ask, NgAskRequests

\* The interfaces are asked for, with the data and the selection as they are now.
LEMMA NgAsksAgain ==
  ASSUME NEW rest \in Seq(NgAskRequests), G!AskAgain(rest), MaxAsks \in Nat,
         ngRaw' \in G!Datas, ngFilter' \in NgFilters, ngSel' \in SUBSET NgIfaces
  PROVE  NgAsksTyped' /\ NgAsked' /\ NgCopied'
<1> DEFINE a == G!Ask(ngRaw', ngFilter', ngFilter', ngSel')
<1>1. a \in NgAskRequests BY NgAskTyped
<1>2. Len(rest) < MaxAsks /\ ngAsks' = Append(rest, a) BY DEF G!AskAgain
<1> HIDE DEF a
<1>3. /\ ngAsks' \in Seq(NgAskRequests) /\ Len(ngAsks') = Len(rest) + 1 /\ Len(rest) \in Nat
      /\ ngAsks'[Len(rest) + 1] = a
  BY <1>1, <1>2, NgAppended
<1>4. Len(ngAsks') <= MaxAsks /\ Len(ngAsks') > 0 BY <1>2, <1>3
<1>5. NgAsksTyped' BY <1>3, <1>4 DEF NgAsksTyped
<1>6. NgAsked' BY <1>3, <1>4 DEF NgAsked, a
<1>7. NgCopied' BY <1>4 DEF NgCopied
<1> QED BY <1>5, <1>6, <1>7

\* They are asked for once or twice, and the last time is for all that is there now.
LEMMA NgAsksTwice ==
  ASSUME NgAsksTyped, NEW before \in NgFilters, G!AskTwice(before), MaxAsks \in Nat,
         ngRaw' \in G!Datas, ngFilter' \in NgFilters, ngSel' \in SUBSET NgIfaces
  PROVE  NgAsksTyped' /\ NgAsked' /\ NgCopied'
<1> DEFINE a == G!Ask(ngRaw', before, ngFilter', ngSel')
           rest == IF ngRaw' = G!NoData THEN ngAsks ELSE Append(ngAsks, a)
<1>1. a \in NgAskRequests BY NgAskTyped
<1>2. G!AskAgain(rest) BY DEF G!AskTwice
<1> HIDE DEF a
<1>3. rest \in Seq(NgAskRequests) BY <1>1 DEF NgAsksTyped
<1> HIDE DEF rest
<1> QED BY <1>2, <1>3, NgAsksAgain

\* A fetch joins those in flight, and is the last.
LEMMA NgFetchAsked ==
  ASSUME NgFetchesTyped, MaxFetches \in Nat, Len(ngFetches) < MaxFetches, NEW x \in NgFetchRequests,
         ngFetches' = Append(ngFetches, x), x.filter = ngFilter'
  PROVE  /\ NgFetchesTyped' /\ NgFetched'
         /\ (\E i \in 1..Len(ngFetches) : ngFetches[i].refresh) \/ x.refresh =>
              \E i \in 1..Len(ngFetches') : ngFetches'[i].refresh
<1>1. /\ ngFetches' \in Seq(NgFetchRequests) /\ Len(ngFetches') = Len(ngFetches) + 1
      /\ Len(ngFetches) \in Nat /\ ngFetches'[Len(ngFetches) + 1] = x
      /\ \A j \in 1..Len(ngFetches) : ngFetches'[j] = ngFetches[j]
  BY NgAppended DEF NgFetchesTyped
<1>2. NgFetchesTyped' BY <1>1 DEF NgFetchesTyped
<1>3. NgFetched' BY <1>1 DEF NgFetched
<1>4. ASSUME NEW i \in 1..Len(ngFetches), ngFetches[i].refresh
      PROVE  i \in 1..Len(ngFetches') /\ ngFetches'[i].refresh
  BY <1>1, <1>4
<1>5. x.refresh => Len(ngFetches) + 1 \in 1..Len(ngFetches') /\ ngFetches'[Len(ngFetches) + 1].refresh
  BY <1>1
<1> QED BY <1>2, <1>3, <1>4, <1>5

\* A fetch is over: a refresh starts its timer, and those in flight stay.
LEMMA NgFetchOver ==
  ASSUME NgTypes, NgRefreshed, NEW i \in 1..MaxFetches, MaxFetches \in Nat, i <= Len(ngFetches),
         ngFetches' = G!Rest(ngFetches, i), G!StartTimer(ngFetches[i]), UNCHANGED ngBusy
  PROVE  /\ NgFetchesTyped' /\ NgRefreshed' /\ ngTimer' \in [on : BOOLEAN, graph : NgGraphs]
         /\ ngFetches[i] \in NgFetchRequests /\ Len(ngFetches) \in Nat
         /\ Len(ngFetches') = Len(ngFetches) - 1
         /\ i = 1 /\ Len(ngFetches') > 0 =>
              ngFetches'[Len(ngFetches')] = ngFetches[Len(ngFetches)]
<1> USE DEF NgTypes
<1>1. i \in 1..Len(ngFetches) /\ Len(ngFetches) \in Nat BY DEF NgFetchesTyped
<1>2. /\ ngFetches' \in Seq(NgFetchRequests) /\ Len(ngFetches') = Len(ngFetches) - 1
      /\ \A j \in 1..Len(ngFetches) \ {i} : \E k \in 1..Len(ngFetches') : ngFetches'[k] = ngFetches[j]
      /\ i = 1 /\ Len(ngFetches) > 1 => ngFetches'[Len(ngFetches) - 1] = ngFetches[Len(ngFetches)]
  BY <1>1, NgRest DEF NgFetchesTyped
<1>3. NgFetchesTyped' BY <1>1, <1>2 DEF NgFetchesTyped
<1>4. ngFetches[i] \in NgFetchRequests BY <1>1 DEF NgFetchesTyped
<1>5. ngTimer' = IF ngFetches[i].refresh THEN [on |-> TRUE, graph |-> ngFetches[i].seen] ELSE ngTimer
  BY DEF G!StartTimer
<1>6. ngTimer' \in [on : BOOLEAN, graph : NgGraphs]
  BY <1>4, <1>5 DEF NgFlags, NgFetchRequests
<1>7. NgRefreshed'
  <2> SUFFICES ASSUME ngBusy
               PROVE ngTimer'.on \/ \E k \in 1..Len(ngFetches') : ngFetches'[k].refresh
    BY DEF NgRefreshed
  <2>1. CASE ngFetches[i].refresh BY <1>5, <2>1
  <2>2. CASE ~ngFetches[i].refresh /\ ngTimer.on BY <1>5, <2>2
  <2>3. CASE ~ngFetches[i].refresh /\ ~ngTimer.on
    <3>1. PICK j \in 1..Len(ngFetches) : ngFetches[j].refresh BY <2>3 DEF NgRefreshed
    <3>2. j # i BY <2>3, <3>1
    <3> QED BY <1>2, <3>1, <3>2
  <2> QED BY <2>1, <2>2, <2>3
<1> QED BY <1>1, <1>2, <1>3, <1>4, <1>6, <1>7

LEMMA NgSettingChanged ==
  ASSUME NgSound, MaxFetches \in Nat, MaxAsks \in Nat, NEW f \in NgFilters, G!ChangeSetting(f)
  PROVE  NgSound'
<1> USE DEF NgSound, NgTypes
<1> DEFINE x == G!Fetch(f, FALSE, G!Empty)
<1>1. /\ Len(ngFetches) < MaxFetches /\ ngFilter' = f /\ ngLoading' = TRUE /\ ngError' = FALSE
      /\ ngFetches' = Append(ngFetches, x)
      /\ UNCHANGED <<ngRaw, ngSel, ngBuilt, ngBusy, ngKnown, ngTimer, ngMixed>>
      /\ G!AskTwice(ngFilter) /\ ngCanvas' = G!Merged(ngRaw', ngFilter', ngBuilt')
  BY DEF G!ChangeSetting, G!Diff
<1>2. x \in NgFetchRequests /\ x.filter = f BY NgEmptyTyped DEF G!Fetch, NgFetchRequests
<1> HIDE DEF x
<1>3. /\ NgFetchesTyped' /\ NgFetched'
      /\ (\E i \in 1..Len(ngFetches) : ngFetches[i].refresh) =>
              \E i \in 1..Len(ngFetches') : ngFetches'[i].refresh
  BY <1>1, <1>2, NgFetchAsked
<1>4. ngCanvas' \in NgGraphs BY <1>1, NgMergedTyped DEF NgData
<1>5. NgData' BY <1>1, <1>4 DEF NgData
<1>6. NgFlags' BY <1>1 DEF NgFlags
<1>7. NgAsksTyped' /\ NgAsked' /\ NgCopied' BY <1>1, <1>5, NgAsksTwice DEF NgData
<1>8. NgRefreshed' BY <1>1, <1>3 DEF NgRefreshed
<1> QED BY <1>3, <1>5, <1>6, <1>7, <1>8

LEMMA NgRefreshAsked ==
  ASSUME NgSound, MaxFetches \in Nat, G!Refresh
  PROVE  NgSound'
<1> USE DEF NgSound, NgTypes
<1> DEFINE seen == G!Merged(ngRaw, ngFilter, ngBuilt)
           x == G!Fetch(ngFilter, TRUE, seen)
<1>1. /\ Len(ngFetches) < MaxFetches /\ ngBusy' = TRUE /\ ngLoading' = TRUE /\ ngError' = FALSE
      /\ ngFetches' = Append(ngFetches, x)
      /\ UNCHANGED <<ngFilter, ngRaw, ngSel, ngKnown, ngBuilt, ngCanvas, ngTimer, ngAsks, ngMixed>>
  BY DEF G!Refresh
<1>2. seen \in NgGraphs BY NgMergedTyped DEF NgData
<1> HIDE DEF seen
<1>3. x \in NgFetchRequests /\ x.filter = ngFilter /\ x.refresh
  BY <1>2 DEF G!Fetch, NgFetchRequests, NgData
<1> HIDE DEF x
<1>4. NgFetchesTyped' /\ NgFetched' /\ \E i \in 1..Len(ngFetches') : ngFetches'[i].refresh
  BY <1>1, <1>3, NgFetchAsked
<1>5. NgData' /\ NgFlags' /\ NgAsksTyped' BY <1>1 DEF NgData, NgFlags, NgAsksTyped
<1>6. NgRefreshed' BY <1>4 DEF NgRefreshed
<1>7. ~ngMixed' => NgAsked' /\ NgCopied' BY <1>1 DEF NgAsked, NgCopied
<1> QED BY <1>4, <1>5, <1>6, <1>7

LEMMA NgFetchAnswered ==
  ASSUME NgSound, MaxFetches \in Nat, MaxAsks \in Nat, NEW i \in 1..MaxFetches, G!FetchAnswered(i)
  PROVE  NgSound'
<1> USE DEF NgSound, NgTypes
<1>1. /\ i <= Len(ngFetches) /\ ngLoading' = FALSE
      /\ UNCHANGED <<ngFilter, ngSel, ngBuilt, ngError, ngBusy, ngKnown>>
      /\ G!AskTwice(ngFetches[i].filter) /\ ngCanvas' = G!Merged(ngRaw', ngFilter', ngBuilt')
      /\ G!StartTimer(ngFetches[i])
      /\ ngFetches' = G!Rest(ngFetches, i) /\ ngMixed' = (ngMixed \/ i > 1)
  BY DEF G!FetchAnswered, G!Diff
<1>2. /\ NgFetchesTyped' /\ NgRefreshed' /\ ngTimer' \in [on : BOOLEAN, graph : NgGraphs]
      /\ ngFetches[i] \in NgFetchRequests /\ Len(ngFetches) \in Nat
      /\ Len(ngFetches') = Len(ngFetches) - 1
      /\ i = 1 /\ Len(ngFetches') > 0 => ngFetches'[Len(ngFetches')] = ngFetches[Len(ngFetches)]
  BY <1>1, NgFetchOver
<1>3. ngRaw' \in G!Datas /\ ngRaw'.filter = ngFetches[i].filter /\ ngFetches[i].filter \in NgFilters
  <2>1. PICK v \in NgVersions : ngRaw' = G!Data(ngFetches[i].filter, v) BY DEF G!FetchAnswered
  <2>2. ngFetches[i].filter \in NgFilters BY <1>2 DEF NgFetchRequests
  <2> QED BY <2>1, <2>2 DEF G!Data, G!Datas
<1>4. ngCanvas' \in NgGraphs BY <1>1, <1>3, NgMergedTyped DEF NgData
<1>5. NgData' BY <1>1, <1>3, <1>4 DEF NgData
<1>6. NgFlags' BY <1>1, <1>2 DEF NgFlags
<1>7. NgAsksTyped' /\ NgAsked' /\ NgCopied' BY <1>1, <1>3, <1>5, NgAsksTwice DEF NgData
<1>8. ASSUME ~ngMixed' PROVE NgFetched'
  <2>0. ~ngMixed /\ ~(i > 1) BY <1>1, <1>8
  <2>1. i = 1 /\ NgFetched BY <2>0
  <2>2. CASE Len(ngFetches') > 0
    BY <1>1, <1>2, <2>1, <2>2 DEF NgFetched
  <2>3. CASE Len(ngFetches') = 0
    <3>1. Len(ngFetches) = 1 BY <1>2, <2>3
    <3> QED BY <1>1, <1>3, <2>1, <2>3, <3>1 DEF NgFetched
  <2> QED BY <1>1, <1>2, <2>2, <2>3
<1> QED BY <1>2, <1>5, <1>6, <1>7, <1>8

LEMMA NgFetchFails ==
  ASSUME NgSound, MaxFetches \in Nat, NEW i \in 1..MaxFetches, G!FetchFails(i)
  PROVE  NgSound'
<1> USE DEF NgSound, NgTypes
<1>1. /\ i <= Len(ngFetches) /\ ngError' = TRUE /\ ngLoading' = FALSE /\ G!StartTimer(ngFetches[i])
      /\ ngFetches' = G!Rest(ngFetches, i) /\ ngMixed' = (ngMixed \/ i > 1)
      /\ UNCHANGED <<ngFilter, ngRaw, ngBusy, ngSel, ngKnown, ngBuilt, ngCanvas, ngAsks>>
  BY DEF G!FetchFails
<1>2. /\ NgFetchesTyped' /\ NgRefreshed' /\ ngTimer' \in [on : BOOLEAN, graph : NgGraphs]
      /\ Len(ngFetches) \in Nat /\ Len(ngFetches') = Len(ngFetches) - 1
      /\ i = 1 /\ Len(ngFetches') > 0 => ngFetches'[Len(ngFetches')] = ngFetches[Len(ngFetches)]
  BY <1>1, NgFetchOver
<1>3. NgData' /\ NgAsksTyped' BY <1>1 DEF NgData, NgAsksTyped
<1>4. NgFlags' BY <1>1, <1>2 DEF NgFlags
<1>5. ASSUME ~ngMixed' PROVE NgFetched'
  <2>1. ~ngMixed /\ ~(i > 1) BY <1>1, <1>5
  <2>2. i = 1 /\ NgFetched BY <2>1
  <2> QED BY <1>1, <1>2, <2>2 DEF NgFetched
<1>6. ~ngMixed' => NgAsked' /\ NgCopied' BY <1>1 DEF NgAsked, NgCopied
<1> QED BY <1>2, <1>3, <1>4, <1>5, <1>6

LEMMA NgTimerCopies ==
  ASSUME NgSound, G!TimerCopies
  PROVE  NgSound'
<1> USE DEF NgSound, NgTypes
<1>1. /\ ngCanvas' = ngTimer.graph /\ ngBusy' = FALSE /\ ngTimer' = G!NoTimer
      /\ ngMixed' = (ngMixed \/ (ngAsks = <<>> /\ ngTimer.graph # G!Merged(ngRaw, ngFilter, ngBuilt)))
      /\ UNCHANGED <<ngFilter, ngRaw, ngLoading, ngError, ngSel, ngKnown, ngBuilt, ngFetches, ngAsks>>
  BY DEF G!TimerCopies
<1>2. NgData' BY <1>1 DEF NgData, NgFlags
<1>3. G!NoTimer \in [on : BOOLEAN, graph : NgGraphs] BY NgEmptyTyped DEF G!NoTimer
<1>4. ngMixed' \in BOOLEAN BY <1>1
<1>5. NgFlags' BY <1>1, <1>3, <1>4 DEF NgFlags
<1>6. NgFetchesTyped' /\ NgAsksTyped' BY <1>1 DEF NgFetchesTyped, NgAsksTyped
<1>7. NgRefreshed' BY <1>1 DEF NgRefreshed
<1>8. ASSUME ~ngMixed' PROVE NgFetched' /\ NgAsked' /\ NgCopied'
  <2>1. NgFetched' /\ NgAsked' BY <1>1, <1>8 DEF NgFetched, NgAsked
  <2>2. Len(ngAsks) = 0 => ngAsks = <<>> BY DEF NgAsksTyped
  <2>3. NgCopied' BY <1>1, <1>8, <2>2 DEF NgCopied
  <2> QED BY <2>1, <2>3
<1> QED BY <1>2, <1>5, <1>6, <1>7, <1>8

\* The answers about interfaces.
LEMMA NgAskOver ==
  ASSUME NgAsksTyped, NEW i \in 1..MaxAsks, MaxAsks \in Nat, i <= Len(ngAsks)
  PROVE  /\ G!Rest(ngAsks, i) \in Seq(NgAskRequests) /\ ngAsks[i] \in NgAskRequests
         /\ Len(ngAsks) \in Nat
         /\ Len(G!Rest(ngAsks, i)) = Len(ngAsks) - 1 /\ Len(G!Rest(ngAsks, i)) <= MaxAsks
         /\ i = 1 /\ Len(ngAsks) > 1 => G!Rest(ngAsks, i)[Len(ngAsks) - 1] = ngAsks[Len(ngAsks)]
<1>1. i \in 1..Len(ngAsks) /\ Len(ngAsks) \in Nat BY DEF NgAsksTyped
<1>2. /\ G!Rest(ngAsks, i) \in Seq(NgAskRequests) /\ Len(G!Rest(ngAsks, i)) = Len(ngAsks) - 1
      /\ i = 1 /\ Len(ngAsks) > 1 => G!Rest(ngAsks, i)[Len(ngAsks) - 1] = ngAsks[Len(ngAsks)]
  BY <1>1, NgRest DEF NgAsksTyped
<1>3. ngAsks[i] \in NgAskRequests BY <1>1 DEF NgAsksTyped
<1>4. Len(G!Rest(ngAsks, i)) <= MaxAsks BY <1>1, <1>2 DEF NgAsksTyped
<1> QED BY <1>1, <1>2, <1>3, <1>4

LEMMA NgSelected ==
  ASSUME NgSound, MaxAsks \in Nat, G!SelectAll \/ \E n \in NgIfaces : G!ToggleIface(n)
  PROVE  NgSound'
<1> USE DEF NgSound, NgTypes
<1>1. /\ UNCHANGED <<ngFilter, ngRaw, ngBuilt>> /\ G!AskAgain(ngAsks)
      /\ UNCHANGED <<ngLoading, ngError, ngBusy, ngKnown, ngCanvas, ngTimer, ngFetches, ngMixed>>
  BY DEF G!SelectAll, G!ToggleIface
<1>2. ngSel' \in SUBSET NgIfaces
  <2>1. CASE G!SelectAll BY <2>1 DEF G!SelectAll, NgData
  <2>2. ASSUME NEW n \in NgIfaces, G!ToggleIface(n) PROVE ngSel' \in SUBSET NgIfaces
    BY <2>2 DEF G!ToggleIface, NgData
  <2> QED BY <2>1, <2>2
<1>3. NgData' /\ NgFlags' /\ NgFetchesTyped' BY <1>1, <1>2 DEF NgData, NgFlags, NgFetchesTyped
<1>4. NgAsksTyped' /\ NgAsked' /\ NgCopied' BY <1>1, <1>3, NgAsksAgain DEF NgAsksTyped, NgData
<1>5. NgRefreshed' BY <1>1 DEF NgRefreshed
<1>6. ~ngMixed' => NgFetched' BY <1>1 DEF NgFetched
<1> QED BY <1>3, <1>4, <1>5, <1>6

LEMMA NgIfacesFail ==
  ASSUME NgSound, MaxAsks \in Nat, NEW i \in 1..MaxAsks, G!IfacesFail(i)
  PROVE  NgSound'
<1> USE DEF NgSound, NgTypes
<1>1. /\ i <= Len(ngAsks) /\ ngKnown' = {} /\ ngBuilt' = G!NotBuilt
      /\ ngCanvas' = G!Merged(ngRaw', ngFilter', ngBuilt')
      /\ ngAsks' = G!Rest(ngAsks, i) /\ ngMixed' = (ngMixed \/ i > 1)
      /\ UNCHANGED <<ngFilter, ngRaw, ngLoading, ngError, ngBusy, ngSel, ngTimer, ngFetches>>
  BY DEF G!IfacesFail, G!Diff
<1>2. /\ ngAsks' \in Seq(NgAskRequests) /\ Len(ngAsks) \in Nat
      /\ Len(ngAsks') = Len(ngAsks) - 1 /\ Len(ngAsks') <= MaxAsks
      /\ i = 1 /\ Len(ngAsks) > 1 => ngAsks'[Len(ngAsks) - 1] = ngAsks[Len(ngAsks)]
  BY <1>1, NgAskOver
<1>3. ngCanvas' \in NgGraphs BY <1>1, NgMergedTyped, NgEmptyTyped DEF NgData
<1>4. NgData' BY <1>1, <1>3, NgEmptyTyped DEF NgData
<1>5. ngMixed' \in BOOLEAN BY <1>1
<1>6. NgFlags' /\ NgFetchesTyped' /\ NgAsksTyped'
  BY <1>1, <1>2, <1>5 DEF NgFlags, NgFetchesTyped, NgAsksTyped
<1>7. NgRefreshed' BY <1>1 DEF NgRefreshed
<1>8. NgCopied' BY <1>1 DEF NgCopied
<1>9. ASSUME ~ngMixed' PROVE NgFetched' /\ NgAsked'
  <2>1. ~ngMixed /\ ~(i > 1) BY <1>1, <1>9
  <2>2. i = 1 /\ NgFetched /\ NgAsked BY <2>1
  <2>3. NgFetched' BY <1>1, <2>2 DEF NgFetched
  <2>4. NgAsked' BY <1>1, <1>2, <2>2 DEF NgAsked
  <2> QED BY <2>3, <2>4
<1> QED BY <1>4, <1>6, <1>7, <1>8, <1>9

LEMMA NgIfacesAnswered ==
  ASSUME NgSound, MaxAsks \in Nat, NEW i \in 1..MaxAsks, NEW known \in SUBSET NgIfaces,
         G!IfacesAnswered(i, known)
  PROVE  NgSound'
<1> USE DEF NgSound, NgTypes
<1> DEFINE a == ngAsks[i]
           sel == G!Selectable(known, a.sel)
           rest == G!Rest(ngAsks, i)
<1>1. /\ i <= Len(ngAsks) /\ ngKnown' = known
      /\ ngBuilt' = G!Built(sel, a.raw, a.nodes, a.filter)
      /\ ngCanvas' = G!Merged(ngRaw', ngFilter', ngBuilt')
      /\ ngMixed' = (ngMixed \/ i > 1)
      /\ UNCHANGED <<ngFilter, ngRaw, ngLoading, ngError, ngBusy, ngTimer, ngFetches>>
  BY DEF G!IfacesAnswered, G!Diff
<1>2. \/ sel # a.sel /\ ngSel' = sel /\ G!AskAgain(rest)
      \/ sel = a.sel /\ ngSel' = ngSel /\ ngAsks' = rest
  BY DEF G!IfacesAnswered
<1>3. /\ rest \in Seq(NgAskRequests) /\ a \in NgAskRequests /\ Len(ngAsks) \in Nat
      /\ Len(rest) = Len(ngAsks) - 1 /\ Len(rest) <= MaxAsks
      /\ i = 1 /\ Len(ngAsks) > 1 => rest[Len(ngAsks) - 1] = ngAsks[Len(ngAsks)]
  BY <1>1, NgAskOver
<1>4. /\ sel \subseteq known /\ (known # {} => sel # {}) BY DEF G!Selectable
<1>5. a.raw \in G!Datas /\ a.nodes \in NgFilters /\ a.filter \in NgFilters BY <1>3 DEF NgAskRequests
<1>6. i = 1 /\ Len(ngAsks) = 1 => a = ngAsks[Len(ngAsks)] OBVIOUS
<1> HIDE DEF a, sel, rest
<1>7. ngBuilt' \in G!Builts BY <1>1, <1>4, <1>5 DEF G!Built, G!Builts
<1>8. ngCanvas' \in NgGraphs BY <1>1, <1>7, NgMergedTyped DEF NgData
<1>9. ngSel' \in SUBSET NgIfaces BY <1>2, <1>4 DEF NgData
<1>10. NgData' BY <1>1, <1>7, <1>8, <1>9 DEF NgData
<1>11. ngMixed' \in BOOLEAN BY <1>1
<1>12. NgFlags' /\ NgFetchesTyped' BY <1>1, <1>11 DEF NgFlags, NgFetchesTyped
<1>13. NgRefreshed' BY <1>1 DEF NgRefreshed
<1>14. NgCopied' BY <1>1 DEF NgCopied
<1>15. CASE sel # a.sel
  <2>1. NgAsksTyped' /\ NgAsked' BY <1>2, <1>3, <1>10, <1>15, NgAsksAgain DEF NgData
  <2>2. ~ngMixed' => NgFetched' BY <1>1 DEF NgFetched
  <2> QED BY <1>10, <1>12, <1>13, <1>14, <2>1, <2>2
<1>16. CASE sel = a.sel
  <2>1. ngAsks' = rest /\ ngSel' = ngSel BY <1>2, <1>16
  <2>2. NgAsksTyped' BY <1>3, <2>1 DEF NgAsksTyped
  <2>3. ASSUME ~ngMixed' PROVE NgFetched' /\ NgAsked'
    <3>1. ~ngMixed /\ ~(i > 1) BY <1>1, <2>3
    <3>2. i = 1 /\ NgFetched /\ NgAsked BY <3>1
    <3>3. NgFetched' BY <1>1, <3>2 DEF NgFetched
    <3>4. CASE Len(ngAsks') > 0 BY <1>1, <1>3, <2>1, <3>2, <3>3, <3>4 DEF NgAsked
    <3>5. CASE Len(ngAsks') = 0
      <4>1. Len(ngAsks) = 1 BY <1>3, <2>1, <3>5
      <4>2. a = G!Ask(ngRaw, ngFilter, ngFilter, ngSel) BY <1>6, <3>2, <4>1 DEF NgAsked
      <4>3. a.raw = ngRaw /\ a.nodes = ngFilter /\ a.filter = ngFilter /\ a.sel = ngSel BY <4>2 DEF G!Ask
      <4>4. ngBuilt' = G!Built(ngSel', ngRaw', ngFilter', ngFilter')
        BY <1>1, <1>16, <2>1, <4>3
      <4>5. ngKnown' # {} => ngSel' # {} /\ ngSel' \subseteq ngKnown'
        BY <1>1, <1>4, <1>16, <2>1, <4>3
      <4> QED BY <3>3, <3>5, <4>4, <4>5 DEF NgAsked
    <3> QED BY <1>3, <2>1, <3>4, <3>5
  <2> QED BY <1>10, <1>12, <1>13, <1>14, <2>2, <2>3
<1> QED BY <1>15, <1>16

LEMMA NgStep ==
  ASSUME MaxFetches \in Nat, MaxAsks \in Nat, NgLists \subseteq SUBSET NgIfaces,
         NgSound, [G!NgNext]_(G!ngVars)
  PROVE  NgSound'
<1>1. CASE UNCHANGED G!ngVars
  BY <1>1 DEF G!ngVars, NgSound, NgTypes, NgData, NgFlags, NgFetchesTyped, NgAsksTyped, NgRefreshed,
              NgFetched, NgAsked, NgCopied
<1>2. CASE G!NgNext
  <2>1. CASE \E f \in NgFilters : G!ChangeSetting(f) BY <2>1, NgSettingChanged
  <2>2. CASE G!Refresh BY <2>2, NgRefreshAsked
  <2>3. CASE G!TimerCopies BY <2>3, NgTimerCopies
  <2>4. CASE G!SelectAll \/ \E n \in NgIfaces : G!ToggleIface(n) BY <2>4, NgSelected
  <2>5. CASE \E i \in 1..MaxFetches : G!FetchAnswered(i) \/ G!FetchFails(i)
    BY <2>5, NgFetchAnswered, NgFetchFails
  <2>6. CASE \E i \in 1..MaxAsks : G!IfacesFail(i) \/ \E known \in NgLists : G!IfacesAnswered(i, known)
    BY <2>6, NgIfacesFail, NgIfacesAnswered
  <2> QED BY <1>2, <2>1, <2>2, <2>3, <2>4, <2>5, <2>6 DEF G!NgNext
<1> QED BY <1>1, <1>2

LEMMA NgStarts ==
  ASSUME MaxFetches \in Nat \ {0}, MaxAsks \in Nat \ {0}, G!NgInit
  PROVE  NgSound
<1> DEFINE x == G!Fetch(ngFilter, FALSE, G!Empty)
           a == G!Ask(G!NoData, ngFilter, ngFilter, {})
<1>1. /\ ngFilter \in NgFilters /\ ngRaw = G!NoData
      /\ ngLoading = TRUE /\ ngError = FALSE /\ ngBusy = FALSE
      /\ ngSel = {} /\ ngKnown = {} /\ ngBuilt = G!NotBuilt
      /\ ngCanvas = G!Merged(G!NoData, ngFilter, G!NotBuilt) /\ ngTimer = G!NoTimer
      /\ ngFetches = <<x>> /\ ngAsks = <<a>> /\ ngMixed = FALSE
  BY DEF G!NgInit
<1>2. x \in NgFetchRequests /\ x.filter = ngFilter
  BY <1>1, NgEmptyTyped DEF G!Fetch, NgFetchRequests
<1>3. a \in NgAskRequests /\ a = G!Ask(ngRaw, ngFilter, ngFilter, ngSel) BY <1>1, NgAskTyped, NgEmptyTyped
<1> HIDE DEF x, a
<1>4. ngCanvas \in NgGraphs BY <1>1, NgMergedTyped, NgEmptyTyped
<1>5. NgData BY <1>1, <1>4, NgEmptyTyped DEF NgData
<1>6. NgFlags BY <1>1, NgEmptyTyped DEF NgFlags, G!NoTimer
<1>7. /\ ngFetches \in Seq(NgFetchRequests) /\ Len(ngFetches) = 1 /\ ngFetches[1] = x
      /\ ngAsks \in Seq(NgAskRequests) /\ Len(ngAsks) = 1 /\ ngAsks[1] = a
  BY <1>1, <1>2, <1>3
<1>8. NgFetchesTyped /\ NgAsksTyped BY <1>7 DEF NgFetchesTyped, NgAsksTyped
<1>9. NgRefreshed BY <1>1 DEF NgRefreshed
<1>10. NgFetched BY <1>2, <1>7 DEF NgFetched
<1>11. NgAsked BY <1>3, <1>7 DEF NgAsked
<1>12. NgCopied BY <1>7 DEF NgCopied
<1> QED BY <1>5, <1>6, <1>8, <1>9, <1>10, <1>11, <1>12 DEF NgSound, NgTypes

LEMMA NgShows == NgSound => G!NgTypeOK /\ G!SettledCanvasIsChoice
<1> SUFFICES ASSUME NgSound PROVE G!NgTypeOK /\ G!SettledCanvasIsChoice OBVIOUS
<1>1. G!NgTypeOK
  <2>1. {ngLoading, ngError, ngBusy, ngMixed, ngTimer.on} \subseteq BOOLEAN /\ ngTimer.graph \in NgGraphs
    BY DEF NgSound, NgTypes, NgFlags
  <2> QED BY <2>1 DEF NgSound, NgTypes, NgData, NgFetchesTyped, NgAsksTyped, NgGraphs, G!NgTypeOK
<1>2. ASSUME G!Settled, ~ngMixed
      PROVE  /\ ngCanvas = G!Merged(ngRaw, ngFilter, ngBuilt)
             /\ ~ngError => ngRaw.filter = ngFilter
             /\ ngBuilt \in {G!NotBuilt, G!Built(ngSel, ngRaw, ngFilter, ngFilter)}
             /\ ngKnown # {} => ngSel # {} /\ ngSel \subseteq ngKnown
             /\ ~ngLoading /\ ~ngBusy
  <2>1. ngFetches = <<>> /\ ngAsks = <<>> /\ ~ngTimer.on BY <1>2 DEF G!Settled
  <2>2. Len(ngFetches) = 0 /\ Len(ngAsks) = 0 BY <2>1
  <2>3. NgFetched /\ NgAsked /\ NgCopied /\ NgRefreshed BY <1>2 DEF NgSound
  <2>4. ~ngBusy BY <2>1, <2>2, <2>3 DEF NgRefreshed
  <2>5. ~ngLoading /\ (~ngError => ngRaw.filter = ngFilter) BY <2>2, <2>3 DEF NgFetched
  <2> QED BY <2>2, <2>3, <2>4, <2>5 DEF NgAsked, NgCopied
<1> QED BY <1>1, <1>2 DEF G!SettledCanvasIsChoice

-----------------------------------------------------------------------------
(* The transform: what is drawn is what was heard.                         *)

\* A set of naturals with 0 and the successor of each of its members is all of them.
LEMMA AllNaturals ==
  ASSUME NEW U \in SUBSET Nat, 0 \in U, \A n \in U : n + 1 \in U
  PROVE  U = Nat
<1> DEFINE R == OpToRel(<, Nat)
           Rest == Nat \ U
<1>1. R = {ss \in Nat \X Nat : ss[1] < ss[2]} BY DEF OpToRel
<1>2. IsWellFoundedOn(R, Nat) BY NatLessThanWellFounded
<1> HIDE DEF R
<1>3. SUFFICES ASSUME Rest # {} PROVE FALSE OBVIOUS
<1>4. PICK x \in Rest : \A y \in Rest : <<y, x>> \notin R
  <2>1. Rest \subseteq Nat OBVIOUS
  <2> HIDE DEF Rest
  <2> QED BY <1>2, <1>3, <2>1, WFMin
<1>5. x \in Nat /\ x - 1 \in Nat /\ x - 1 \in Rest OBVIOUS
<1>6. <<x - 1, x>> \in R BY <1>1, <1>5
<1> QED BY <1>4, <1>5, <1>6

TfEdgeRecords == [there : BOOLEAN, mqtt : BOOLEAN, hops : 0..MaxEdgeHops, recent : BOOLEAN]

TfGiven ==
  /\ tfEdges \in [T!Pairs -> TfEdgeRecords]
  /\ tfRecent \subseteq TfNodes

\* An edge that is drawn was told, over the air, within the range and as asked.
TfTold(e) ==
  /\ e \in T!Pairs /\ e[1] # e[2] /\ T!InRange(e) /\ ~tfEdges[e].mqtt
  /\ tfSettings.pairs => T!InRange(T!Swap(e))
  /\ tfSettings.direct => tfEdges[e].hops = 0

LEMMA TfDrawnIsTold ==
  ASSUME TfGiven
  PROVE  /\ T!Drawn = {e \in T!Pairs : TfTold(e)}
         /\ \A e \in T!Drawn : T!Edges[e] = tfEdges[e]
<1> DEFINE kept == {e \in T!Pairs : e[1] # e[2] /\ T!InRange(e)}
           more == IF tfSettings.force THEN {T!Swap(f) : f \in T!Filtered} ELSE {}
           of(e) == IF e \in T!Filtered THEN tfEdges[e] ELSE [tfEdges[T!Swap(e)] EXCEPT !.mqtt = TRUE]
<1>1. T!Filtered = IF tfSettings.pairs THEN {e \in kept : T!Swap(e) \in kept} ELSE kept
  BY DEF T!Filtered
<1>2. ASSUME NEW e \in T!Pairs
      PROVE  /\ T!Swap(e) \in T!Pairs /\ T!Swap(T!Swap(e)) = e
             /\ T!Swap(e)[1] = e[2] /\ T!Swap(e)[2] = e[1]
  BY DEF T!Pairs, T!Swap
<1>3. T!Filtered \subseteq T!Pairs BY <1>1
<1>4. more \subseteq T!Pairs BY <1>2, <1>3
<1>5. T!Edges = [e \in T!Filtered \cup more |-> of(e)] BY DEF T!Edges
<1>6. DOMAIN T!Edges = T!Filtered \cup more BY <1>5
<1>7. \A e \in T!Filtered : T!Edges[e] = tfEdges[e] BY <1>5
<1>8. ASSUME NEW e \in more, e \notin T!Filtered PROVE T!Edges[e].mqtt
  <2>1. T!Edges[e] = [tfEdges[T!Swap(e)] EXCEPT !.mqtt = TRUE] BY <1>5, <1>8
  <2>2. T!Swap(e) \in T!Pairs BY <1>2, <1>4, <1>8
  <2>3. tfEdges[T!Swap(e)] \in TfEdgeRecords BY <2>2 DEF TfGiven
  <2> QED BY <2>1, <2>3 DEF TfEdgeRecords
<1>9. T!Drawn = {e \in DOMAIN T!Edges : ~T!Edges[e].mqtt /\ (tfSettings.direct => T!Edges[e].hops = 0)}
  BY DEF T!Drawn
<1>10. \A e \in T!Pairs : e \in T!Filtered <=>
         e[1] # e[2] /\ T!InRange(e) /\ (tfSettings.pairs => T!InRange(T!Swap(e)))
  BY <1>1, <1>2
<1> HIDE DEF kept, more, of
<1>11. T!Drawn \subseteq T!Filtered BY <1>6, <1>8, <1>9
<1>12. \A e \in T!Filtered : e \in T!Drawn <=> ~tfEdges[e].mqtt /\ (tfSettings.direct => tfEdges[e].hops = 0)
  BY <1>6, <1>7, <1>9
<1>13. \A e \in T!Pairs : e \in T!Drawn <=> TfTold(e)
  BY <1>10, <1>11, <1>12 DEF TfTold
<1> QED BY <1>3, <1>7, <1>11, <1>13
TfHops(e) == tfEdges[e].hops
TfAt(e, i) == IF i = 0 THEN <<e[1]>> ELSE IF i = TfHops(e) + 1 THEN <<e[2]>> ELSE T!Hidden(e, i)
TfLink(e, i) == [from |-> TfAt(e, i), to |-> TfAt(e, i + 1), hops |-> 0, segment |-> TfHops(e) > 0]
TfWhole(e) == [from |-> <<e[1]>>, to |-> <<e[2]>>, hops |-> TfHops(e), segment |-> FALSE]

\* What was drawn: the nodes, the hidden nodes and the broker,
TfNodesAre ==
  \A n : n \in tfGraph.nodes <=>
    \/ \E m \in tfRecent : n = <<m>>
    \/ \E e \in T!Drawn : \E i \in 1..TfHops(e) : n = T!Hidden(e, i)
    \/ n = T!Broker /\ tfView = "map" /\ T!SelfDirected # {}

\* the chain of each edge, and on the map the edge as a whole and the links of the broker.
TfLinksAre ==
  \A l : l \in tfGraph.links <=>
    \/ \E e \in T!Drawn : \E i \in 0..TfHops(e) : l = TfLink(e, i)
    \/ tfView = "map" /\ \E e \in T!Drawn : l = TfWhole(e)
    \/ tfView = "map" /\ l \in T!BrokerLinks

TfSound ==
  /\ TfGiven
  /\ IF tfDrawn THEN TfNodesAre /\ TfLinksAre ELSE tfGraph = [nodes |-> {}, links |-> {}]

\* The names of nodes are told apart.
LEMMA TfNames ==
  /\ \A a, b : <<a>> = <<b>> => a = b
  /\ \A e, i, a : T!Hidden(e, i) # <<a>>
  /\ \A e, f \in T!Pairs : \A i, j : T!Hidden(e, i) = T!Hidden(f, j) => e = f /\ i = j
  /\ \A a : Len(<<a>>) = 1
  /\ \A e, i : Len(T!Hidden(e, i)) = 4
<1>1. \A a, b : <<a>> = <<b>> => a = b OBVIOUS
<1>2. \A a : Len(<<a>>) = 1 OBVIOUS
<1>3. \A e, i : Len(T!Hidden(e, i)) = 4 BY DEF T!Hidden
<1>4. ASSUME NEW e, NEW i, NEW a PROVE T!Hidden(e, i) # <<a>>
  <2>1. Len(T!Hidden(e, i)) = 4 /\ Len(<<a>>) = 1 BY <1>2, <1>3
  <2> QED BY <2>1
<1>5. ASSUME NEW e \in T!Pairs, NEW f \in T!Pairs, NEW i, NEW j, T!Hidden(e, i) = T!Hidden(f, j)
      PROVE  e = f /\ i = j
  <2>1. e[1] = f[1] /\ e[2] = f[2] /\ i = j BY <1>5 DEF T!Hidden
  <2> QED BY <2>1 DEF T!Pairs
<1> QED BY <1>1, <1>2, <1>3, <1>4, <1>5

LEMMA TfHiddenNames ==
  ASSUME NEW e \in T!Pairs, NEW f \in T!Pairs, NEW i, NEW j, T!Hidden(e, i) = T!Hidden(f, j)
  PROVE  e = f /\ i = j
<1>1. e[1] = f[1] /\ e[2] = f[2] /\ i = j BY DEF T!Hidden
<1> QED BY <1>1 DEF T!Pairs

LEMMA TfDrawing ==
  ASSUME TfGiven, T!Transform
  PROVE  TfNodesAre' /\ TfLinksAre'
<1> DEFINE hidden == UNION {{T!Hidden(e, i) : i \in 1..T!Edges[e].hops} : e \in T!Drawn}
           broker == IF tfView = "map" /\ T!SelfDirected # {} THEN {T!Broker} ELSE {}
           chains == UNION {T!Chain(e) : e \in T!Drawn}
           wholes == IF tfView = "map" THEN {T!Whole(e) : e \in T!Drawn} \cup T!BrokerLinks ELSE {}
<1>1. /\ tfGraph' = [nodes |-> {<<n>> : n \in tfRecent} \cup hidden \cup broker,
                     links |-> chains \cup wholes]
      /\ UNCHANGED <<tfView, tfSettings, tfRecent, tfEdges>>
  <2>1. UNCHANGED <<tfView, tfSettings, tfRecent, tfEdges>> BY DEF T!Transform
  <2>2. tfGraph' = [nodes |-> {<<n>> : n \in tfRecent} \cup hidden \cup broker, links |-> chains \cup wholes]
    BY DEF T!Transform
  <2> QED BY <2>1, <2>2
<1>2. /\ \A e \in T!Drawn : T!Edges[e] = tfEdges[e] BY TfDrawnIsTold
<1>3. \A n : n \in hidden <=> \E e \in T!Drawn : \E i \in 1..TfHops(e) : n = T!Hidden(e, i)
  BY <1>2 DEF TfHops
<1>4. \A n : n \in broker <=> n = T!Broker /\ tfView = "map" /\ T!SelfDirected # {} OBVIOUS
<1>5. ASSUME NEW e \in T!Drawn PROVE T!Chain(e) = {TfLink(e, i) : i \in 0..TfHops(e)}
  <2>1. T!Edges[e].hops = TfHops(e) BY <1>2 DEF TfHops
  <2> QED BY <2>1 DEF T!Chain, TfLink, TfAt
<1>6. \A l : l \in chains <=> \E e \in T!Drawn : \E i \in 0..TfHops(e) : l = TfLink(e, i)
  BY <1>5
<1>7. \A e \in T!Drawn : T!Whole(e) = TfWhole(e) BY <1>2 DEF T!Whole, TfWhole, TfHops
<1>8. \A l : l \in wholes <=> tfView = "map" /\ ((\E e \in T!Drawn : l = TfWhole(e)) \/ l \in T!BrokerLinks)
  BY <1>7
<1>9. T!Drawn' = T!Drawn /\ T!SelfDirected' = T!SelfDirected /\ T!BrokerLinks' = T!BrokerLinks
  <2>1. T!SelfDirected' = T!SelfDirected BY <1>1 DEF T!SelfDirected, T!InRange
  <2>2. T!BrokerLinks' = T!BrokerLinks BY <2>1 DEF T!BrokerLinks
  <2>3. T!Filtered' = T!Filtered BY <1>1 DEF T!Filtered, T!InRange
  <2>4. T!Edges' = T!Edges BY <1>1, <2>3 DEF T!Edges
  <2>5. T!Drawn' = T!Drawn BY <1>1, <2>4 DEF T!Drawn
  <2> QED BY <2>1, <2>2, <2>5
<1>10. \A e, i : TfHops(e)' = TfHops(e) /\ TfLink(e, i)' = TfLink(e, i) /\ TfWhole(e)' = TfWhole(e)
  BY <1>1 DEF TfHops, TfLink, TfAt, TfWhole
<1> HIDE DEF hidden, broker, chains, wholes
<1>11. tfGraph'.nodes = {<<n>> : n \in tfRecent} \cup hidden \cup broker /\ tfGraph'.links = chains \cup wholes
  BY <1>1
<1>12. TfNodesAre' BY <1>1, <1>3, <1>4, <1>9, <1>10, <1>11 DEF TfNodesAre
<1>13. TfLinksAre' BY <1>1, <1>6, <1>8, <1>9, <1>10, <1>11 DEF TfLinksAre
<1> QED BY <1>12, <1>13

\* Where a link of a chain begins and ends.
LEMMA TfLinkEnds ==
  ASSUME TfGiven
  PROVE  \A e \in T!Drawn :
           /\ e \in T!Pairs /\ TfHops(e) \in 0..MaxEdgeHops /\ TfHops(e) \in Nat
           /\ \A i \in 0..TfHops(e) :
                /\ i \in Nat /\ TfLink(e, i).hops = 0
                /\ i = 0 => TfLink(e, i).from = <<e[1]>>
                /\ i # 0 => TfLink(e, i).from = T!Hidden(e, i)
                /\ i = TfHops(e) => TfLink(e, i).to = <<e[2]>>
                /\ i # TfHops(e) => TfLink(e, i).to = T!Hidden(e, i + 1)
<1> USE TransformAssumption
<1> SUFFICES ASSUME NEW e \in T!Drawn
             PROVE  /\ e \in T!Pairs /\ TfHops(e) \in 0..MaxEdgeHops /\ TfHops(e) \in Nat
                    /\ \A i \in 0..TfHops(e) :
                         /\ i \in Nat /\ TfLink(e, i).hops = 0
                         /\ i = 0 => TfLink(e, i).from = <<e[1]>>
                         /\ i # 0 => TfLink(e, i).from = T!Hidden(e, i)
                         /\ i = TfHops(e) => TfLink(e, i).to = <<e[2]>>
                         /\ i # TfHops(e) => TfLink(e, i).to = T!Hidden(e, i + 1)
  OBVIOUS
<1>1. e \in T!Pairs BY TfDrawnIsTold
<1>2. TfHops(e) \in 0..MaxEdgeHops BY <1>1 DEF TfHops, TfGiven, TfEdgeRecords
<1>3. ASSUME NEW i \in 0..TfHops(e)
      PROVE  /\ i \in Nat /\ TfLink(e, i).hops = 0
             /\ i = 0 => TfLink(e, i).from = <<e[1]>>
             /\ i # 0 => TfLink(e, i).from = T!Hidden(e, i)
             /\ i = TfHops(e) => TfLink(e, i).to = <<e[2]>>
             /\ i # TfHops(e) => TfLink(e, i).to = T!Hidden(e, i + 1)
  <2>1. i \in Int /\ i # TfHops(e) + 1 /\ i + 1 # 0 /\ (i + 1 = TfHops(e) + 1 <=> i = TfHops(e))
    BY <1>2
  <2>2. TfAt(e, i) = IF i = 0 THEN <<e[1]>> ELSE T!Hidden(e, i) BY <2>1 DEF TfAt
  <2>3. TfAt(e, i + 1) = IF i = TfHops(e) THEN <<e[2]>> ELSE T!Hidden(e, i + 1) BY <2>1 DEF TfAt
  <2> QED BY <1>2, <2>2, <2>3 DEF TfLink
<1> QED BY <1>1, <1>2, <1>3

LEMMA TfSegment ==
  \A e, i : ~TfLink(e, i).segment => ~(TfHops(e) > 0)
<1> TAKE e, i
<1>1. TfLink(e, i).segment = (TfHops(e) > 0) BY Zenon DEF TfLink
<1> QED BY <1>1, Zenon

\* A link of the broker ends there, or begins.
LEMMA TfBrokerEnds ==
  ASSUME NEW l \in T!BrokerLinks
  PROVE  /\ \E n \in T!SelfDirected : \/ l.from = <<n>> /\ l.to = T!Broker
                                      \/ l.from = T!Broker /\ l.to = <<n>>
         /\ l.hops = 1 /\ ~l.segment
BY DEF T!BrokerLinks

LEMMA TfHiddenAre ==
  ASSUME TfGiven, TfNodesAre
  PROVE  \A n : n \in T!HiddenNodes <=> \E e \in T!Drawn : \E i \in 1..TfHops(e) : n = T!Hidden(e, i)
<1>1. T!HiddenNodes = {n \in tfGraph.nodes : Len(n) = 4} BY DEF T!HiddenNodes
<1>2. \A m : Len(<<m>>) # 4 BY TfNames
<1>3. Len(T!Broker) # 4 BY <1>2 DEF T!Broker
<1> QED BY <1>1, <1>2, <1>3, TfNames DEF TfNodesAre

\* A link goes between nodes that are drawn.
LEMMA TfLinksJoin ==
  ASSUME TfGiven, TfNodesAre, TfLinksAre, NEW l \in tfGraph.links
  PROVE  l.from \in tfGraph.nodes /\ l.to \in tfGraph.nodes
<1>0. \A e \in T!Drawn : e[1] \in tfRecent /\ e[2] \in tfRecent
  BY TfDrawnIsTold DEF TfTold, T!InRange
<1>1. ASSUME NEW e \in T!Drawn, NEW i, i \in 0..TfHops(e), l = TfLink(e, i)
      PROVE  l.from \in tfGraph.nodes /\ l.to \in tfGraph.nodes
  <2>1. TfHops(e) \in Int BY <1>1, TfLinkEnds
  <2>2. i # 0 => i \in 1..TfHops(e) BY <1>1, <2>1
  <2>3. i # TfHops(e) => i + 1 \in 1..TfHops(e) BY <1>1, <2>1
  <2>4. l.from = <<e[1]>> \/ (i # 0 /\ l.from = T!Hidden(e, i)) BY <1>1, TfLinkEnds
  <2>5. l.to = <<e[2]>> \/ (i # TfHops(e) /\ l.to = T!Hidden(e, i + 1)) BY <1>1, TfLinkEnds
  <2> QED BY <1>0, <2>2, <2>3, <2>4, <2>5 DEF TfNodesAre
<1>2. ASSUME NEW e \in T!Drawn, l = TfWhole(e)
      PROVE  l.from \in tfGraph.nodes /\ l.to \in tfGraph.nodes
  BY <1>0, <1>2 DEF TfWhole, TfNodesAre
<1>3. ASSUME tfView = "map", l \in T!BrokerLinks
      PROVE  l.from \in tfGraph.nodes /\ l.to \in tfGraph.nodes
  <2>1. PICK n \in T!SelfDirected : \/ l.from = <<n>> /\ l.to = T!Broker
                                    \/ l.from = T!Broker /\ l.to = <<n>>
    BY <1>3, TfBrokerEnds
  <2>2. n \in tfRecent BY DEF T!SelfDirected, T!InRange
  <2> QED BY <1>3, <2>1, <2>2 DEF TfNodesAre
<1> QED BY <1>1, <1>2, <1>3 DEF TfLinksAre

\* A link between two nodes is of the edge between them,
LEMMA TfDirect ==
  ASSUME TfGiven, TfLinksAre, "mqtt_broker" \notin TfNodes, NEW l \in tfGraph.links,
         NEW a \in TfNodes, NEW b \in TfNodes, l.from = <<a>>, l.to = <<b>>
  PROVE  /\ <<a, b>> \in T!Drawn
         /\ \/ l.hops = 0 /\ TfHops(<<a, b>>) = 0
            \/ tfView = "map" /\ l.hops = TfHops(<<a, b>>)
<1>1. ASSUME NEW e \in T!Drawn, NEW i, i \in 0..TfHops(e), l = TfLink(e, i)
      PROVE  <<a, b>> \in T!Drawn /\ l.hops = 0 /\ TfHops(<<a, b>>) = 0
  <2>1. TfHops(e) \in Int /\ e \in T!Pairs /\ l.hops = 0 BY <1>1, TfLinkEnds
  <2>2. i = 0 /\ l.from = <<e[1]>> BY <1>1, TfLinkEnds, TfNames
  <2>3. i = TfHops(e) /\ l.to = <<e[2]>> BY <1>1, TfLinkEnds, TfNames
  <2>4. e[1] = a /\ e[2] = b BY <2>2, <2>3, TfNames
  <2>5. e = <<a, b>> BY <2>1, <2>4 DEF T!Pairs
  <2> QED BY <2>1, <2>2, <2>3, <2>5
<1>2. ASSUME NEW e \in T!Drawn, l = TfWhole(e)
      PROVE  <<a, b>> \in T!Drawn /\ l.hops = TfHops(<<a, b>>)
  <2>1. l.from = <<e[1]>> /\ l.to = <<e[2]>> /\ l.hops = TfHops(e) BY <1>2 DEF TfWhole
  <2>2. e[1] = a /\ e[2] = b BY <2>1, TfNames
  <2>3. e = <<a, b>> BY <2>2, TfDrawnIsTold DEF T!Pairs
  <2> QED BY <2>1, <2>3
<1>3. l \notin T!BrokerLinks
  <2> SUFFICES ASSUME l \in T!BrokerLinks PROVE FALSE OBVIOUS
  <2>1. l.from = T!Broker \/ l.to = T!Broker BY TfBrokerEnds
  <2>2. a = "mqtt_broker" \/ b = "mqtt_broker" BY <2>1, TfNames DEF T!Broker
  <2> QED BY <2>2
<1> QED BY <1>1, <1>2, <1>3 DEF TfLinksAre

\* one that leaves a hidden node, or comes to it, is of its chain,
LEMMA TfFromHidden ==
  ASSUME TfGiven, TfLinksAre, NEW l \in tfGraph.links, NEW e \in T!Pairs, NEW i, l.from = T!Hidden(e, i)
  PROVE  e \in T!Drawn /\ i \in 1..TfHops(e) /\ l = TfLink(e, i)
<1>1. ASSUME NEW f \in T!Drawn, NEW j, j \in 0..TfHops(f), l = TfLink(f, j)
      PROVE  e \in T!Drawn /\ i \in 1..TfHops(e) /\ l = TfLink(e, i)
  <2>1. TfHops(f) \in Int /\ f \in T!Pairs BY <1>1, TfLinkEnds
  <2>2. j # 0 /\ l.from = T!Hidden(f, j) BY <1>1, TfLinkEnds, TfNames
  <2>3. T!Hidden(e, i) = T!Hidden(f, j) BY <2>2
  <2>4. e = f /\ i = j BY <2>1, <2>3, TfHiddenNames
  <2> QED BY <1>1, <2>1, <2>2, <2>4
<1>2. \A f : l # TfWhole(f) BY TfNames DEF TfWhole
<1>3. l \notin T!BrokerLinks BY TfBrokerEnds, TfNames DEF T!Broker
<1> QED BY <1>1, <1>2, <1>3 DEF TfLinksAre

LEMMA TfToHidden ==
  ASSUME TfGiven, TfLinksAre, NEW l \in tfGraph.links, NEW e \in T!Pairs, NEW i, l.to = T!Hidden(e, i)
  PROVE  e \in T!Drawn /\ i \in 1..TfHops(e) /\ l = TfLink(e, i - 1)
<1>1. ASSUME NEW f \in T!Drawn, NEW j, j \in 0..TfHops(f), l = TfLink(f, j)
      PROVE  e \in T!Drawn /\ i \in 1..TfHops(e) /\ l = TfLink(e, i - 1)
  <2>1. TfHops(f) \in Int /\ f \in T!Pairs BY <1>1, TfLinkEnds
  <2>2. j # TfHops(f) /\ l.to = T!Hidden(f, j + 1) BY <1>1, TfLinkEnds, TfNames
  <2>3. T!Hidden(e, i) = T!Hidden(f, j + 1) BY <2>2
  <2>4. e = f /\ i = j + 1 BY <2>1, <2>3, TfHiddenNames
  <2>5. i \in 1..TfHops(e) /\ i - 1 = j BY <1>1, <2>1, <2>2, <2>4
  <2> QED BY <1>1, <2>4, <2>5
<1>2. \A f : l # TfWhole(f) BY TfNames DEF TfWhole
<1>3. l \notin T!BrokerLinks BY TfBrokerEnds, TfNames DEF T!Broker
<1> QED BY <1>1, <1>2, <1>3 DEF TfLinksAre

\* The way from one node to another over hidden ones, place by place.
TfIsWay(w, k, a, b) ==
  /\ w \in Seq({<<a>>, <<b>>} \cup T!HiddenNodes) /\ Len(w) = k + 2 /\ w[1] = <<a>> /\ w[k + 2] = <<b>>
  /\ \A i \in 2..k + 1 : w[i] \in T!HiddenNodes
  /\ \A i \in 1..k + 1 : \E l \in tfGraph.links : l.from = w[i] /\ l.to = w[i + 1]

LEMMA TfJoined ==
  ASSUME NEW Inner, NEW k \in Nat, NEW x, NEW y, NEW inner \in [1..k -> Inner], NEW w, w = <<x>> \o inner \o <<y>>
  PROVE  /\ w \in Seq({x, y} \cup Inner) /\ Len(w) = k + 2 /\ w[1] = x /\ w[k + 2] = y
         /\ \A i \in 2..k + 1 : w[i] = inner[i - 1]
<1> DEFINE All == {x, y} \cup Inner
<1>1. inner \in Seq(Inner) /\ Len(inner) = k BY SMT
<1>2. inner \in Seq(All) BY <1>1
<1>3. <<x>> \in Seq(All) /\ <<y>> \in Seq(All) /\ Len(<<x>>) = 1 /\ Len(<<y>>) = 1 OBVIOUS
<1> DEFINE u == <<x>> \o inner
<1>4. u \in Seq(All) /\ Len(u) = k + 1 BY <1>1, <1>2, <1>3
<1>5. u[1] = x /\ \A i \in 2..k + 1 : u[i] = inner[i - 1]
  <2>1. \A i \in 1..k + 1 : u[i] = IF i <= 1 THEN <<x>>[i] ELSE inner[i - 1]
    BY <1>1, <1>2, <1>3, <1>4
  <2> QED BY <2>1
<1>6. w = u \o <<y>> OBVIOUS
<1> HIDE DEF u, All
<1>7. w \in Seq(All) /\ Len(w) = k + 2
  <2>1. \A p, q \in Seq(All) : p \o q \in Seq(All) OBVIOUS
  <2>3. w \in Seq(All) BY <1>3, <1>4, <1>6, <2>1, Zenon
  <2>2. Len(w) = Len(u) + Len(<<y>>) BY <1>3, <1>4, <1>6
  <2> QED BY <1>3, <1>4, <2>2, <2>3
<1>8. w[k + 2] = y /\ \A i \in 1..k + 1 : w[i] = u[i]
  <2>1. k + 2 \in 1..k + 2 /\ k + 2 > Len(u) /\ (k + 2) - Len(u) = 1 BY <1>4
  <2>2. \A i \in 1..k + 2 : w[i] = IF i <= Len(u) THEN u[i] ELSE <<y>>[i - Len(u)]
    BY <1>3, <1>4, <1>6
  <2>3. w[k + 2] = y
    <3>1. ~(k + 2 <= Len(u)) BY <2>1
    <3>2. w[k + 2] = <<y>>[1] BY <3>1, <2>1, <2>2
    <3> QED BY <3>2
  <2>4. \A i \in 1..k + 1 : w[i] = u[i]
    <3>1. \A i \in 1..k + 1 : i \in 1..k + 2 /\ i <= Len(u) BY <1>4
    <3> QED BY <2>2, <3>1
  <2> QED BY <2>3, <2>4
<1>9. 1 \in 1..k + 1 /\ 2..k + 1 \subseteq 1..k + 1 OBVIOUS
<1> QED BY <1>5, <1>7, <1>8, <1>9 DEF All

LEMMA TfWayForm ==
  ASSUME NEW a \in TfNodes, NEW b \in TfNodes, NEW w \in T!Ways(<<a>>, <<b>>)
  PROVE  \E k \in 0..MaxEdgeHops : TfIsWay(w, k, a, b)
<1>0. PICK k \in 0..MaxEdgeHops : \E inner \in [1..k -> T!HiddenNodes] : w = <<<<a>>>> \o inner \o <<<<b>>>>
  BY DEF T!Ways
<1>1. PICK inner \in [1..k -> T!HiddenNodes] : w = <<<<a>>>> \o inner \o <<<<b>>>>
  BY <1>0
<1>2. \A i \in 1..Len(w) - 1 : \E l \in tfGraph.links : l.from = w[i] /\ l.to = w[i + 1]
  BY DEF T!Ways
<1>3. k \in Nat BY TransformAssumption
<1>4. /\ w \in Seq({<<a>>, <<b>>} \cup T!HiddenNodes) /\ Len(w) = k + 2 /\ w[1] = <<a>> /\ w[k + 2] = <<b>>
      /\ \A i \in 2..k + 1 : w[i] = inner[i - 1]
  BY <1>1, <1>3, TfJoined
<1>5. \A i \in 2..k + 1 : i - 1 \in 1..k BY <1>3
<1>6. \A i \in 2..k + 1 : w[i] \in T!HiddenNodes BY <1>1, <1>4, <1>5
<1>7. Len(w) - 1 = k + 1 BY <1>3, <1>4
<1>8. TfIsWay(w, k, a, b) BY <1>2, <1>4, <1>6, <1>7 DEF TfIsWay
<1> QED BY <1>8
TfWay(e) == <<<<e[1]>>>> \o [i \in 1..TfHops(e) |-> T!Hidden(e, i)] \o <<<<e[2]>>>>

\* A way over hidden nodes passes those of one edge, in their order, and no others.
LEMMA TfWayFollows ==
  ASSUME TfGiven, TfNodesAre, TfLinksAre, NEW a \in TfNodes, NEW b \in TfNodes, NEW w,
         NEW k \in Nat, k > 0, TfIsWay(w, k, a, b)
  PROVE  /\ <<a, b>> \in T!Drawn /\ TfHops(<<a, b>>) = k
         /\ \A i \in 2..k + 1 : w[i] = T!Hidden(<<a, b>>, i - 1)
<1>1. \A i \in 1..k + 1 : \E l \in tfGraph.links : l.from = w[i] /\ l.to = w[i + 1] BY DEF TfIsWay
<1>2. \A i \in 2..k + 1 : w[i] \in T!HiddenNodes BY DEF TfIsWay
<1>3. w[1] = <<a>> /\ w[k + 2] = <<b>> BY DEF TfIsWay
<1>4. \A e \in T!Drawn : e \in T!Pairs /\ TfHops(e) \in Nat BY TfLinkEnds
<1>5. PICK e \in T!Drawn : \E i \in 1..TfHops(e) : w[2] = T!Hidden(e, i)
  <2>1. w[2] \in T!HiddenNodes BY <1>2
  <2> QED BY <2>1, TfHiddenAre
<1>6. e[1] = a /\ w[2] = T!Hidden(e, 1)
  <2>1. PICK i \in 1..TfHops(e) : w[2] = T!Hidden(e, i) BY <1>5
  <2>2. PICK l \in tfGraph.links : l.from = w[1] /\ l.to = w[2]
    <3>1. 1 \in 1..k + 1 /\ 1 + 1 = 2 OBVIOUS
    <3> QED BY <1>1, <3>1
  <2>3. l = TfLink(e, i - 1) BY <1>4, <2>1, <2>2, TfToHidden
  <2>4. i - 1 \in 0..TfHops(e) /\ i \in Nat BY <1>4
  <2>5. i - 1 = 0 /\ l.from = <<e[1]>>
    <3>1. i - 1 # 0 => l.from = T!Hidden(e, i - 1) BY <2>3, <2>4, TfLinkEnds
    <3>2. i - 1 = 0 => l.from = <<e[1]>> BY <2>3, <2>4, TfLinkEnds
    <3> QED BY <1>3, <2>2, <3>1, <3>2, TfNames
  <2>6. i = 1 BY <2>4, <2>5
  <2> QED BY <1>3, <2>1, <2>2, <2>5, <2>6, TfNames
<1> DEFINE U == {n \in Nat : n <= k - 1 => w[n + 2] = T!Hidden(e, n + 1) /\ n + 1 \in 1..TfHops(e)}
<1>7. 0 \in U
  <2>1. 1 \in 1..TfHops(e) BY <1>4, <1>5
  <2> QED BY <1>6, <2>1
<1>8. ASSUME NEW n \in U PROVE n + 1 \in U
  <2> SUFFICES ASSUME n + 1 <= k - 1
               PROVE  w[(n + 1) + 2] = T!Hidden(e, (n + 1) + 1) /\ (n + 1) + 1 \in 1..TfHops(e)
    OBVIOUS
  <2>1. n \in Nat /\ w[n + 2] = T!Hidden(e, n + 1) /\ n + 1 \in 1..TfHops(e) OBVIOUS
  <2>2. n + 2 \in 1..k + 1 /\ (n + 2) + 1 = n + 3 /\ n + 3 \in 2..k + 1 BY <2>1
  <2>3. PICK l \in tfGraph.links : l.from = w[n + 2] /\ l.to = w[n + 3] BY <1>1, <2>2
  <2>4. e \in T!Pairs BY <1>4
  <2>5. l = TfLink(e, n + 1) BY <2>1, <2>3, <2>4, TfFromHidden
  <2>6. w[n + 3] \in T!HiddenNodes BY <1>2, <2>2
  <2>7. n + 1 # TfHops(e)
    <3> SUFFICES ASSUME n + 1 = TfHops(e) PROVE FALSE OBVIOUS
    <3>1. n + 1 \in 0..TfHops(e) BY <1>4, <2>1
    <3>2. w[n + 3] = <<e[2]>> BY <2>3, <2>5, <3>1, TfLinkEnds
    <3> QED BY <2>6, <3>2, TfHiddenAre, TfNames
  <2>8. n + 1 \in 0..TfHops(e) /\ n + 2 \in 1..TfHops(e) /\ (n + 1) + 1 = n + 2 /\ (n + 1) + 2 = n + 3
    BY <1>4, <2>1, <2>7
  <2>9. l.to = T!Hidden(e, (n + 1) + 1) BY <2>5, <2>7, <2>8, TfLinkEnds
  <2> QED BY <2>3, <2>8, <2>9
<1>9. \A n \in Nat : n <= k - 1 => w[n + 2] = T!Hidden(e, n + 1) /\ n + 1 \in 1..TfHops(e)
  <2>1. U \in SUBSET Nat OBVIOUS
  <2>2. U = Nat
    <3> HIDE DEF U
    <3> QED BY <1>7, <1>8, <2>1, AllNaturals
  <2> QED BY <2>2
<1> HIDE DEF U
<1>10. w[k + 1] = T!Hidden(e, k) /\ k \in 1..TfHops(e)
  <2>1. k - 1 \in Nat /\ (k - 1) + 2 = k + 1 /\ (k - 1) + 1 = k OBVIOUS
  <2> QED BY <1>9, <2>1
<1>11. e[2] = b /\ TfHops(e) = k
  <2>1. k + 1 \in 1..k + 1 /\ (k + 1) + 1 = k + 2 OBVIOUS
  <2>2. PICK l \in tfGraph.links : l.from = w[k + 1] /\ l.to = w[k + 2] BY <1>1, <2>1
  <2>3. e \in T!Pairs BY <1>4
  <2>4. l = TfLink(e, k) BY <1>10, <2>2, <2>3, TfFromHidden
  <2>5. k \in 0..TfHops(e) BY <1>4, <1>10
  <2>6. k # TfHops(e) => l.to = T!Hidden(e, k + 1) BY <2>4, <2>5, TfLinkEnds
  <2>7. k = TfHops(e) => l.to = <<e[2]>> BY <2>4, <2>5, TfLinkEnds
  <2> QED BY <1>3, <2>2, <2>6, <2>7, TfNames
<1>12. e = <<a, b>> BY <1>4, <1>6, <1>11 DEF T!Pairs
<1>13. ASSUME NEW i \in 2..k + 1 PROVE w[i] = T!Hidden(e, i - 1)
  <2>1. i - 2 \in Nat /\ i - 2 <= k - 1 /\ (i - 2) + 2 = i /\ (i - 2) + 1 = i - 1 OBVIOUS
  <2> QED BY <1>9, <2>1
<1> QED BY <1>11, <1>12, <1>13

LEMMA TfWayForms ==
  ASSUME TfGiven, TfNodesAre, NEW e \in T!Drawn
  PROVE  /\ TfIsWay(TfWay(e), TfHops(e), e[1], e[2]) <=>
              \A i \in 1..TfHops(e) + 1 :
                \E l \in tfGraph.links : l.from = TfWay(e)[i] /\ l.to = TfWay(e)[i + 1]
         /\ \A i \in 1..TfHops(e) + 1 : TfWay(e)[i] = IF i = 1 THEN <<e[1]>> ELSE T!Hidden(e, i - 1)
         /\ TfWay(e)[TfHops(e) + 2] = <<e[2]>> /\ Len(TfWay(e)) = TfHops(e) + 2
         /\ TfWay(e) \in Seq({<<e[1]>>, <<e[2]>>} \cup T!HiddenNodes)
         /\ [i \in 1..TfHops(e) |-> T!Hidden(e, i)] \in [1..TfHops(e) -> T!HiddenNodes]
<1> DEFINE inner == [i \in 1..TfHops(e) |-> T!Hidden(e, i)]
           k == TfHops(e)
           w == TfWay(e)
<1>1. k \in Nat BY TfLinkEnds
<1>2. inner \in [1..k -> T!HiddenNodes]
  <2>1. \A i \in 1..k : T!Hidden(e, i) \in T!HiddenNodes BY TfHiddenAre
  <2> QED BY <2>1
<1>3. w = <<<<e[1]>>>> \o inner \o <<<<e[2]>>>> BY DEF TfWay
<1>4. \A i \in 1..k : inner[i] = T!Hidden(e, i) OBVIOUS
<1> HIDE DEF w, inner, k
<1>5. /\ w \in Seq({<<e[1]>>, <<e[2]>>} \cup T!HiddenNodes) /\ Len(w) = k + 2
      /\ w[1] = <<e[1]>> /\ w[k + 2] = <<e[2]>>
      /\ \A i \in 2..k + 1 : w[i] = inner[i - 1]
  BY <1>1, <1>2, <1>3, TfJoined
<1>6. \A i \in 2..k + 1 : i - 1 \in 1..k BY <1>1
<1>7. \A i \in 2..k + 1 : w[i] = T!Hidden(e, i - 1) BY <1>4, <1>5, <1>6
<1>8. \A i \in 2..k + 1 : w[i] \in T!HiddenNodes BY <1>2, <1>5, <1>6
<1>9. ASSUME NEW i \in 1..k + 1 PROVE w[i] = IF i = 1 THEN <<e[1]>> ELSE T!Hidden(e, i - 1)
  <2>1. i = 1 \/ i \in 2..k + 1 BY <1>1
  <2> QED BY <1>5, <1>7, <2>1
<1>10. TfIsWay(w, k, e[1], e[2]) <=>
         \A i \in 1..k + 1 : \E l \in tfGraph.links : l.from = w[i] /\ l.to = w[i + 1]
  BY <1>5, <1>8 DEF TfIsWay
<1> QED BY <1>2, <1>5, <1>9, <1>10 DEF w, k, inner

\* The chain of a drawn edge is a way between its ends,
LEMMA TfDrawnHasWay ==
  ASSUME TfGiven, TfNodesAre, TfLinksAre, NEW e \in T!Drawn
  PROVE  TfWay(e) \in T!Ways(<<e[1]>>, <<e[2]>>)
<1> DEFINE k == TfHops(e)
           w == TfWay(e)
           inner == [i \in 1..k |-> T!Hidden(e, i)]
<1>1. k \in 0..MaxEdgeHops /\ k \in Nat BY TfLinkEnds
<1>2. w = <<<<e[1]>>>> \o inner \o <<<<e[2]>>>> BY DEF TfWay
<1>3. inner \in [1..k -> T!HiddenNodes] BY TfWayForms
<1>4. /\ \A i \in 1..k + 1 : w[i] = IF i = 1 THEN <<e[1]>> ELSE T!Hidden(e, i - 1)
      /\ w[k + 2] = <<e[2]>> /\ Len(w) = k + 2
  BY TfWayForms
<1> HIDE DEF w, k, inner
<1>5. ASSUME NEW i \in 1..Len(w) - 1
      PROVE  \E l \in tfGraph.links : l.from = w[i] /\ l.to = w[i + 1]
  <2>1. i \in 1..k + 1 /\ i - 1 \in 0..k BY <1>1, <1>4
  <2>2. TfLink(e, i - 1) \in tfGraph.links BY <2>1 DEF TfLinksAre, k
  <2>3. TfLink(e, i - 1).from = w[i]
    <3>1. i = 1 => TfLink(e, i - 1).from = <<e[1]>> BY <2>1, TfLinkEnds DEF k
    <3>2. i # 1 => TfLink(e, i - 1).from = T!Hidden(e, i - 1)
      <4>1. i # 1 => i - 1 # 0 BY <2>1
      <4> QED BY <2>1, <4>1, TfLinkEnds DEF k
    <3>3. i = 1 => w[i] = <<e[1]>> BY <1>4, <2>1
    <3>4. i # 1 => w[i] = T!Hidden(e, i - 1) BY <1>4, <2>1
    <3> QED BY <3>1, <3>2, <3>3, <3>4
  <2>4. TfLink(e, i - 1).to = w[i + 1]
    <3>1. CASE i - 1 = k
      <4>1. i + 1 = k + 2 BY <1>1, <2>1, <3>1
      <4>2. TfLink(e, i - 1).to = <<e[2]>> BY <2>1, <3>1, TfLinkEnds DEF k
      <4> QED BY <1>4, <4>1, <4>2
    <3>2. CASE i - 1 # k
      <4>1. i + 1 \in 1..k + 1 /\ i + 1 # 1 /\ (i + 1) - 1 = i /\ (i - 1) + 1 = i
        BY <1>1, <2>1, <3>2
      <4>2. TfLink(e, i - 1).to = T!Hidden(e, (i - 1) + 1) BY <2>1, <3>2, TfLinkEnds DEF k
      <4>3. w[i + 1] = T!Hidden(e, (i + 1) - 1) BY <1>4, <4>1
      <4> QED BY <4>1, <4>2, <4>3
    <3> QED BY <3>1, <3>2
  <2> QED BY <2>2, <2>3, <2>4
<1>6. w \in {<<<<e[1]>>>> \o inn \o <<<<e[2]>>>> : inn \in [1..k -> T!HiddenNodes]} BY <1>2, <1>3
<1>7. w \in UNION {{<<<<e[1]>>>> \o inn \o <<<<e[2]>>>> : inn \in [1..n -> T!HiddenNodes]} : n \in 0..MaxEdgeHops}
  BY <1>1, <1>6
<1>8. w \in T!Ways(<<e[1]>>, <<e[2]>>) BY <1>5, <1>7 DEF T!Ways
<1> QED BY <1>8 DEF w

\* and every other way between them is the one link the map draws besides.
LEMMA TfWaysAre ==
  ASSUME TfGiven, TfNodesAre, TfLinksAre, NEW a \in TfNodes, NEW b \in TfNodes,
         NEW w \in T!Ways(<<a>>, <<b>>)
  PROVE  /\ <<a, b>> \in T!Drawn
         /\ tfView = "graph" => w = TfWay(<<a, b>>)
<1>1. PICK k \in 0..MaxEdgeHops : TfIsWay(w, k, a, b) BY TfWayForm
<1>2. k \in Nat BY TransformAssumption
<1> DEFINE e == <<a, b>>
<1>3. /\ w \in Seq({<<a>>, <<b>>} \cup T!HiddenNodes) /\ Len(w) = k + 2 /\ w[1] = <<a>> /\ w[k + 2] = <<b>>
      /\ \A i \in 1..k + 1 : \E l \in tfGraph.links : l.from = w[i] /\ l.to = w[i + 1]
  BY <1>1 DEF TfIsWay
<1>4. e[1] = a /\ e[2] = b OBVIOUS
<1> HIDE DEF e
<1>5. e \in T!Drawn /\ (tfView = "graph" => TfHops(e) = k)
  <2>1. CASE k > 0 BY <1>1, <1>2, <2>1, TfWayFollows DEF e
  <2>2. CASE k = 0
    <3>1. 1 \in 1..k + 1 /\ 1 + 1 = k + 2 BY <2>2
    <3>2. PICK l \in tfGraph.links : l.from = <<a>> /\ l.to = <<b>> BY <1>3, <3>1
    <3>3. "mqtt_broker" \notin TfNodes BY TransformAssumption
    <3>4. e \in T!Drawn /\ (TfHops(e) = 0 \/ tfView = "map") BY <3>2, <3>3, TfDirect DEF e
    <3> QED BY <2>2, <3>4
  <2> QED BY <1>2, <2>1, <2>2
<1>6. ASSUME tfView = "graph" PROVE w = TfWay(e)
  <2>1. /\ \A i \in 1..k + 1 : TfWay(e)[i] = IF i = 1 THEN <<a>> ELSE T!Hidden(e, i - 1)
        /\ TfWay(e)[k + 2] = <<b>> /\ Len(TfWay(e)) = k + 2
        /\ TfWay(e) \in Seq({<<a>>, <<b>>} \cup T!HiddenNodes)
    BY <1>4, <1>5, <1>6, TfWayForms
  <2>2. ASSUME NEW i \in 1..k + 2 PROVE w[i] = TfWay(e)[i]
    <3>1. CASE i = 1
      <4>1. 1 \in 1..k + 1 BY <1>2
      <4> QED BY <1>3, <2>1, <3>1, <4>1
    <3>2. CASE i = k + 2 BY <1>3, <2>1, <3>2
    <3>3. CASE i \in 2..k + 1
      <4>1. k > 0 /\ i # 1 /\ i \in 1..k + 1 BY <1>2, <3>3
      <4>2. w[i] = T!Hidden(e, i - 1) BY <1>1, <1>2, <3>3, <4>1, TfWayFollows DEF e
      <4> QED BY <2>1, <4>1, <4>2
    <3> QED BY <1>2, <3>1, <3>2, <3>3
  <2> HIDE DEF TfWay
  <2> DEFINE v == TfWay(e)
             All == {<<a>>, <<b>>} \cup T!HiddenNodes
  <2>3. w \in [1..k + 2 -> All] /\ v \in [1..k + 2 -> All]
    <3>1. w \in Seq(All) /\ v \in Seq(All) /\ Len(w) = k + 2 /\ Len(v) = k + 2 BY <1>3, <2>1
    <3> HIDE DEF All, v
    <3> QED BY <3>1, <1>2
  <2>4. \A i \in 1..k + 2 : w[i] = v[i] BY <2>2
  <2> HIDE DEF All, v
  <2>5. w = v BY <2>3, <2>4
  <2> QED BY <2>5 DEF v
<1> QED BY <1>5, <1>6 DEF e

LEMMA TfLinkTyped ==
  ASSUME NEW l, l.from \in tfGraph.nodes, l.to \in tfGraph.nodes, NEW h \in 0..MaxEdgeHops \cup {1},
         NEW s \in BOOLEAN, l = [from |-> l.from, to |-> l.to, hops |-> h, segment |-> s]
  PROVE  l \in [from : tfGraph.nodes, to : tfGraph.nodes, hops : 0 .. MaxEdgeHops \cup {1},
                segment : BOOLEAN]
<1>1. \A f, t \in tfGraph.nodes : [from |-> f, to |-> t, hops |-> h, segment |-> s] \in
        [from : tfGraph.nodes, to : tfGraph.nodes, hops : 0 .. MaxEdgeHops \cup {1}, segment : BOOLEAN]
  OBVIOUS
<1>2. [from |-> l.from, to |-> l.to, hops |-> h, segment |-> s] \in
        [from : tfGraph.nodes, to : tfGraph.nodes, hops : 0 .. MaxEdgeHops \cup {1}, segment : BOOLEAN]
  BY <1>1
<1> QED BY <1>2, Zenon

LEMMA TfTyped ==
  ASSUME TfGiven, TfNodesAre, TfLinksAre
  PROVE  T!TfTypeOK
<1>1. \A e \in T!Drawn : /\ e \in T!Pairs /\ TfHops(e) \in Nat /\ TfHops(e) \in 0..MaxEdgeHops
  BY TfLinkEnds
<1>2. ASSUME NEW n \in tfGraph.nodes
      PROVE  n \in {<<m>> : m \in tfRecent} \cup {T!Broker} \cup
                    {T!Hidden(e, i) : e \in T!Pairs, i \in 1..MaxEdgeHops}
  <2>1. CASE \E m \in tfRecent : n = <<m>> BY <2>1
  <2>2. CASE \E e \in T!Drawn : \E i \in 1..TfHops(e) : n = T!Hidden(e, i)
    <3>1. PICK e \in T!Drawn, j \in Nat : j \in 1..TfHops(e) /\ n = T!Hidden(e, j) BY <1>1, <2>2
    <3>2. e \in T!Pairs /\ j \in 1..MaxEdgeHops BY <1>1, <3>1, TransformAssumption
    <3>3. T!Hidden(e, j) \in {T!Hidden(f, i) : f \in T!Pairs, i \in 1..MaxEdgeHops} BY <3>2
    <3> QED BY <3>1, <3>3
  <2>3. CASE n = T!Broker BY <2>3
  <2> QED BY <2>1, <2>2, <2>3 DEF TfNodesAre
<1>3. ASSUME NEW l \in tfGraph.links
      PROVE  l \in [from : tfGraph.nodes, to : tfGraph.nodes, hops : 0 .. MaxEdgeHops \cup {1},
                    segment : BOOLEAN]
  <2>1. l.from \in tfGraph.nodes /\ l.to \in tfGraph.nodes BY TfLinksJoin
  <2>2. CASE \E e \in T!Drawn : \E i \in 0..TfHops(e) : l = TfLink(e, i)
    <3>1. PICK e \in T!Drawn, i \in Nat : l = TfLink(e, i) BY <1>1, <2>2
    <3>2. l = [from |-> l.from, to |-> l.to, hops |-> 0, segment |-> TfHops(e) > 0]
      BY <3>1, Zenon DEF TfLink
    <3>3. 0 \in 0..MaxEdgeHops BY TransformAssumption
    <3>4. (TfHops(e) > 0) \in BOOLEAN OBVIOUS
    <3> QED BY <2>1, <3>2, <3>3, <3>4, TfLinkTyped
  <2>3. CASE \E e \in T!Drawn : l = TfWhole(e)
    <3>1. PICK e \in T!Drawn : l = TfWhole(e) BY <2>3
    <3>2. l = [from |-> l.from, to |-> l.to, hops |-> TfHops(e), segment |-> FALSE]
      BY <3>1, Zenon DEF TfWhole
    <3>3. TfHops(e) \in 0..MaxEdgeHops /\ FALSE \in BOOLEAN BY <1>1
    <3> QED BY <2>1, <3>2, <3>3, TfLinkTyped
  <2>4. CASE l \in T!BrokerLinks
    <3>1. l = [from |-> l.from, to |-> l.to, hops |-> 1, segment |-> FALSE]
      BY <2>4 DEF T!BrokerLinks
    <3>2. 1 \in {1} /\ FALSE \in BOOLEAN OBVIOUS
    <3> QED BY <2>1, <3>1, <3>2, TfLinkTyped
  <2> QED BY <2>2, <2>3, <2>4 DEF TfLinksAre
<1> QED BY <1>2, <1>3 DEF T!TfTypeOK

\* What the server told decides which edges are drawn.
LEMMA TfDrawnIsHeard ==
  ASSUME TfGiven, NEW a \in TfNodes, NEW b \in TfNodes, a # b
  PROVE  T!HeardBy(a, b) <=> <<a, b>> \in T!Drawn
<1>1. <<a, b>> \in T!Pairs /\ T!Swap(<<a, b>>) = <<b, a>> BY DEF T!Pairs, T!Swap
<1>2. <<a, b>> \in T!Drawn <=> TfTold(<<a, b>>) BY <1>1, TfDrawnIsTold
<1>3. T!InRange(<<a, b>>) <=> tfEdges[<<a, b>>].there /\ tfEdges[<<a, b>>].recent /\ {a, b} \subseteq tfRecent
  BY DEF T!InRange
<1>4. T!InRange(<<b, a>>) <=> tfEdges[<<b, a>>].there /\ tfEdges[<<b, a>>].recent /\ {a, b} \subseteq tfRecent
  BY DEF T!InRange
<1>5. <<a, b>>[1] # <<a, b>>[2] OBVIOUS
<1> QED BY <1>1, <1>2, <1>3, <1>4, <1>5 DEF TfTold, T!HeardBy

LEMMA TfShowsDrawn ==
  ASSUME TfGiven, TfNodesAre, TfLinksAre
  PROVE  T!DrawnIsHeard
<1>1. \A l \in tfGraph.links : {l.from, l.to} \subseteq tfGraph.nodes BY TfLinksJoin
<1>2. ASSUME NEW a \in TfNodes, NEW b \in TfNodes, a # b
      PROVE  /\ T!HeardBy(a, b) = (T!Ways(<<a>>, <<b>>) # {})
             /\ tfView = "graph" => \A v, w \in T!Ways(<<a>>, <<b>>) : v = w
  <2> DEFINE W == T!Ways(<<a>>, <<b>>)
  <2>1. T!HeardBy(a, b) <=> <<a, b>> \in T!Drawn BY <1>2, TfDrawnIsHeard
  <2>2. <<a, b>> \in T!Drawn => W # {}
    <3>1. <<a, b>>[1] = a /\ <<a, b>>[2] = b OBVIOUS
    <3> QED BY <3>1, TfDrawnHasWay
  <2>3. \A w \in W : <<a, b>> \in T!Drawn /\ (tfView = "graph" => w = TfWay(<<a, b>>)) BY TfWaysAre
  <2> HIDE DEF W
  <2>4. T!HeardBy(a, b) <=> W # {} BY <2>1, <2>2, <2>3
  <2>5. T!HeardBy(a, b) \in BOOLEAN BY DEF T!HeardBy
  <2>6. T!HeardBy(a, b) = (W # {})
    <3> DEFINE h == T!HeardBy(a, b)
    <3>1. h \in BOOLEAN /\ (h <=> W # {}) BY <2>4, <2>5
    <3> HIDE DEF h
    <3>2. h = (W # {}) BY <3>1
    <3> QED BY <3>2 DEF h
  <2>7. tfView = "graph" => \A v, w \in W : v = w BY <2>3
  <2> QED BY <2>6, <2>7 DEF W
<1>3. ASSUME NEW h \in T!HiddenNodes
      PROVE  \E in, out \in tfGraph.links :
               /\ {l \in tfGraph.links : l.to = h} = {in}
               /\ {l \in tfGraph.links : l.from = h} = {out}
  <2>1. PICK e \in T!Drawn : \E i \in 1..TfHops(e) : h = T!Hidden(e, i) BY TfHiddenAre
  <2>2. PICK i \in 1..TfHops(e) : h = T!Hidden(e, i) BY <2>1
  <2>3. e \in T!Pairs /\ TfHops(e) \in Nat /\ i \in Nat BY TfLinkEnds
  <2>4. i \in 0..TfHops(e) /\ i - 1 \in 0..TfHops(e) /\ i # 0 /\ i - 1 # TfHops(e) /\ (i - 1) + 1 = i BY <2>3
  <2>5. TfLink(e, i).from = h BY <2>2, <2>4, TfLinkEnds
  <2>6. TfLink(e, i - 1).to = h
    <3>1. TfLink(e, i - 1).to = T!Hidden(e, (i - 1) + 1) BY <2>4, TfLinkEnds
    <3> QED BY <2>2, <2>4, <3>1
  <2>7. TfLink(e, i) \in tfGraph.links /\ TfLink(e, i - 1) \in tfGraph.links BY <2>4 DEF TfLinksAre
  <2>8. {l \in tfGraph.links : l.to = h} = {TfLink(e, i - 1)}
    <3>1. \A l \in tfGraph.links : l.to = h => l = TfLink(e, i - 1) BY <2>2, <2>3, TfToHidden
    <3> QED BY <2>6, <2>7, <3>1
  <2>9. {l \in tfGraph.links : l.from = h} = {TfLink(e, i)}
    <3>1. \A l \in tfGraph.links : l.from = h => l = TfLink(e, i) BY <2>2, <2>3, TfFromHidden
    <3> QED BY <2>5, <2>7, <3>1
  <2> QED BY <2>7, <2>8, <2>9
<1>4. ASSUME NEW m \in 0..MaxEdgeHops, NEW l \in T!Visible(m)
      PROVE  \E a, b \in TfNodes : l.from = <<a>> /\ l.to = <<b>> /\ tfEdges[<<a, b>>].hops <= m
  <2>1. /\ l \in tfGraph.links /\ T!Broker \notin {l.from, l.to} /\ ~l.segment /\ l.hops <= m
    BY DEF T!Visible
  <2>2. l \notin T!BrokerLinks BY <2>1, TfBrokerEnds
  <2>3. ASSUME NEW e \in T!Drawn, l.from = <<e[1]>>, l.to = <<e[2]>>, TfHops(e) <= m
        PROVE  \E a, b \in TfNodes : l.from = <<a>> /\ l.to = <<b>> /\ tfEdges[<<a, b>>].hops <= m
    <3>1. e \in T!Pairs BY TfLinkEnds
    <3>2. e[1] \in TfNodes /\ e[2] \in TfNodes /\ e = <<e[1], e[2]>> BY <3>1 DEF T!Pairs
    <3>3. tfEdges[<<e[1], e[2]>>].hops <= m BY <2>3, <3>2 DEF TfHops
    <3> QED BY <2>3, <3>2, <3>3
  <2>4. ASSUME NEW e \in T!Drawn, NEW i, i \in 0..TfHops(e), l = TfLink(e, i)
        PROVE  l.from = <<e[1]>> /\ l.to = <<e[2]>> /\ TfHops(e) <= m
    <3>1. ~(TfHops(e) > 0) /\ TfHops(e) \in Nat BY <2>1, <2>4, TfLinkEnds, TfSegment
    <3>2. TfHops(e) = 0 /\ i = 0 /\ 0 <= m BY <2>4, <3>1
    <3> QED BY <2>4, <3>2, TfLinkEnds
  <2>5. ASSUME NEW e \in T!Drawn, l = TfWhole(e)
        PROVE  l.from = <<e[1]>> /\ l.to = <<e[2]>> /\ TfHops(e) <= m
    BY <2>1, <2>5 DEF TfWhole
  <2>6. PICK e \in T!Drawn : l.from = <<e[1]>> /\ l.to = <<e[2]>> /\ TfHops(e) <= m
    BY <2>1, <2>2, <2>4, <2>5 DEF TfLinksAre
  <2> QED BY <2>3, <2>6
<1> QED BY <1>1, <1>2, <1>3, <1>4 DEF T!DrawnIsHeard

LEMMA TfStep ==
  ASSUME TfSound, [T!TfNext]_(T!tfVars)
  PROVE  TfSound'
<1>1. CASE T!Transform
  <2>1. ~tfDrawn /\ tfDrawn' /\ tfEdges' = tfEdges /\ tfRecent' = tfRecent BY <1>1 DEF T!Transform
  <2>2. TfGiven BY DEF TfSound
  <2>3. TfGiven' BY <2>1, <2>2 DEF TfGiven, T!Pairs, TfEdgeRecords
  <2>4. TfNodesAre' /\ TfLinksAre' BY <1>1, <2>2, TfDrawing
  <2> QED BY <2>1, <2>3, <2>4 DEF TfSound
<1>2. CASE UNCHANGED T!tfVars
  <2>1. UNCHANGED <<tfView, tfSettings, tfRecent, tfEdges, tfDrawn, tfGraph>> BY <1>2 DEF T!tfVars
  <2>2. T!Drawn' = T!Drawn /\ T!SelfDirected' = T!SelfDirected /\ T!BrokerLinks' = T!BrokerLinks
    BY <2>1 DEF T!Drawn, T!Edges, T!Filtered, T!InRange, T!SelfDirected, T!BrokerLinks
  <2>3. \A e, i : TfHops(e)' = TfHops(e) /\ TfLink(e, i)' = TfLink(e, i) /\ TfWhole(e)' = TfWhole(e)
    BY <2>1 DEF TfHops, TfLink, TfAt, TfWhole
  <2>4. TfNodesAre => TfNodesAre' BY <2>1, <2>2, <2>3 DEF TfNodesAre
  <2>5. TfLinksAre => TfLinksAre' BY <2>1, <2>2, <2>3 DEF TfLinksAre
  <2>6. TfGiven => TfGiven' BY <2>1 DEF TfGiven, T!Pairs, TfEdgeRecords
  <2> QED BY <2>1, <2>4, <2>5, <2>6 DEF TfSound
<1> QED BY <1>1, <1>2 DEF T!TfNext

LEMMA TfStarts ==
  ASSUME IF part = "transform" THEN T!TfInit
         ELSE /\ tfView = "graph" /\ tfSettings = [pairs |-> FALSE, force |-> FALSE, direct |-> FALSE]
              /\ tfRecent = {} /\ tfEdges = [e \in TfNodes \X TfNodes |-> T!Absent]
              /\ tfDrawn = FALSE /\ tfGraph = [nodes |-> {}, links |-> {}]
  PROVE  TfSound
<1>1. {T!Absent} \cup T!Heard \subseteq TfEdgeRecords
  <2>1. 0 \in 0..MaxEdgeHops BY TransformAssumption
  <2>2. T!Absent \in TfEdgeRecords BY <2>1 DEF T!Absent, TfEdgeRecords
  <2>3. T!Heard \subseteq TfEdgeRecords
    <3>1. \A x \in [there : {TRUE}, mqtt : BOOLEAN, hops : 0 .. MaxEdgeHops, recent : BOOLEAN] :
             x \in [there : BOOLEAN, mqtt : BOOLEAN, hops : 0 .. MaxEdgeHops, recent : BOOLEAN]
      <4>1. TRUE \in BOOLEAN OBVIOUS
      <4> QED BY <4>1, Zenon
    <3> QED BY <3>1 DEF T!Heard, TfEdgeRecords
  <2> QED BY <2>2, <2>3
<1>2. CASE part = "transform"
  <2>1. /\ tfEdges \in [T!Pairs -> {T!Absent} \cup T!Heard] /\ tfRecent \subseteq TfNodes
        /\ ~tfDrawn /\ tfGraph = [nodes |-> {}, links |-> {}]
    BY <1>2 DEF T!TfInit
  <2> QED BY <1>1, <2>1 DEF TfSound, TfGiven
<1>3. CASE part # "transform"
  <2>1. /\ tfEdges = [e \in TfNodes \X TfNodes |-> T!Absent] /\ tfRecent = {}
        /\ ~tfDrawn /\ tfGraph = [nodes |-> {}, links |-> {}]
    BY <1>3
  <2> QED BY <1>1, <2>1 DEF TfSound, TfGiven, T!Pairs
<1> QED BY <1>2, <1>3

LEMMA TfShows ==
  ASSUME TfSound
  PROVE  T!TfTypeOK /\ T!DrawnIsHeard
<1>1. CASE tfDrawn BY <1>1, TfTyped, TfShowsDrawn DEF TfSound
<1>2. CASE ~tfDrawn
  <2>1. tfGraph.nodes = {} /\ tfGraph.links = {} BY <1>2 DEF TfSound
  <2> QED BY <1>2, <2>1 DEF T!TfTypeOK, T!DrawnIsHeard
<1> QED BY <1>1, <1>2

-----------------------------------------------------------------------------
(* The paths: the highlighted ones are the routes between the two nodes.   *)

\* The graph paths count with the same library.
LEMMA GpCounts ==
  /\ \A set : P!Cardinality(set) = Cardinality(set)
  /\ \A s : P!ToSet(s) = {s[i] : i \in DOMAIN s}
<1>1. \A set : P!Cardinality(set) = Cardinality(set) BY DEF P!Cardinality, Cardinality
<1>2. \A s : P!ToSet(s) = {s[i] : i \in DOMAIN s} BY DEF P!ToSet
<1> QED BY <1>1, <1>2

GpSeqs == Seq(P!GpNodes)

GpGiven ==
  /\ gpLinks \subseteq ({Start} \cup Between) \X (Between \cup {Goal})
  /\ gpZero \subseteq Uncounted /\ gpMax \in HopLimits

\* A path of the graph from the first node that passes no node twice.
GpWalk(p) ==
  /\ p \in GpSeqs /\ Len(p) >= 1 /\ p[1] = Start
  /\ \A i, j \in 1..Len(p) : p[i] = p[j] => i = j
  /\ \A i \in 1..Len(p) - 1 : <<p[i], p[i + 1]>> \in gpLinks

GpPrefix(x, p) == Len(x) <= Len(p) /\ \A i \in 1..Len(x) : x[i] = p[i]

LEMMA GpSameSeq ==
  ASSUME NEW p \in GpSeqs, NEW x \in GpSeqs, Len(x) = Len(p), GpPrefix(x, p)
  PROVE  x = p
<1>1. x \in [1..Len(p) -> P!GpNodes] /\ p \in [1..Len(p) -> P!GpNodes] BY DEF GpSeqs
<1>2. \A i \in 1..Len(p) : x[i] = p[i] BY DEF GpPrefix
<1> QED BY <1>1, <1>2

GpCounted(p) == {i \in 2..Len(p) - 1 : p[i] \notin gpZero}

LEMMA GpHops ==
  ASSUME NEW p \in GpSeqs
  PROVE  /\ P!Hops(p) = Cardinality(GpCounted(p)) /\ P!Hops(p) \in Nat
         /\ IsFiniteSet(GpCounted(p))
<1>1. Len(p) \in Nat /\ 2 \in Int /\ Len(p) - 1 \in Int BY DEF GpSeqs
<1>2. IsFiniteSet(2..Len(p) - 1) BY <1>1, FS_Interval
<1>3. GpCounted(p) \subseteq 2..Len(p) - 1 BY DEF GpCounted
<1>4. IsFiniteSet(GpCounted(p)) BY <1>2, <1>3, FS_Subset
<1>5. P!Hops(p) = Cardinality(GpCounted(p)) BY GpCounts DEF P!Hops, GpCounted
<1> QED BY <1>4, <1>5, FS_CardinalityType

\* Along a path the hops grow,
LEMMA GpHopsGrow ==
  ASSUME NEW p \in GpSeqs, NEW x \in GpSeqs, GpPrefix(x, p)
  PROVE  P!Hops(x) <= P!Hops(p)
<1>1. GpCounted(x) \subseteq GpCounted(p) BY DEF GpCounted, GpPrefix
<1> QED BY <1>1, GpHops, FS_Subset

\* by at most one a step,
LEMMA GpHopsNext ==
  ASSUME NEW p \in GpSeqs, NEW m \in P!GpNodes
  PROVE  /\ Append(p, m) \in GpSeqs /\ Len(Append(p, m)) = Len(p) + 1
         /\ P!Hops(Append(p, m)) <= P!Hops(p) + 1
<1> DEFINE x == Append(p, m)
<1>1. /\ x \in GpSeqs /\ Len(x) = Len(p) + 1 /\ \A i \in 1..Len(p) : x[i] = p[i]
  BY DEF GpSeqs
<1> HIDE DEF x
<1>2. Len(p) \in Nat BY DEF GpSeqs
<1>3. GpCounted(x) \subseteq GpCounted(p) \cup {Len(p)} BY <1>1, <1>2 DEF GpCounted
<1>4. /\ IsFiniteSet(GpCounted(p) \cup {Len(p)})
      /\ \/ Cardinality(GpCounted(p) \cup {Len(p)}) = Cardinality(GpCounted(p))
         \/ Cardinality(GpCounted(p) \cup {Len(p)}) = Cardinality(GpCounted(p)) + 1
  BY GpHops, FS_AddElement
<1>5. Cardinality(GpCounted(x)) <= Cardinality(GpCounted(p) \cup {Len(p)}) BY <1>3, <1>4, FS_Subset
<1>6. P!Hops(x) <= P!Hops(p) + 1 BY <1>1, <1>4, <1>5, GpHops
<1> QED BY <1>1, <1>6 DEF x

\* and are no more than the nodes between the ends.
LEMMA GpHopsFew ==
  ASSUME NEW p \in GpSeqs, Len(p) >= 1
  PROVE  /\ Len(p) = 1 => P!Hops(p) = 0
         /\ Len(p) > 1 => P!Hops(p) <= Len(p) - 2
<1>1. Len(p) \in Nat /\ 2 \in Int /\ Len(p) - 1 \in Int BY DEF GpSeqs
<1>2. IsFiniteSet(2..Len(p) - 1) /\ GpCounted(p) \subseteq 2..Len(p) - 1
  BY <1>1, FS_Interval DEF GpCounted
<1>3. Cardinality(2..Len(p) - 1) = IF 2 > Len(p) - 1 THEN 0 ELSE (Len(p) - 1) - 2 + 1
  BY <1>1, FS_Interval
<1>4. P!Hops(p) <= Cardinality(2..Len(p) - 1) /\ P!Hops(p) \in Nat BY <1>2, FS_Subset, GpHops
<1>5. CASE Len(p) = 1
  <2>1. 2 > Len(p) - 1 BY <1>5
  <2>2. Cardinality(2..Len(p) - 1) = 0 BY <1>3, <2>1
  <2> QED BY <1>4, <1>5, <2>2
<1>6. CASE Len(p) = 2
  <2>1. 2 > Len(p) - 1 BY <1>6
  <2>2. Cardinality(2..Len(p) - 1) = 0 BY <1>3, <2>1
  <2>3. Len(p) - 2 = 0 BY <1>6
  <2> QED BY <1>4, <1>6, <2>2, <2>3
<1>7. CASE Len(p) > 2
  <2>1. ~(2 > Len(p) - 1) BY <1>1, <1>7
  <2>2. Cardinality(2..Len(p) - 1) = (Len(p) - 1) - 2 + 1 BY <1>3, <2>1
  <2>3. (Len(p) - 1) - 2 + 1 = Len(p) - 2 /\ Len(p) # 1 BY <1>1, <1>7
  <2> QED BY <1>4, <2>2, <2>3
<1>8. Len(p) = 1 \/ Len(p) = 2 \/ Len(p) > 2
  <2>1. \A n \in Nat : n >= 1 => n = 1 \/ n = 2 \/ n > 2 OBVIOUS
  <2> QED BY <1>1, <2>1
<1> QED BY <1>5, <1>6, <1>7, <1>8, Zenon

LEMMA GpNodesFinite == IsFiniteSet(P!GpNodes)
<1>1. P!GpNodes = (Between \cup {Start}) \cup {Goal} BY DEF P!GpNodes
<1>2. IsFiniteSet(Between) BY PathsAssumption
<1>3. IsFiniteSet(Between \cup {Start}) BY <1>2, FS_AddElement
<1> QED BY <1>1, <1>3, FS_AddElement

\* What a search may add: the path and one more node.
LEMMA GpExtensions ==
  ASSUME GpGiven, NEW p, GpWalk(p)
  PROVE  /\ \A x \in P!Extensions(p) : /\ GpWalk(x) /\ Len(x) = Len(p) + 1
                                      /\ P!Hops(x) <= P!Hops(p) + 1
         /\ \A r : GpWalk(r) /\ Len(p) < Len(r) /\ GpPrefix(p, r) =>
              \E x \in P!Extensions(p) : GpPrefix(x, r)
         /\ IsFiniteSet(P!Extensions(p))
<1> DEFINE n == Len(p)
           near == P!Neighbours(p[n]) \ P!ToSet(p)
<1>1. p \in GpSeqs /\ n \in Nat /\ n >= 1 /\ n \in 1..n /\ DOMAIN p = 1..n BY DEF GpWalk, GpSeqs
<1>2. P!Extensions(p) = {Append(p, m) : m \in near} BY DEF P!Extensions
<1>3. near \subseteq P!GpNodes BY DEF P!Neighbours
<1>4. \A m : m \in near <=> m \in P!GpNodes /\ <<p[n], m>> \in gpLinks /\ \A i \in 1..n : p[i] # m
  <2>1. P!ToSet(p) = {p[i] : i \in 1..n} BY <1>1, GpCounts
  <2> QED BY <2>1 DEF P!Neighbours
<1>5. \A m \in P!GpNodes : /\ Append(p, m) \in GpSeqs /\ Len(Append(p, m)) = n + 1
                          /\ Append(p, m)[n + 1] = m /\ \A i \in 1..n : Append(p, m)[i] = p[i]
  BY <1>1 DEF GpSeqs
<1> HIDE DEF near, n
<1>6. ASSUME NEW m \in near
      PROVE  /\ GpWalk(Append(p, m)) /\ Len(Append(p, m)) = n + 1
             /\ P!Hops(Append(p, m)) <= P!Hops(p) + 1
  <2> DEFINE x == Append(p, m)
  <2>1. /\ x \in GpSeqs /\ Len(x) = n + 1 /\ x[n + 1] = m /\ \A i \in 1..n : x[i] = p[i]
    BY <1>3, <1>5
  <2>2. P!Hops(x) <= P!Hops(p) + 1 BY <1>1, <1>3, GpHopsNext
  <2> HIDE DEF x
  <2>3. x[1] = Start BY <1>1, <2>1 DEF GpWalk, n
  <2>4. ASSUME NEW i \in 1..n + 1, NEW j \in 1..n + 1, x[i] = x[j] PROVE i = j
    <3>1. CASE i \in 1..n /\ j \in 1..n
      <4>1. p[i] = p[j] BY <2>1, <2>4, <3>1
      <4> QED BY <3>1, <4>1 DEF GpWalk, n
    <3>2. CASE i = n + 1 /\ j \in 1..n BY <1>4, <2>1, <2>4, <3>2
    <3>3. CASE j = n + 1 /\ i \in 1..n BY <1>4, <2>1, <2>4, <3>3
    <3> QED BY <1>1, <3>1, <3>2, <3>3
  <2>5. ASSUME NEW i \in 1..n PROVE <<x[i], x[i + 1]>> \in gpLinks
    <3>1. CASE i = n BY <1>1, <1>4, <2>1, <3>1
    <3>2. CASE i # n
      <4>1. i \in 1..n - 1 /\ i + 1 \in 1..n BY <1>1, <3>2
      <4>2. <<p[i], p[i + 1]>> \in gpLinks BY <4>1 DEF GpWalk, n
      <4> QED BY <2>1, <4>1, <4>2
    <3> QED BY <3>1, <3>2
  <2>6. Len(x) - 1 = n /\ Len(x) >= 1 BY <1>1, <2>1
  <2>7. GpWalk(x) BY <2>1, <2>3, <2>4, <2>5, <2>6 DEF GpWalk
  <2> QED BY <2>1, <2>2, <2>7 DEF x
<1>7. ASSUME NEW r, GpWalk(r), n < Len(r), GpPrefix(p, r)
      PROVE  \E x \in P!Extensions(p) : GpPrefix(x, r)
  <2> DEFINE m == r[n + 1]
  <2>1. r \in GpSeqs /\ Len(r) \in Nat /\ n + 1 \in 1..Len(r) /\ n \in 1..Len(r) - 1 /\ 1..n \subseteq 1..Len(r)
    BY <1>1, <1>7 DEF GpWalk, GpSeqs
  <2>2. \A i \in 1..n : p[i] = r[i] BY <1>7 DEF GpPrefix, n
  <2>3. m \in P!GpNodes BY <2>1 DEF GpSeqs
  <2>4. <<p[n], m>> \in gpLinks BY <1>1, <1>7, <2>1, <2>2 DEF GpWalk
  <2>5. \A i \in 1..n : p[i] # m
    <3>1. \A i \in 1..n : i \in 1..Len(r) /\ i # n + 1 BY <1>1, <2>1
    <3> QED BY <1>7, <2>1, <2>2, <3>1 DEF GpWalk
  <2>6. m \in near BY <1>4, <2>3, <2>4, <2>5
  <2>7. GpPrefix(Append(p, m), r)
    <3> DEFINE x == Append(p, m)
    <3>1. Len(x) = n + 1 /\ x[n + 1] = m /\ \A i \in 1..n : x[i] = p[i] BY <1>5, <2>3
    <3> HIDE DEF x
    <3>2. \A i \in 1..n + 1 : i = n + 1 \/ i \in 1..n BY <1>1
    <3>3. \A i \in 1..n + 1 : x[i] = r[i] BY <2>2, <3>1, <3>2
    <3>4. Len(x) <= Len(r) BY <1>1, <1>7, <2>1, <3>1
    <3>5. GpPrefix(x, r) BY <3>1, <3>3, <3>4 DEF GpPrefix
    <3> QED BY <3>5 DEF x
  <2> QED BY <1>2, <2>6, <2>7
<1>8. IsFiniteSet(P!Extensions(p))
  <2>1. IsFiniteSet(P!GpNodes) BY GpNodesFinite
  <2>2. IsFiniteSet(near) BY <1>3, <2>1, FS_Subset
  <2> DEFINE f == [m \in near |-> Append(p, m)]
  <2>3. f \in Surjection(near, P!Extensions(p)) BY <1>2 DEF Surjection
  <2> HIDE DEF f
  <2> QED BY <2>2, <2>3, FS_Surjection
<1>9. \A x \in P!Extensions(p) : GpWalk(x) /\ Len(x) = n + 1 /\ P!Hops(x) <= P!Hops(p) + 1
  BY <1>2, <1>6
<1> QED BY <1>7, <1>8, <1>9 DEF n

\* The head of a queue leaves it, and some paths come to its end in some order.
GpMoved(old, new, added) ==
  /\ new \in Seq(GpSeqs) /\ Len(new) >= Len(old) - 1
  /\ \A i \in 1..Len(old) - 1 : new[i] = old[i + 1]
  /\ \A i \in Len(old)..Len(new) : new[i] \in added
  /\ \A x \in added : \E i \in Len(old)..Len(new) : new[i] = x

LEMMA GpOrders ==
  ASSUME NEW set, IsFiniteSet(set), NEW s \in P!SetToSeqs(set)
  PROVE  s \in Seq(set) /\ \A x \in set : \E i \in 1..Len(s) : s[i] = x
<1> DEFINE k == Cardinality(set)
           dom == 1..k
<1>1. k \in Nat BY FS_CardinalityType
<1>2. P!Cardinality(set) = k BY GpCounts
<1>3. s \in [dom -> set] /\ \A i, j \in dom : i # j => s[i] # s[j] BY <1>2 DEF P!SetToSeqs
<1>4. s \in Injection(dom, set) BY <1>3 DEF Injection, IsInjective
<1>5. Cardinality(dom) = k /\ IsFiniteSet(dom)
  <2>1. Cardinality(dom) = IF 1 > k THEN 0 ELSE k - 1 + 1 BY <1>1, FS_Interval
  <2> QED BY <1>1, <2>1, FS_Interval
<1>6. s \in Surjection(dom, set) BY <1>4, <1>5, FS_Injection
<1> HIDE DEF k
<1>7. s \in Seq(set) /\ Len(s) = k BY <1>1, <1>3
<1> QED BY <1>6, <1>7 DEF Surjection

LEMMA GpDropped ==
  ASSUME NEW q \in Seq(GpSeqs), q # <<>>, NEW new, new = Tail(q)
  PROVE  GpMoved(q, new, {}) /\ Len(new) = Len(q) - 1
<1>1. new \in Seq(GpSeqs) /\ Len(new) = Len(q) - 1 /\ Len(q) \in Nat OBVIOUS
<1>2. \A i \in 1..Len(q) - 1 : new[i] = q[i + 1] OBVIOUS
<1>3. Len(q)..Len(new) = {} BY <1>1
<1> QED BY <1>1, <1>2, <1>3 DEF GpMoved

LEMMA GpExtended ==
  ASSUME NEW q \in Seq(GpSeqs), q # <<>>, NEW added \in SUBSET GpSeqs, IsFiniteSet(added),
         NEW more \in P!SetToSeqs(added), NEW new, new = Tail(q) \o more
  PROVE  GpMoved(q, new, added)
<1> DEFINE t == Tail(q)
           n == Len(q)
<1>1. t \in Seq(GpSeqs) /\ Len(t) = n - 1 /\ n \in Nat /\ n > 0 OBVIOUS
<1>2. \A i \in 1..n - 1 : t[i] = q[i + 1] OBVIOUS
<1>3. more \in Seq(added) /\ \A x \in added : \E i \in 1..Len(more) : more[i] = x BY GpOrders
<1>4. more \in Seq(GpSeqs) /\ Len(more) \in Nat BY <1>3
<1> HIDE DEF t, n
<1>5. new = t \o more BY DEF t
<1>6. \A u, v \in Seq(GpSeqs) : /\ u \o v \in Seq(GpSeqs) /\ Len(u \o v) = Len(u) + Len(v)
                                /\ \A i \in 1..Len(u) : (u \o v)[i] = u[i]
                                /\ \A i \in 1..Len(v) : (u \o v)[Len(u) + i] = v[i]
  OBVIOUS
<1>7. /\ new \in Seq(GpSeqs) /\ Len(new) = Len(t) + Len(more)
      /\ \A i \in 1..Len(t) : new[i] = t[i]
      /\ \A i \in 1..Len(more) : new[Len(t) + i] = more[i]
  <2>1. t \in Seq(GpSeqs) /\ more \in Seq(GpSeqs) BY <1>1, <1>4
  <2>2. /\ t \o more \in Seq(GpSeqs) /\ Len(t \o more) = Len(t) + Len(more)
        /\ \A i \in 1..Len(t) : (t \o more)[i] = t[i]
        /\ \A i \in 1..Len(more) : (t \o more)[Len(t) + i] = more[i]
    BY <1>6, <2>1
  <2> QED BY <1>5, <2>2, Zenon
<1>8. \A i \in 1..n - 1 : new[i] = q[i + 1] BY <1>1, <1>2, <1>7
<1>9. ASSUME NEW i \in n..Len(new) PROVE new[i] \in added
  <2>1. i - (n - 1) \in 1..Len(more) /\ (n - 1) + (i - (n - 1)) = i BY <1>1, <1>4, <1>7
  <2>2. new[i] = more[i - (n - 1)] BY <1>1, <1>7, <2>1
  <2>3. \A j \in 1..Len(more) : more[j] \in added BY <1>3
  <2> QED BY <2>1, <2>2, <2>3
<1>10. ASSUME NEW x \in added PROVE \E i \in n..Len(new) : new[i] = x
  <2>1. PICK j \in 1..Len(more) : more[j] = x BY <1>3
  <2>2. new[(n - 1) + j] = x BY <1>1, <1>7, <2>1
  <2>3. (n - 1) + j \in n..Len(new) BY <1>1, <1>4, <1>7
  <2> QED BY <2>2, <2>3
<1> QED BY <1>1, <1>7, <1>8, <1>9, <1>10 DEF GpMoved, n
GpWaits(q, r) == \E i \in 1..Len(q) : GpPrefix(q[i], r)

\* What is in the queue after a turn: what was behind the head, and what came.
LEMMA GpMovedTo ==
  ASSUME NEW q \in Seq(GpSeqs), q # <<>>, NEW new, NEW added, GpMoved(q, new, added)
  PROVE  /\ new \in Seq(GpSeqs)
         /\ \A i \in 1..Len(new) : \/ i + 1 \in 2..Len(q) /\ new[i] = q[i + 1]
                                   \/ i >= Len(q) /\ new[i] \in added
         /\ \A r : GpWaits(q, r) => GpPrefix(q[1], r) \/ GpWaits(new, r)
         /\ \A r : (\E x \in added : GpPrefix(x, r)) => GpWaits(new, r)
         /\ Len(q) \in Nat /\ Len(new) \in Nat /\ 1 \in 1..Len(q) /\ Head(q) = q[1]
<1>1. /\ new \in Seq(GpSeqs) /\ Len(new) >= Len(q) - 1
      /\ \A i \in 1..Len(q) - 1 : new[i] = q[i + 1]
      /\ \A i \in Len(q)..Len(new) : new[i] \in added
      /\ \A x \in added : \E i \in Len(q)..Len(new) : new[i] = x
  BY DEF GpMoved
<1>2. Len(q) \in Nat /\ Len(q) > 0 /\ Len(new) \in Nat /\ Head(q) = q[1] /\ 1 \in 1..Len(q) BY <1>1
<1>3. \A i \in 1..Len(new) : \/ i \in 1..Len(q) - 1 /\ i + 1 \in 2..Len(q)
                             \/ i \in Len(q)..Len(new) /\ i >= Len(q)
  BY <1>2
<1>4. \A i \in 1..Len(new) : \/ i + 1 \in 2..Len(q) /\ new[i] = q[i + 1]
                             \/ i >= Len(q) /\ new[i] \in added
  BY <1>1, <1>3
<1>5. ASSUME NEW r, GpWaits(q, r) PROVE GpPrefix(q[1], r) \/ GpWaits(new, r)
  <2>1. PICK i \in 1..Len(q) : GpPrefix(q[i], r) BY <1>5 DEF GpWaits
  <2>2. CASE i = 1 BY <2>1, <2>2
  <2>3. CASE i # 1
    <3>1. i - 1 \in 1..Len(q) - 1 /\ i - 1 \in 1..Len(new) /\ (i - 1) + 1 = i BY <1>1, <1>2, <2>3
    <3>2. new[i - 1] = q[i] BY <1>1, <3>1
    <3> QED BY <2>1, <3>1, <3>2 DEF GpWaits
  <2> QED BY <2>2, <2>3
<1>6. ASSUME NEW r, NEW x \in added, GpPrefix(x, r) PROVE GpWaits(new, r)
  <2>1. PICK i \in Len(q)..Len(new) : new[i] = x BY <1>1
  <2>2. i \in 1..Len(new) BY <1>2
  <2> QED BY <1>6, <2>1, <2>2 DEF GpWaits
<1> QED BY <1>1, <1>2, <1>4, <1>5, <1>6

\* The search goes by length: at most two lengths wait, and what was found is no longer.
GpSorted(s) == \A i, j \in 1..Len(s) : i <= j => Len(s[i]) <= Len(s[j])
GpOrdered(q, found) ==
  /\ GpSorted(q)
  /\ \A i, j \in 1..Len(q) : Len(q[j]) <= Len(q[i]) + 1
  /\ \A i \in 1..Len(q) : \A k \in 1..Len(found) : Len(found[k]) <= Len(q[i])

LEMMA GpStaysOrdered ==
  ASSUME NEW q \in Seq(GpSeqs), q # <<>>, NEW new, NEW added, GpMoved(q, new, added),
         NEW found \in Seq(GpSeqs), GpOrdered(q, found), GpSorted(found),
         \A x \in added : Len(x) = Len(q[1]) + 1
  PROVE  /\ GpOrdered(new, found)
         /\ GpOrdered(new, Append(found, q[1])) /\ GpSorted(Append(found, q[1]))
<1> DEFINE h == Len(q[1])
           more == Append(found, q[1])
<1>1. /\ Len(q) \in Nat /\ Len(new) \in Nat /\ 1 \in 1..Len(q)
      /\ \A i \in 1..Len(new) : \/ i + 1 \in 2..Len(q) /\ new[i] = q[i + 1]
                                \/ i >= Len(q) /\ new[i] \in added
  BY GpMovedTo
<1>2. new \in Seq(GpSeqs) BY GpMovedTo
<1>3. /\ \A i \in 1..Len(q) : Len(q[i]) \in Nat
      /\ \A i \in 1..Len(new) : Len(new[i]) \in Nat
      /\ \A i \in 1..Len(found) : Len(found[i]) \in Nat
  BY <1>2 DEF GpSeqs
<1>4. h \in Nat /\ \A i \in 1..Len(q) : h <= Len(q[i]) /\ Len(q[i]) <= h + 1
  BY <1>1, <1>3 DEF GpOrdered, GpSorted
<1> HIDE DEF h
<1>5. \A x \in added : Len(x) = h + 1 BY DEF h
<1>6. \A i \in 1..Len(new) : h <= Len(new[i]) /\ Len(new[i]) <= h + 1
  <2> TAKE i \in 1..Len(new)
  <2>1. CASE i + 1 \in 2..Len(q) /\ new[i] = q[i + 1]
    <3>1. i + 1 \in 1..Len(q) BY <1>1, <2>1
    <3> QED BY <1>4, <2>1, <3>1
  <2>2. CASE new[i] \in added BY <1>4, <1>5, <2>2
  <2> QED BY <1>1, <2>1, <2>2
<1>7. ASSUME NEW i \in 1..Len(new), NEW j \in 1..Len(new), i <= j PROVE Len(new[i]) <= Len(new[j])
  <2>1. CASE new[j] \in added
    <3>1. Len(new[j]) = h + 1 /\ Len(new[i]) <= h + 1 BY <1>5, <1>6, <2>1
    <3> QED BY <3>1
  <2>2. CASE j + 1 \in 2..Len(q) /\ new[j] = q[j + 1]
    <3>1. ~(i >= Len(q)) /\ i + 1 <= j + 1 BY <1>1, <1>7, <2>2
    <3>2. i + 1 \in 2..Len(q) /\ new[i] = q[i + 1] BY <1>1, <3>1
    <3>3. i + 1 \in 1..Len(q) /\ j + 1 \in 1..Len(q) BY <1>1, <2>2, <3>2
    <3>4. Len(q[i + 1]) <= Len(q[j + 1]) BY <3>1, <3>3 DEF GpOrdered, GpSorted
    <3> QED BY <2>2, <3>2, <3>4
  <2> QED BY <1>1, <2>1, <2>2
<1>8. \A i, j \in 1..Len(new) : Len(new[j]) <= Len(new[i]) + 1
  <2> TAKE i, j \in 1..Len(new)
  <2>1. h <= Len(new[i]) /\ Len(new[j]) <= h + 1 /\ Len(new[i]) \in Nat /\ Len(new[j]) \in Nat
    BY <1>3, <1>6
  <2> QED BY <1>4, <2>1
<1>9. \A k \in 1..Len(found) : Len(found[k]) <= h BY <1>1 DEF GpOrdered, h
<1>10. ASSUME NEW i \in 1..Len(new), NEW k \in 1..Len(found) PROVE Len(found[k]) <= Len(new[i])
  <2>1. h <= Len(new[i]) /\ Len(found[k]) <= h /\ Len(new[i]) \in Nat /\ Len(found[k]) \in Nat
    BY <1>3, <1>6, <1>9
  <2> QED BY <1>4, <2>1
<1>11. GpSorted(new) BY <1>7 DEF GpSorted
<1>12. GpOrdered(new, found) BY <1>8, <1>10, <1>11 DEF GpOrdered
<1>13. /\ Len(more) = Len(found) + 1 /\ Len(found) \in Nat /\ Len(more[Len(found) + 1]) = h
       /\ \A k \in 1..Len(found) : more[k] = found[k]
  BY <1>1 DEF h
<1> HIDE DEF more
<1>14. \A k \in 1..Len(more) : k = Len(found) + 1 \/ k \in 1..Len(found) BY <1>13
<1>15. \A k \in 1..Len(more) : Len(more[k]) <= h /\ Len(more[k]) \in Nat
  BY <1>3, <1>4, <1>9, <1>13, <1>14
<1>16. ASSUME NEW i \in 1..Len(new), NEW k \in 1..Len(more) PROVE Len(more[k]) <= Len(new[i])
  <2>1. h <= Len(new[i]) /\ Len(more[k]) <= h /\ Len(new[i]) \in Nat /\ Len(more[k]) \in Nat
    BY <1>3, <1>6, <1>15
  <2> QED BY <1>4, <2>1
<1>17. GpOrdered(new, more) BY <1>8, <1>11, <1>16 DEF GpOrdered
<1>18. ASSUME NEW i \in 1..Len(more), NEW j \in 1..Len(more), i <= j
       PROVE Len(more[i]) <= Len(more[j])
  <2>1. CASE j = Len(found) + 1 BY <1>13, <1>15, <2>1
  <2>2. CASE j # Len(found) + 1
    <3>1. i \in 1..Len(found) /\ j \in 1..Len(found) BY <1>13, <1>18, <2>2
    <3>2. Len(found[i]) <= Len(found[j]) BY <1>18, <3>1 DEF GpSorted
    <3> QED BY <1>13, <3>1, <3>2
  <2> QED BY <2>1, <2>2
<1>19. GpSorted(more) BY <1>18 DEF GpSorted
<1> QED BY <1>12, <1>17, <1>19 DEF more
GpWithin(p) == GpWalk(p) /\ P!Hops(p) <= gpMax
GpFound(p) == GpWithin(p) /\ p[Len(p)] = Goal
GpWanted(p) == GpWalk(p) /\ p[Len(p)] = Goal /\ Len(p) - 2 <= gpMax /\ gpMax > 0
GpIn(p, s) == \E i \in 1..Len(s) : s[i] = p

GpForms ==
  /\ GpGiven
  /\ gpStep \in {"reach", "paths", "done"}
  /\ gpQueue \in Seq(GpSeqs) /\ \A i \in 1..Len(gpQueue) : GpWalk(gpQueue[i])
  /\ \A p \in gpSeen : GpWalk(p)
  /\ gpNear.nodes \subseteq P!GpNodes /\ gpNear.links \subseteq gpLinks
  /\ gpPaths \in Seq(GpSeqs) /\ Len(gpPaths) <= PathLimit
  /\ \A i \in 1..Len(gpPaths) : GpFound(gpPaths[i])
  /\ GpSorted(gpPaths)

\* Every path within the limit was extended, or a beginning of it waits;
GpReaching == \A p : GpWithin(p) => p \in gpSeen \/ GpWaits(gpQueue, p)
\* then all of it is highlighted.
GpReached == \A p : GpWithin(p) => P!ToSet(p) \subseteq gpNear.nodes /\ P!Steps(p) \subseteq gpNear.links
\* The same of the routes wanted, in the order of their lengths.
GpFinding ==
  /\ \A i \in 1..Len(gpQueue) : GpWithin(gpQueue[i])
  /\ GpOrdered(gpQueue, gpPaths)
  /\ \A r : GpWanted(r) => GpIn(r, gpPaths) \/ GpWaits(gpQueue, r)

GpSound ==
  /\ GpForms
  /\ gpStep = "reach" => GpReaching /\ gpPaths = <<>>
  /\ gpStep # "reach" => GpReached
  /\ gpStep = "paths" => GpFinding
  /\ gpStep = "done" => (Len(gpPaths) < PathLimit => \A r : GpWanted(r) => GpIn(r, gpPaths))

\* The data searched do not change.
LEMMA GpSame ==
  ASSUME UNCHANGED <<gpLinks, gpZero, gpMax>>
  PROVE  /\ GpGiven' <=> GpGiven
         /\ \A p : /\ GpWalk(p)' <=> GpWalk(p)
                   /\ P!Hops(p)' = P!Hops(p)
                   /\ GpWithin(p)' <=> GpWithin(p)
                   /\ GpFound(p)' <=> GpFound(p)
                   /\ GpWanted(p)' <=> GpWanted(p)
<1>1. GpGiven' <=> GpGiven BY DEF GpGiven
<1>2. \A p : GpWalk(p)' <=> GpWalk(p) BY DEF GpWalk
<1>3. \A p : P!Hops(p)' = P!Hops(p) BY DEF P!Hops
<1>4. \A p : GpWithin(p)' <=> GpWithin(p) BY <1>2, <1>3 DEF GpWithin
<1>5. \A p : GpFound(p)' <=> GpFound(p) BY <1>4 DEF GpFound
<1>6. \A p : GpWanted(p)' <=> GpWanted(p) BY <1>2 DEF GpWanted
<1> QED BY <1>1, <1>2, <1>3, <1>4, <1>5, <1>6

\* What a turn does to the queue.
LEMMA GpTurns ==
  ASSUME GpGiven, gpQueue \in Seq(GpSeqs), gpQueue # <<>>, GpWalk(gpQueue[1])
  PROVE  /\ P!Drop => GpMoved(gpQueue, gpQueue', {}) /\ gpSeen' = gpSeen
         /\ P!Extend(gpQueue[1]) =>
              /\ GpMoved(gpQueue, gpQueue', P!Extensions(gpQueue[1]))
              /\ gpSeen' = gpSeen \cup {gpQueue[1]}
<1>1. ASSUME P!Drop PROVE GpMoved(gpQueue, gpQueue', {}) /\ gpSeen' = gpSeen
  <2>1. gpQueue' = Tail(gpQueue) /\ gpSeen' = gpSeen BY <1>1 DEF P!Drop
  <2> QED BY <2>1, GpDropped
<1>2. ASSUME P!Extend(gpQueue[1])
      PROVE  /\ GpMoved(gpQueue, gpQueue', P!Extensions(gpQueue[1]))
             /\ gpSeen' = gpSeen \cup {gpQueue[1]}
  <2> DEFINE added == P!Extensions(gpQueue[1])
  <2>1. IsFiniteSet(added) /\ \A x \in added : GpWalk(x) BY GpExtensions
  <2>2. added \subseteq GpSeqs BY <2>1 DEF GpWalk
  <2>3. PICK more \in P!SetToSeqs(added) : gpQueue' = Tail(gpQueue) \o more BY <1>2 DEF P!Extend
  <2> HIDE DEF added
  <2>4. GpMoved(gpQueue, gpQueue', added) BY <2>1, <2>2, <2>3, GpExtended
  <2> QED BY <1>2, <2>4 DEF P!Extend, added
<1> QED BY <1>1, <1>2

LEMMA GpReachTurn ==
  ASSUME GpSound, P!ReachStep
  PROVE  GpSound'
<1> DEFINE h == gpQueue[1]
<1>1. /\ gpStep = "reach" /\ gpQueue # <<>>
      /\ UNCHANGED <<gpLinks, gpZero, gpMax, gpStep, gpNear, gpPaths>>
  BY DEF P!ReachStep
<1>2. GpForms /\ GpReaching /\ gpPaths = <<>> BY <1>1 DEF GpSound
<1>3. /\ GpGiven /\ gpQueue \in Seq(GpSeqs) /\ \A i \in 1..Len(gpQueue) : GpWalk(gpQueue[i])
      /\ \A p \in gpSeen : GpWalk(p)
  BY <1>2 DEF GpForms
<1>4. Head(gpQueue) = h /\ 1 \in 1..Len(gpQueue) BY <1>1, <1>3
<1>5. GpWalk(h) BY <1>3, <1>4
<1>6. PICK added \in {{}, P!Extensions(h)} :
        /\ GpMoved(gpQueue, gpQueue', added)
        /\ \/ P!Hops(h) > gpMax /\ gpSeen' = gpSeen /\ added = {}
           \/ P!Hops(h) <= gpMax /\ gpSeen' = gpSeen \cup {h} /\ added = P!Extensions(h)
  <2>1. \/ P!Hops(h) > gpMax /\ P!Drop
        \/ P!Hops(h) <= gpMax /\ P!Extend(h)
    BY <1>4 DEF P!ReachStep
  <2>2. CASE P!Hops(h) > gpMax /\ P!Drop
    <3>1. GpMoved(gpQueue, gpQueue', {}) /\ gpSeen' = gpSeen BY <1>1, <1>3, <1>5, <2>2, GpTurns
    <3> QED BY <2>2, <3>1
  <2>3. CASE P!Hops(h) <= gpMax /\ P!Extend(h)
    <3>1. GpMoved(gpQueue, gpQueue', P!Extensions(h)) /\ gpSeen' = gpSeen \cup {h}
      BY <1>1, <1>3, <1>5, <2>3, GpTurns
    <3> QED BY <2>3, <3>1
  <2> QED BY <2>1, <2>2, <2>3
<1>7. \A x \in added : GpWalk(x) BY <1>3, <1>5, <1>6, GpExtensions
<1>8. /\ gpQueue' \in Seq(GpSeqs)
      /\ \A i \in 1..Len(gpQueue') : \/ i + 1 \in 2..Len(gpQueue) /\ gpQueue'[i] = gpQueue[i + 1]
                                     \/ i >= Len(gpQueue) /\ gpQueue'[i] \in added
      /\ \A r : GpWaits(gpQueue, r) => GpPrefix(h, r) \/ GpWaits(gpQueue', r)
      /\ \A r : (\E x \in added : GpPrefix(x, r)) => GpWaits(gpQueue', r)
      /\ Len(gpQueue) \in Nat
  BY <1>1, <1>3, <1>6, GpMovedTo
<1>9. \A i \in 1..Len(gpQueue') : GpWalk(gpQueue'[i])
  <2> TAKE i \in 1..Len(gpQueue')
  <2>1. CASE gpQueue'[i] \in added BY <1>7, <2>1
  <2>2. CASE i + 1 \in 2..Len(gpQueue) /\ gpQueue'[i] = gpQueue[i + 1]
    <3>1. i + 1 \in 1..Len(gpQueue) BY <1>8, <2>2
    <3> QED BY <1>3, <2>2, <3>1
  <2> QED BY <1>8, <2>1, <2>2
<1>10. \A p \in gpSeen' : GpWalk(p) BY <1>3, <1>5, <1>6
<1>11. ASSUME NEW p, GpWithin(p) PROVE p \in gpSeen' \/ GpWaits(gpQueue', p)
  <2>1. CASE p \in gpSeen BY <1>6, <2>1
  <2>2. CASE GpPrefix(h, p)
    <3>1. GpWalk(p) /\ P!Hops(p) <= gpMax BY <1>11 DEF GpWithin
    <3>2. P!Hops(h) <= P!Hops(p) BY <1>5, <2>2, <3>1, GpHopsGrow DEF GpWalk
    <3>3. P!Hops(h) \in Nat /\ P!Hops(p) \in Nat /\ gpMax \in Nat
      BY <1>3, <1>5, <3>1, GpHops, PathsAssumption DEF GpWalk, GpGiven
    <3>4. gpSeen' = gpSeen \cup {h} /\ added = P!Extensions(h) BY <1>6, <3>1, <3>2, <3>3
    <3>5. CASE Len(h) = Len(p)
      <4>1. h = p BY <1>5, <2>2, <3>1, <3>5, GpSameSeq DEF GpWalk
      <4> QED BY <3>4, <4>1
    <3>6. CASE Len(h) # Len(p)
      <4>1. Len(h) < Len(p)
        <5>1. Len(h) <= Len(p) BY <2>2 DEF GpPrefix
        <5>2. Len(h) \in Nat /\ Len(p) \in Nat BY <1>5, <3>1 DEF GpWalk, GpSeqs
        <5> QED BY <3>6, <5>1, <5>2
      <4>2. \E x \in added : GpPrefix(x, p) BY <1>3, <1>5, <2>2, <3>1, <3>4, <4>1, GpExtensions
      <4> QED BY <1>8, <4>2
    <3> QED BY <3>5, <3>6
  <2> QED BY <1>2, <1>8, <1>11, <2>1, <2>2 DEF GpReaching
<1>12. GpReaching'
  <2>1. \A p : GpWithin(p)' <=> GpWithin(p) BY <1>1, GpSame
  <2>2. \A p : GpWaits(gpQueue', p) <=> GpWaits(gpQueue, p)' BY DEF GpWaits, GpPrefix
  <2> QED BY <1>11, <2>1, <2>2 DEF GpReaching
<1>13. GpForms'
  <2>1. \A p : (GpWalk(p)' <=> GpWalk(p)) /\ (GpFound(p)' <=> GpFound(p)) BY <1>1, GpSame
  <2>2. GpGiven' BY <1>1, <1>3, GpSame
  <2>3. GpSorted(gpPaths)' BY <1>1, <1>2 DEF GpForms, GpSorted
  <2> QED BY <1>1, <1>2, <1>8, <1>9, <1>10, <2>1, <2>2, <2>3 DEF GpForms
<1> QED BY <1>1, <1>2, <1>12, <1>13 DEF GpSound

LEMMA GpStart ==
  ASSUME GpGiven
  PROVE  /\ GpWithin(<<Start>>) /\ \A r : GpWalk(r) => GpPrefix(<<Start>>, r)
         /\ <<<<Start>>>> \in Seq(GpSeqs)
         /\ \A r : GpWalk(r) => GpWaits(<<<<Start>>>>, r)
<1> DEFINE s == <<Start>>
<1>1. s \in GpSeqs /\ Len(s) = 1 /\ s[1] = Start BY DEF GpSeqs, P!GpNodes
<1>2. <<s>> \in Seq(GpSeqs) /\ Len(<<s>>) = 1 /\ <<s>>[1] = s BY <1>1
<1> HIDE DEF s
<1>3. GpWalk(s)
  <2>1. \A i, j \in 1..Len(s) : i = j BY <1>1
  <2>2. 1..Len(s) - 1 = {} BY <1>1
  <2> QED BY <1>1, <2>1, <2>2 DEF GpWalk
<1>4. P!Hops(s) = 0 /\ gpMax \in Nat
  <2>1. gpMax \in Nat BY PathsAssumption DEF GpGiven
  <2>2. Len(s) >= 1 BY <1>1
  <2> QED BY <1>1, <2>1, <2>2, GpHopsFew
<1>5. GpWithin(s) BY <1>3, <1>4 DEF GpWithin
<1>6. ASSUME NEW r, GpWalk(r) PROVE GpPrefix(s, r)
  <2>1. Len(r) >= 1 /\ r[1] = Start BY <1>6 DEF GpWalk
  <2>2. \A i \in 1..Len(s) : i = 1 BY <1>1
  <2> QED BY <1>1, <2>1, <2>2 DEF GpPrefix
<1>7. \A r : GpWalk(r) => GpWaits(<<s>>, r)
  <2>1. 1 \in 1..Len(<<s>>) BY <1>2
  <2> QED BY <1>2, <1>6, <2>1 DEF GpWaits
<1> QED BY <1>2, <1>5, <1>6, <1>7 DEF s

LEMMA GpWalkSteps ==
  ASSUME NEW p, GpWalk(p)
  PROVE  P!Steps(p) \subseteq gpLinks /\ P!ToSet(p) \subseteq P!GpNodes
<1>1. P!Steps(p) \subseteq gpLinks BY DEF GpWalk, P!Steps
<1>2. DOMAIN p = 1..Len(p) /\ \A i \in 1..Len(p) : p[i] \in P!GpNodes BY DEF GpWalk, GpSeqs
<1>3. P!ToSet(p) \subseteq P!GpNodes BY <1>2, GpCounts
<1> QED BY <1>1, <1>3

LEMMA GpReachOver ==
  ASSUME GpSound, P!ReachDone
  PROVE  GpSound'
<1>1. /\ gpStep = "reach" /\ gpQueue = <<>>
      /\ gpNear' = [nodes |-> UNION {P!ToSet(p) : p \in gpSeen}, links |-> UNION {P!Steps(p) : p \in gpSeen}]
      /\ gpStep' = "paths" /\ gpQueue' = <<<<Start>>>> /\ gpSeen' = {}
      /\ UNCHANGED <<gpLinks, gpZero, gpMax, gpPaths>>
  BY DEF P!ReachDone
<1>2. GpForms /\ GpReaching /\ gpPaths = <<>> BY <1>1 DEF GpSound
<1>3. GpGiven /\ \A p \in gpSeen : GpWalk(p) BY <1>2 DEF GpForms
<1>4. \A p : ~GpWaits(gpQueue, p) BY <1>1 DEF GpWaits
<1>5. \A p : GpWithin(p) => p \in gpSeen BY <1>2, <1>4 DEF GpReaching
<1>6. /\ gpNear'.nodes = UNION {P!ToSet(p) : p \in gpSeen} /\ gpNear'.links = UNION {P!Steps(p) : p \in gpSeen}
  BY <1>1
<1>7. gpNear'.nodes \subseteq P!GpNodes /\ gpNear'.links \subseteq gpLinks
  BY <1>3, <1>6, GpWalkSteps
<1>8. \A p : GpWithin(p) => P!ToSet(p) \subseteq gpNear'.nodes /\ P!Steps(p) \subseteq gpNear'.links
  BY <1>5, <1>6
<1>9. \A p : /\ GpWithin(p)' <=> GpWithin(p)
             /\ GpWanted(p)' <=> GpWanted(p)
             /\ GpWalk(p)' <=> GpWalk(p)
             /\ GpFound(p)' <=> GpFound(p)
  BY <1>1, GpSame
<1>10. \A p : P!ToSet(p)' = P!ToSet(p) /\ P!Steps(p)' = P!Steps(p) BY DEF P!ToSet, P!Steps
<1>11. GpReached' BY <1>8, <1>9, <1>10 DEF GpReached
<1>12. /\ GpWithin(<<Start>>) /\ <<<<Start>>>> \in Seq(GpSeqs) /\ \A r : GpWalk(r) => GpWaits(<<<<Start>>>>, r)
  BY <1>3, GpStart
<1>13. Len(gpQueue') = 1 /\ gpQueue'[1] = <<Start>> /\ Len(gpQueue'[1]) = 1 /\ Len(gpPaths') = 0
  BY <1>1, <1>2
<1>14. \A i \in 1..Len(gpQueue') : i = 1 BY <1>13
<1>15. GpOrdered(gpQueue, gpPaths)'
  <2>1. 1..Len(gpPaths') = {} BY <1>13
  <2> QED BY <1>13, <1>14, <2>1 DEF GpOrdered, GpSorted
<1>16. GpFinding'
  <2>1. \A i \in 1..Len(gpQueue') : GpWithin(gpQueue'[i]) BY <1>12, <1>13, <1>14
  <2>2. \A r : GpWanted(r) => GpWaits(gpQueue', r) BY <1>1, <1>12 DEF GpWanted
  <2>3. \A r : GpWaits(gpQueue', r) <=> GpWaits(gpQueue, r)' BY DEF GpWaits, GpPrefix
  <2> QED BY <1>9, <1>15, <2>1, <2>2, <2>3 DEF GpFinding
<1>17. GpForms'
  <2>1. GpGiven' BY <1>1, <1>3, GpSame
  <2>2. GpSorted(gpPaths)' BY <1>1, <1>2 DEF GpForms, GpSorted
  <2>3. \A i \in 1..Len(gpQueue') : GpWalk(gpQueue'[i]) BY <1>12, <1>13, <1>14 DEF GpWithin
  <2>4. gpQueue' \in Seq(GpSeqs) BY <1>1, <1>12
  <2> QED BY <1>1, <1>2, <1>7, <1>9, <2>1, <2>2, <2>3, <2>4 DEF GpForms
<1> QED BY <1>1, <1>11, <1>16, <1>17 DEF GpSound

LEMMA GpPathTurn ==
  ASSUME GpSound, P!PathStep
  PROVE  GpSound'
<1> DEFINE h == gpQueue[1]
<1>1. /\ gpStep = "paths" /\ gpQueue # <<>> /\ Len(gpPaths) < PathLimit
      /\ UNCHANGED <<gpLinks, gpZero, gpMax, gpStep, gpNear>>
  BY DEF P!PathStep
<1>2. GpForms /\ GpReached /\ GpFinding BY <1>1 DEF GpSound
<1>3. /\ GpGiven /\ gpQueue \in Seq(GpSeqs) /\ \A i \in 1..Len(gpQueue) : GpWalk(gpQueue[i])
      /\ \A p \in gpSeen : GpWalk(p)
      /\ gpPaths \in Seq(GpSeqs) /\ GpSorted(gpPaths) /\ \A i \in 1..Len(gpPaths) : GpFound(gpPaths[i])
  BY <1>2 DEF GpForms
<1>4. Head(gpQueue) = h /\ 1 \in 1..Len(gpQueue) BY <1>1, <1>3
<1>5. GpWalk(h) /\ GpWithin(h) /\ GpOrdered(gpQueue, gpPaths) BY <1>2, <1>3, <1>4 DEF GpFinding
<1>6. gpMax \in Nat /\ P!Hops(h) \in Nat BY <1>3, <1>5, GpHops, PathsAssumption DEF GpGiven, GpWalk
<1>7. PICK added \in {{}, P!Extensions(h)} :
        /\ GpMoved(gpQueue, gpQueue', added)
        /\ \/ h[Len(h)] = Goal /\ gpPaths' = Append(gpPaths, h) /\ gpSeen' = gpSeen /\ added = {}
           \/ /\ h[Len(h)] # Goal /\ P!Hops(h) >= gpMax
              /\ gpPaths' = gpPaths /\ gpSeen' = gpSeen /\ added = {}
           \/ /\ h[Len(h)] # Goal /\ P!Hops(h) < gpMax
              /\ gpPaths' = gpPaths /\ gpSeen' = gpSeen \cup {h} /\ added = P!Extensions(h)
  <2>1. \/ h[Len(h)] = Goal /\ gpPaths' = Append(gpPaths, h) /\ P!Drop
        \/ h[Len(h)] # Goal /\ P!Hops(h) >= gpMax /\ P!Drop /\ gpPaths' = gpPaths
        \/ h[Len(h)] # Goal /\ P!Hops(h) < gpMax /\ P!Extend(h) /\ gpPaths' = gpPaths
    BY <1>4 DEF P!PathStep
  <2>2. P!Drop => GpMoved(gpQueue, gpQueue', {}) /\ gpSeen' = gpSeen BY <1>1, <1>3, <1>5, GpTurns
  <2>3. P!Extend(h) => GpMoved(gpQueue, gpQueue', P!Extensions(h)) /\ gpSeen' = gpSeen \cup {h}
    BY <1>1, <1>3, <1>5, GpTurns
  <2> QED BY <2>1, <2>2, <2>3
<1>8. \A x \in added : /\ GpWalk(x) /\ Len(x) = Len(h) + 1
                       /\ P!Hops(x) <= P!Hops(h) + 1 /\ P!Hops(h) < gpMax
  BY <1>3, <1>5, <1>7, GpExtensions
<1>9. \A x \in added : GpWithin(x)
  <2> TAKE x \in added
  <2>1. GpWalk(x) /\ P!Hops(x) <= P!Hops(h) + 1 /\ P!Hops(h) < gpMax BY <1>8
  <2>2. P!Hops(x) \in Nat BY <2>1, GpHops DEF GpWalk
  <2> QED BY <1>6, <2>1, <2>2 DEF GpWithin
<1>10. /\ gpQueue' \in Seq(GpSeqs)
       /\ \A i \in 1..Len(gpQueue') : \/ i + 1 \in 2..Len(gpQueue) /\ gpQueue'[i] = gpQueue[i + 1]
                                      \/ i >= Len(gpQueue) /\ gpQueue'[i] \in added
       /\ \A r : GpWaits(gpQueue, r) => GpPrefix(h, r) \/ GpWaits(gpQueue', r)
       /\ \A r : (\E x \in added : GpPrefix(x, r)) => GpWaits(gpQueue', r)
       /\ Len(gpQueue) \in Nat
  BY <1>1, <1>3, <1>7, GpMovedTo
<1>11. \A i \in 1..Len(gpQueue') : GpWithin(gpQueue'[i])
  <2> TAKE i \in 1..Len(gpQueue')
  <2>1. CASE gpQueue'[i] \in added BY <1>9, <2>1
  <2>2. CASE i + 1 \in 2..Len(gpQueue) /\ gpQueue'[i] = gpQueue[i + 1]
    <3>1. i + 1 \in 1..Len(gpQueue) BY <1>10, <2>2
    <3> QED BY <1>2, <2>2, <3>1 DEF GpFinding
  <2> QED BY <1>10, <2>1, <2>2
<1>12. \A p \in gpSeen' : GpWalk(p) BY <1>3, <1>5, <1>7
<1>13. /\ GpOrdered(gpQueue', gpPaths) /\ GpOrdered(gpQueue', Append(gpPaths, h))
       /\ GpSorted(Append(gpPaths, h))
  <2>1. \A x \in added : Len(x) = Len(gpQueue[1]) + 1 BY <1>8
  <2> QED BY <1>1, <1>3, <1>5, <1>7, <2>1, GpStaysOrdered
<1>14. GpOrdered(gpQueue', gpPaths') /\ GpSorted(gpPaths') BY <1>3, <1>7, <1>13
<1>15. /\ gpPaths' \in Seq(GpSeqs) /\ Len(gpPaths') <= PathLimit
       /\ \A i \in 1..Len(gpPaths') : GpFound(gpPaths'[i])
       /\ \A r : GpIn(r, gpPaths) => GpIn(r, gpPaths')
       /\ h[Len(h)] = Goal => GpIn(h, gpPaths')
  <2>0. PathLimit \in Nat /\ Len(gpPaths) \in Nat BY <1>3, PathsAssumption
  <2>1. CASE gpPaths' = gpPaths /\ h[Len(h)] # Goal BY <1>1, <1>3, <2>0, <2>1
  <2>2. CASE gpPaths' = Append(gpPaths, h) /\ h[Len(h)] = Goal
    <3> DEFINE more == gpPaths'
               n == Len(gpPaths)
    <3>1. h \in GpSeqs BY <1>5 DEF GpWalk
    <3>2. /\ more \in Seq(GpSeqs) /\ Len(more) = n + 1 /\ more[n + 1] = h
          /\ \A i \in 1..n : more[i] = gpPaths[i]
      BY <1>3, <2>2, <3>1
    <3> HIDE DEF more, n
    <3>3. \A i \in 1..Len(more) : i \in 1..n \/ i = n + 1 BY <2>0, <3>2 DEF n
    <3>4. GpFound(h) BY <1>5, <2>2 DEF GpFound
    <3>5. \A i \in 1..Len(more) : GpFound(more[i]) BY <1>3, <3>2, <3>3, <3>4 DEF n
    <3>6. n + 1 \in 1..Len(more) /\ 1..n \subseteq 1..Len(more) /\ Len(more) <= PathLimit
      BY <1>1, <2>0, <3>2 DEF n
    <3>7. GpIn(h, more) BY <3>2, <3>6 DEF GpIn
    <3>8. \A r : GpIn(r, gpPaths) => GpIn(r, more) BY <3>2, <3>6 DEF GpIn, n
    <3> QED BY <3>2, <3>5, <3>6, <3>7, <3>8 DEF more
  <2> QED BY <1>7, <2>1, <2>2
<1>16. ASSUME NEW r, GpWanted(r) PROVE GpIn(r, gpPaths') \/ GpWaits(gpQueue', r)
  <2>0. GpWalk(r) /\ r[Len(r)] = Goal /\ Len(r) - 2 <= gpMax /\ gpMax > 0 /\ r \in GpSeqs /\ h \in GpSeqs
    BY <1>5, <1>16 DEF GpWanted, GpWalk
  <2>1. CASE GpPrefix(h, r)
    <3>1. Len(h) \in Nat /\ Len(r) \in Nat /\ Len(h) <= Len(r) /\ Len(h) >= 1
      BY <1>5, <2>0, <2>1 DEF GpPrefix, GpWalk, GpSeqs
    <3>2. CASE Len(h) = Len(r)
      <4>1. h = r BY <2>0, <2>1, <3>2, GpSameSeq
      <4> QED BY <1>15, <2>0, <4>1
    <3>3. CASE Len(h) < Len(r)
      <4>1. h[Len(h)] # Goal
        <5>1. Len(h) \in 1..Len(h) /\ Len(h) \in 1..Len(r) /\ Len(r) \in 1..Len(r) BY <3>1
        <5>2. h[Len(h)] = r[Len(h)] BY <2>1, <5>1 DEF GpPrefix
        <5>3. r[Len(h)] # r[Len(r)] BY <2>0, <3>1, <3>3, <5>1 DEF GpWalk
        <5> QED BY <2>0, <5>2, <5>3
      <4>2. P!Hops(h) < gpMax
        <5>1. CASE Len(h) = 1
          <6>1. P!Hops(h) = 0 BY <2>0, <3>1, <5>1, GpHopsFew
          <6> QED BY <2>0, <6>1
        <5>2. CASE Len(h) > 1
          <6>1. P!Hops(h) <= Len(h) - 2 BY <2>0, <3>1, <5>2, GpHopsFew
          <6> QED BY <1>6, <2>0, <3>1, <3>3, <6>1
        <5>3. \A n \in Nat : n >= 1 => n = 1 \/ n > 1 OBVIOUS
        <5> QED BY <3>1, <5>1, <5>2, <5>3
      <4>3. added = P!Extensions(h) BY <1>6, <1>7, <4>1, <4>2
      <4>4. \E x \in added : GpPrefix(x, r) BY <1>3, <1>5, <2>0, <2>1, <3>3, <4>3, GpExtensions
      <4> QED BY <1>10, <4>4
    <3> QED BY <3>1, <3>2, <3>3
  <2>2. CASE ~GpPrefix(h, r)
    <3>1. GpIn(r, gpPaths) \/ GpWaits(gpQueue, r) BY <1>2, <1>16 DEF GpFinding
    <3> QED BY <1>10, <1>15, <2>2, <3>1
  <2> QED BY <2>1, <2>2
<1>17. \A p : /\ GpWithin(p)' <=> GpWithin(p)
              /\ GpWanted(p)' <=> GpWanted(p)
              /\ GpWalk(p)' <=> GpWalk(p)
              /\ GpFound(p)' <=> GpFound(p)
  BY <1>1, GpSame
<1>18. \A r : /\ P!ToSet(r)' = P!ToSet(r) /\ P!Steps(r)' = P!Steps(r)
              /\ GpWaits(gpQueue, r)' <=> GpWaits(gpQueue', r)
              /\ GpIn(r, gpPaths)' <=> GpIn(r, gpPaths')
  BY DEF P!ToSet, P!Steps, GpWaits, GpPrefix, GpIn
<1>19. GpReached' BY <1>1, <1>2, <1>17, <1>18 DEF GpReached
<1>20. GpSorted(gpPaths)' /\ GpOrdered(gpQueue, gpPaths)' BY <1>14 DEF GpSorted, GpOrdered
<1>21. GpFinding' BY <1>11, <1>16, <1>17, <1>18, <1>20 DEF GpFinding
<1>22. GpForms'
  <2>1. GpGiven' BY <1>1, <1>3, GpSame
  <2>2. \A i \in 1..Len(gpQueue') : GpWalk(gpQueue'[i]) BY <1>11 DEF GpWithin
  <2> QED BY <1>1, <1>2, <1>10, <1>12, <1>15, <1>17, <1>20, <2>1, <2>2 DEF GpForms
<1> QED BY <1>1, <1>19, <1>21, <1>22 DEF GpSound

\* The numbers from 1 come one after the other.
LEMMA GpNth ==
  ASSUME NEW k \in Nat
  PROVE  P!Cardinality(1..k) = k /\ \A i \in 1..k : P!Nth(1..k, i) = i
<1>1. \A n \in 0..k : Cardinality(1..n) = n
  <2> TAKE n \in 0..k
  <2>1. Cardinality(1..n) = IF 1 > n THEN 0 ELSE n - 1 + 1 BY FS_Interval
  <2> QED BY <2>1
<1>2. \A n \in 1..k : P!Cardinality({m \in 1..k : m < n}) = n - 1
  <2> TAKE n \in 1..k
  <2>1. {m \in 1..k : m < n} = 1..n - 1 /\ n - 1 \in 0..k OBVIOUS
  <2>2. Cardinality(1..n - 1) = n - 1 BY <1>1, <2>1
  <2> QED BY <2>1, <2>2, GpCounts
<1>3. ASSUME NEW i \in 1..k PROVE P!Nth(1..k, i) = i
  <2>1. \A n \in 1..k : P!Cardinality({m \in 1..k : m < n}) = i - 1 <=> n = i BY <1>2
  <2> QED BY <2>1 DEF P!Nth
<1>4. Cardinality(1..k) = k BY <1>1
<1> QED BY <1>3, <1>4, GpCounts

LEMMA GpPathOver ==
  ASSUME GpSound, P!PathDone
  PROVE  GpSound'
<1> DEFINE valid == {n \in 1..Len(gpPaths) : P!Steps(gpPaths[n]) \subseteq gpLinks}
           k == Len(gpPaths)
<1>1. /\ gpStep = "paths" /\ (gpQueue = <<>> \/ Len(gpPaths) = PathLimit)
      /\ gpPaths' = [i \in 1..P!Cardinality(valid) |-> gpPaths[P!Nth(valid, i)]]
      /\ gpStep' = "done" /\ gpQueue' = <<>> /\ gpSeen' = {}
      /\ UNCHANGED <<gpLinks, gpZero, gpMax, gpNear>>
  BY DEF P!PathDone
<1>2. GpForms /\ GpReached /\ GpFinding BY <1>1 DEF GpSound
<1>3. /\ gpPaths \in Seq(GpSeqs) /\ k \in Nat /\ \A i \in 1..k : GpFound(gpPaths[i])
      /\ GpGiven /\ GpSorted(gpPaths) /\ k <= PathLimit
  BY <1>2 DEF GpForms
<1>4. valid = 1..k
  <2>1. \A i \in 1..k : P!Steps(gpPaths[i]) \subseteq gpLinks
    BY <1>3, GpWalkSteps DEF GpFound, GpWithin
  <2> QED BY <2>1
<1> HIDE DEF valid
<1>5. gpPaths' = gpPaths
  <2>1. gpPaths' = [i \in 1..k |-> gpPaths[P!Nth(1..k, i)]] BY <1>1, <1>3, <1>4, GpNth
  <2>2. \A i \in 1..k : P!Nth(1..k, i) = i BY <1>3, GpNth
  <2>3. gpPaths' = [i \in 1..k |-> gpPaths[i]] BY <2>1, <2>2
  <2> QED BY <1>3, <2>3
<1>6. \A p : /\ GpWithin(p)' <=> GpWithin(p)
             /\ GpWanted(p)' <=> GpWanted(p)
             /\ GpFound(p)' <=> GpFound(p)
  BY <1>1, GpSame
<1>7. \A r : /\ P!ToSet(r)' = P!ToSet(r) /\ P!Steps(r)' = P!Steps(r)
             /\ GpIn(r, gpPaths)' <=> GpIn(r, gpPaths')
  BY DEF P!ToSet, P!Steps, GpIn
<1>8. GpReached' BY <1>1, <1>2, <1>6, <1>7 DEF GpReached
<1>9. ASSUME k < PathLimit, NEW r, GpWanted(r) PROVE GpIn(r, gpPaths)
  <2>1. gpQueue = <<>> BY <1>1, <1>3, <1>9, PathsAssumption
  <2>2. ~GpWaits(gpQueue, r) BY <2>1 DEF GpWaits
  <2> QED BY <1>2, <1>9, <2>2 DEF GpFinding
<1>10. (Len(gpPaths) < PathLimit => \A r : GpWanted(r) => GpIn(r, gpPaths))'
  BY <1>5, <1>6, <1>7, <1>9
<1>11. GpForms'
  <2>1. GpGiven' BY <1>1, <1>3, GpSame
  <2>2. gpQueue' \in Seq(GpSeqs) /\ 1..Len(gpQueue') = {} BY <1>1
  <2>3. GpSorted(gpPaths)' BY <1>3, <1>5 DEF GpSorted
  <2> QED BY <1>1, <1>2, <1>3, <1>5, <1>6, <2>1, <2>2, <2>3 DEF GpForms
<1> QED BY <1>1, <1>8, <1>10, <1>11 DEF GpSound

LEMMA GpStep ==
  ASSUME GpSound, [P!GpNext]_(P!gpVars)
  PROVE  GpSound'
<1>1. CASE UNCHANGED P!gpVars
  <2>1. UNCHANGED <<gpLinks, gpZero, gpMax, gpStep, gpQueue, gpSeen, gpNear, gpPaths>>
    BY <1>1 DEF P!gpVars
  <2>2. /\ GpGiven' <=> GpGiven
        /\ \A p : /\ GpWalk(p)' <=> GpWalk(p)
                  /\ GpWithin(p)' <=> GpWithin(p)
                  /\ GpFound(p)' <=> GpFound(p)
                  /\ GpWanted(p)' <=> GpWanted(p)
    BY <2>1, GpSame
  <2>3. /\ \A r : /\ P!ToSet(r)' = P!ToSet(r) /\ P!Steps(r)' = P!Steps(r)
                  /\ GpWaits(gpQueue, r)' <=> GpWaits(gpQueue, r)
                  /\ GpIn(r, gpPaths)' <=> GpIn(r, gpPaths)
        /\ GpSorted(gpPaths)' <=> GpSorted(gpPaths)
        /\ GpOrdered(gpQueue, gpPaths)' <=> GpOrdered(gpQueue, gpPaths)
    BY <2>1 DEF P!ToSet, P!Steps, GpWaits, GpPrefix, GpIn, GpSorted, GpOrdered
  <2>4. GpForms' <=> GpForms BY <2>1, <2>2, <2>3 DEF GpForms
  <2>5. GpReaching' <=> GpReaching BY <2>1, <2>2, <2>3 DEF GpReaching
  <2>6. GpReached' <=> GpReached BY <2>1, <2>2, <2>3 DEF GpReached
  <2>7. GpFinding' <=> GpFinding BY <2>1, <2>2, <2>3 DEF GpFinding
  <2> QED BY <2>1, <2>2, <2>3, <2>4, <2>5, <2>6, <2>7 DEF GpSound
<1> QED BY <1>1, GpReachTurn, GpReachOver, GpPathTurn, GpPathOver DEF P!GpNext

LEMMA GpStarts ==
  ASSUME P!GpInit
  PROVE  GpSound
<1>1. /\ gpLinks \subseteq ({Start} \cup Between) \X (Between \cup {Goal})
      /\ gpZero \subseteq Uncounted /\ gpMax \in HopLimits
      /\ gpStep = "reach" /\ gpQueue = <<<<Start>>>> /\ gpSeen = {}
      /\ gpNear = [nodes |-> {}, links |-> {}] /\ gpPaths = <<>>
  BY DEF P!GpInit
<1>2. GpGiven BY <1>1 DEF GpGiven
<1>3. /\ GpWithin(<<Start>>) /\ gpQueue \in Seq(GpSeqs) /\ \A r : GpWalk(r) => GpWaits(gpQueue, r)
  BY <1>1, <1>2, GpStart
<1>4. Len(gpQueue) = 1 /\ gpQueue[1] = <<Start>> BY <1>1
<1>5. \A i \in 1..Len(gpQueue) : GpWalk(gpQueue[i])
  <2>1. \A i \in 1..Len(gpQueue) : i = 1 BY <1>4
  <2> QED BY <1>3, <1>4, <2>1 DEF GpWithin
<1>6. gpPaths \in Seq(GpSeqs) /\ Len(gpPaths) = 0 /\ 1..Len(gpPaths) = {} BY <1>1
<1>7. Len(gpPaths) <= PathLimit BY <1>6, PathsAssumption
<1>8. gpNear.nodes = {} /\ gpNear.links = {} BY <1>1
<1>9. GpForms BY <1>1, <1>2, <1>3, <1>5, <1>6, <1>7, <1>8 DEF GpForms, GpSorted
<1>10. GpReaching BY <1>3 DEF GpReaching, GpWithin
<1> QED BY <1>1, <1>9, <1>10 DEF GpSound

LEMMA SameFcn ==
  ASSUME NEW dom, NEW range, NEW f \in [dom -> range], NEW g \in [dom -> range], \A i \in dom : f[i] = g[i]
  PROVE  f = g
OBVIOUS

\* A route is the same as a path of the search that ends at the second node.
LEMMA GpRoutes ==
  ASSUME GpGiven, NEW r
  PROVE  r \in P!Routes <=> GpWalk(r) /\ r[Len(r)] = Goal
<1> USE PathsAssumption
<1>1. ASSUME r \in P!Routes PROVE GpWalk(r) /\ r[Len(r)] = Goal
  <2>1. PICK m \in P!SetToAllKPermutations(Between) : r = <<Start>> \o m \o <<Goal>>
    BY <1>1 DEF P!Routes
  <2>2. P!Steps(r) \subseteq gpLinks BY <1>1 DEF P!Routes
  <2>3. PICK set \in SUBSET Between : m \in P!SetToSeqs(set) BY DEF P!SetToAllKPermutations
  <2> DEFINE k == Cardinality(set)
  <2>4. IsFiniteSet(set) /\ k \in Nat BY FS_Subset, FS_CardinalityType
  <2>5. m \in [1..k -> set] /\ \A i, j \in 1..k : i # j => m[i] # m[j]
    BY <2>3, GpCounts DEF P!SetToSeqs
  <2> HIDE DEF k
  <2>6. /\ r \in Seq({Start, Goal} \cup set) /\ Len(r) = k + 2 /\ r[1] = Start /\ r[k + 2] = Goal
        /\ \A i \in 2..k + 1 : r[i] = m[i - 1]
    BY <2>1, <2>4, <2>5, TfJoined
  <2>7. {Start, Goal} \cup set \subseteq P!GpNodes BY DEF P!GpNodes
  <2>8. r \in GpSeqs
    <3>1. r \in [1..k + 2 -> {Start, Goal} \cup set] BY <2>4, <2>6
    <3>2. r \in [1..k + 2 -> P!GpNodes] BY <2>7, <3>1
    <3> QED BY <2>4, <3>2 DEF GpSeqs
  <2>9. \A i \in 2..k + 1 : i - 1 \in 1..k BY <2>4
  <2>10. \A i \in 2..k + 1 : r[i] \in Between BY <2>5, <2>6, <2>9
  <2>11. ASSUME NEW i \in 1..k + 2, NEW j \in 1..k + 2, r[i] = r[j] PROVE i = j
    <3>1. \A n \in 1..k + 2 : n = 1 \/ n = k + 2 \/ n \in 2..k + 1 BY <2>4
    <3>2. CASE i \in 2..k + 1 /\ j \in 2..k + 1
      <4>1. m[i - 1] = m[j - 1] BY <2>6, <2>11, <3>2
      <4>2. i - 1 = j - 1 BY <2>5, <2>9, <3>2, <4>1
      <4> QED BY <2>4, <3>2, <4>2
    <3>3. Start # Goal /\ Start \notin Between /\ Goal \notin Between OBVIOUS
    <3> QED BY <2>6, <2>10, <2>11, <3>1, <3>2, <3>3
  <2>12. \A i \in 1..Len(r) - 1 : <<r[i], r[i + 1]>> \in gpLinks BY <2>2 DEF P!Steps
  <2>13. Len(r) >= 1 BY <2>4, <2>6
  <2> QED BY <2>6, <2>8, <2>11, <2>12, <2>13 DEF GpWalk
<1>2. ASSUME GpWalk(r), r[Len(r)] = Goal PROVE r \in P!Routes
  <2> DEFINE n == Len(r)
             k == n - 2
             m == [i \in 1..k |-> r[i + 1]]
             set == {r[i + 1] : i \in 1..k}
             w == <<Start>> \o m \o <<Goal>>
  <2>1. r \in GpSeqs /\ n \in Nat /\ n >= 1 /\ r[1] = Start /\ n \in 1..n
    BY <1>2 DEF GpWalk, GpSeqs
  <2>2. n # 1 BY <1>2, <2>1
  <2>3. k \in Nat
    <3>1. \A x \in Nat : x >= 1 /\ x # 1 => x - 2 \in Nat OBVIOUS
    <3> QED BY <2>1, <2>2, <3>1
  <2>4. \A i \in 1..n - 1 : <<r[i], r[i + 1]>> \in gpLinks BY <1>2 DEF GpWalk
  <2> HIDE DEF k, n
  <2>5. \A i \in 1..k : i + 1 \in 1..n - 1 /\ i + 1 \in 1..n /\ (i + 1) - 1 \in 1..n - 1 /\ ((i + 1) - 1) + 1 = i + 1 /\ i + 1 # 1
    BY <2>1, <2>3 DEF k
  <2>6. \A i \in 1..k : r[i + 1] \in Between
    <3> TAKE i \in 1..k
    <3>1. <<r[i + 1], r[(i + 1) + 1]>> \in gpLinks BY <2>4, <2>5
    <3>2. r[i + 1] \in {Start} \cup Between BY <3>1 DEF GpGiven
    <3>3. r[i + 1] # r[1]
      <4>1. 1 \in 1..n /\ i + 1 \in 1..n /\ i + 1 # 1 BY <2>1, <2>5
      <4> QED BY <1>2, <4>1 DEF GpWalk, n
    <3> QED BY <2>1, <3>2, <3>3
  <2>7. set \in SUBSET Between BY <2>6
  <2>8. IsFiniteSet(set) BY <2>7, FS_Subset
  <2>9. m \in Bijection(1..k, set)
    <3>1. m \in [1..k -> set] OBVIOUS
    <3>2. \A i, j \in 1..k : m[i] = m[j] => i = j
      <4> TAKE i, j \in 1..k
      <4>1. r[i + 1] = r[j + 1] => i + 1 = j + 1 BY <1>2, <2>5 DEF GpWalk, n
      <4> QED BY <2>3, <4>1
    <3>3. \A x \in set : \E i \in 1..k : m[i] = x OBVIOUS
    <3> QED BY <3>1, <3>2, <3>3 DEF Bijection, Injection, Surjection, IsInjective
  <2>10. Cardinality(set) = k
    <3>1. Cardinality(1..k) = k /\ IsFiniteSet(1..k) BY <2>3, GpNth, GpCounts, FS_Interval
    <3>2. ExistsBijection(1..k, set) BY <2>9 DEF ExistsBijection
    <3> QED BY <3>1, <3>2, FS_Bijection
  <2>11. m \in [1..k -> set] /\ \A i, j \in 1..k : i # j => m[i] # m[j]
    BY <2>9 DEF Bijection, Injection, IsInjective
  <2>12. \A i \in 1..k : m[i] = r[i + 1] OBVIOUS
  <2> HIDE DEF m, set
  <2>13. m \in P!SetToSeqs(set) BY <2>10, <2>11, GpCounts DEF P!SetToSeqs
  <2>14. m \in P!SetToAllKPermutations(Between) BY <2>7, <2>13 DEF P!SetToAllKPermutations
  <2>15. /\ w \in Seq({Start, Goal} \cup set) /\ Len(w) = k + 2 /\ w[1] = Start /\ w[k + 2] = Goal
         /\ \A i \in 2..k + 1 : w[i] = m[i - 1]
    BY <2>3, <2>11, TfJoined
  <2> HIDE DEF w
  <2>16. w = r
    <3>1. {Start, Goal} \cup set \subseteq P!GpNodes BY <2>7 DEF P!GpNodes
    <3>2. w \in [1..k + 2 -> {Start, Goal} \cup set] BY <2>3, <2>15
    <3>3. w \in [1..k + 2 -> P!GpNodes] BY <3>1, <3>2
    <3>4. k + 2 = n BY <2>1 DEF k
    <3>5. r \in [1..n -> P!GpNodes] BY <2>1 DEF GpSeqs, n
    <3>6. ASSUME NEW i \in 1..n PROVE w[i] = r[i]
      <4>1. CASE i = 1 BY <2>1, <2>15, <4>1
      <4>2. CASE i = n BY <1>2, <2>15, <3>4, <4>2 DEF n
      <4>3. CASE i \in 2..k + 1
        <5>1. i - 1 \in 1..k /\ (i - 1) + 1 = i BY <2>3, <4>3
        <5> QED BY <2>12, <2>15, <4>3, <5>1
      <4>4. i = 1 \/ i = n \/ i \in 2..k + 1 BY <2>1, <2>3, <3>4
      <4> QED BY <4>1, <4>2, <4>3, <4>4
    <3>7. w \in [1..n -> P!GpNodes] BY <3>3, <3>4
    <3> DEFINE dom == 1..n
               range == P!GpNodes
    <3>8. w \in [dom -> range] /\ r \in [dom -> range] /\ \A i \in dom : w[i] = r[i]
      BY <3>5, <3>6, <3>7
    <3> HIDE DEF dom, range
    <3> QED BY <3>8, SameFcn
  <2>17. r = <<Start>> \o m \o <<Goal>> BY <2>16 DEF w
  <2>18. P!Steps(r) \subseteq gpLinks BY <1>2, GpWalkSteps
  <2> QED BY <2>14, <2>17, <2>18 DEF P!Routes
<1> QED BY <1>1, <1>2

\* The nodes a route passes are those the search counted.
LEMMA GpPassed ==
  ASSUME GpGiven, NEW r, GpWalk(r), r[Len(r)] = Goal
  PROVE  P!Passed(r) <= P!Hops(r)
<1> DEFINE nodes == P!ToSet(r) \ (gpZero \cup {Start, Goal})
           places == {i \in GpCounted(r) : r[i] \in nodes}
           f == [i \in places |-> r[i]]
<1>1. r \in GpSeqs /\ DOMAIN r = 1..Len(r) /\ Len(r) \in Nat /\ r[1] = Start BY DEF GpWalk, GpSeqs
<1>2. IsFiniteSet(GpCounted(r)) /\ P!Hops(r) = Cardinality(GpCounted(r)) BY <1>1, GpHops
<1>3. places \subseteq GpCounted(r) OBVIOUS
<1>4. IsFiniteSet(places) /\ Cardinality(places) <= Cardinality(GpCounted(r))
  BY <1>2, <1>3, FS_Subset
<1>5. \A x \in nodes : \E i \in places : r[i] = x
  <2> TAKE x \in nodes
  <2>1. PICK i \in 1..Len(r) : r[i] = x BY <1>1, GpCounts
  <2>0. x # Start /\ x # Goal /\ x \notin gpZero OBVIOUS
  <2>2. i # 1 /\ i # Len(r) /\ r[i] \notin gpZero BY <1>1, <2>0, <2>1, Zenon
  <2>3. i \in 2..Len(r) - 1
    <3>1. \A n \in Nat : \A j \in 1..n : j # 1 /\ j # n => j \in 2..n - 1 OBVIOUS
    <3> QED BY <1>1, <2>1, <2>2, <3>1, Zenon
  <2>4. i \in GpCounted(r) BY <2>2, <2>3 DEF GpCounted
  <2> QED BY <2>1, <2>4
<1>6. f \in Surjection(places, nodes)
  <2>1. f \in [places -> nodes] OBVIOUS
  <2>2. \A i \in places : f[i] = r[i] OBVIOUS
  <2> HIDE DEF places, nodes, f
  <2> QED BY <1>5, <2>1, <2>2 DEF Surjection
<1>7. IsFiniteSet(nodes) /\ Cardinality(nodes) <= Cardinality(places)
  <2> HIDE DEF places, nodes, f
  <2> QED BY <1>4, <1>6, FS_Surjection
<1>8. P!Passed(r) = Cardinality(nodes) BY GpCounts DEF P!Passed
<1>9. Cardinality(nodes) \in Nat /\ Cardinality(places) \in Nat /\ Cardinality(GpCounted(r)) \in Nat
  <2> HIDE DEF places, nodes
  <2> QED BY <1>2, <1>4, <1>7, FS_CardinalityType
<1> HIDE DEF places, nodes, f
<1> QED BY <1>2, <1>4, <1>7, <1>8, <1>9

LEMMA GpShows ==
  ASSUME GpSound
  PROVE  P!GpTypeOK /\ P!PathsAreRoutes
<1>1. /\ GpGiven /\ gpStep \in {"reach", "paths", "done"}
      /\ gpQueue \in Seq(GpSeqs) /\ (\A p \in gpSeen : GpWalk(p))
      /\ gpNear.nodes \subseteq P!GpNodes /\ gpNear.links \subseteq gpLinks
      /\ gpPaths \in Seq(GpSeqs) /\ Len(gpPaths) <= PathLimit
      /\ (\A i \in 1..Len(gpPaths) : GpFound(gpPaths[i])) /\ GpSorted(gpPaths)
  BY DEF GpSound, GpForms
<1>2. DOMAIN gpPaths = 1..Len(gpPaths) /\ Len(gpPaths) \in Nat BY <1>1
<1>3. \A p : p \in P!ToSet(gpPaths) <=> GpIn(p, gpPaths) BY <1>2, GpCounts DEF GpIn
<1>4. P!GpTypeOK
  <2>1. gpLinks \subseteq P!GpNodes \X P!GpNodes BY <1>1 DEF GpGiven, P!GpNodes
  <2>2. gpSeen \subseteq GpSeqs BY <1>1 DEF GpWalk
  <2> QED BY <1>1, <2>1, <2>2 DEF P!GpTypeOK, GpGiven, GpSeqs
<1>5. ASSUME gpStep = "done" PROVE P!PathsAreRoutes
  <2>1. GpReached /\ (Len(gpPaths) < PathLimit => \A r : GpWanted(r) => GpIn(r, gpPaths))
    BY <1>5 DEF GpSound
  <2>2. \A p \in P!ToSet(gpPaths) : GpFound(p) BY <1>1, <1>3 DEF GpIn
  <2>3. ASSUME NEW p \in P!ToSet(gpPaths) PROVE p \in P!Routes /\ P!Passed(p) <= gpMax
    <3>1. GpWalk(p) /\ P!Hops(p) <= gpMax /\ p[Len(p)] = Goal BY <2>2 DEF GpFound, GpWithin
    <3>2. p \in P!Routes BY <1>1, <3>1, GpRoutes
    <3>3. P!Passed(p) <= P!Hops(p) BY <1>1, <3>1, GpPassed
    <3>4. P!Passed(p) \in Int /\ P!Hops(p) \in Int /\ gpMax \in Int
      <4>1. P!Hops(p) \in Nat BY <3>1, GpHops DEF GpWalk
      <4>2. gpMax \in Nat BY <1>1, PathsAssumption DEF GpGiven
      <4>3. P!Passed(p) \in Nat
        <5>1. p \in GpSeqs /\ DOMAIN p = 1..Len(p) /\ Len(p) \in Nat BY <3>1 DEF GpWalk, GpSeqs
        <5>2. P!ToSet(p) \subseteq P!GpNodes BY <3>1, GpWalkSteps
        <5>3. IsFiniteSet(P!GpNodes) BY GpNodesFinite
        <5>4. IsFiniteSet(P!ToSet(p) \ (gpZero \cup {Start, Goal})) BY <5>2, <5>3, FS_Subset
        <5> QED BY <5>4, FS_CardinalityType, GpCounts DEF P!Passed
      <4> QED BY <4>1, <4>2, <4>3
    <3> QED BY <3>1, <3>2, <3>3, <3>4
  <2>4. \A i \in 1..Len(gpPaths) - 1 : Len(gpPaths[i]) <= Len(gpPaths[i + 1])
    <3> TAKE i \in 1..Len(gpPaths) - 1
    <3>1. i \in 1..Len(gpPaths) /\ i + 1 \in 1..Len(gpPaths) /\ i <= i + 1 BY <1>2
    <3> QED BY <1>1, <3>1 DEF GpSorted
  <2>5. \A p \in P!ToSet(gpPaths) : P!ToSet(p) \subseteq gpNear.nodes /\ P!Steps(p) \subseteq gpNear.links
    BY <2>1, <2>2 DEF GpReached, GpFound
  <2>6. ASSUME Len(gpPaths) < PathLimit, gpMax > 0, NEW r \in P!Routes, Len(r) - 2 <= gpMax
        PROVE  r \in P!ToSet(gpPaths)
    <3>1. GpWalk(r) /\ r[Len(r)] = Goal BY <1>1, GpRoutes
    <3>2. GpWanted(r) BY <2>6, <3>1 DEF GpWanted
    <3> QED BY <1>3, <2>1, <2>6, <3>2
  <2> QED BY <2>3, <2>4, <2>5, <2>6 DEF P!PathsAreRoutes
<1>6. CASE gpStep # "done" BY <1>4, <1>6 DEF P!PathsAreRoutes
<1> QED BY <1>4, <1>5, <1>6

-----------------------------------------------------------------------------
(* The panels together.                                                    *)

\* A step of the client is a step of one panel; the others stutter.
LEMMA PanelsStep ==
  ASSUME [Next]_vars
  PROVE  /\ [L!LkNext]_(L!lkVars) /\ [C!CpNext]_(C!cpVars) /\ [V!VnNext]_(V!vnVars)
         /\ [D!NdNext]_(D!ndVars) /\ [O!OvNext]_(O!ovVars) /\ [P!GpNext]_(P!gpVars)
         /\ [T!TfNext]_(T!tfVars) /\ [S!NsNext]_(S!nsVars) /\ [G!NgNext]_(G!ngVars)
         /\ [M!NmNext]_(M!nmVars) /\ UNCHANGED part
<1>1. (L!LkNext \/ UNCHANGED links) /\ UNCHANGED part BY DEF Next, vars
<1>2. C!CpNext \/ UNCHANGED captures BY DEF Next, vars
<1>3. V!VnNext \/ UNCHANGED virtual BY DEF Next, vars
<1>4. D!NdNext \/ UNCHANGED details BY DEF Next, vars
<1>5. O!OvNext \/ UNCHANGED overview BY DEF Next, vars
<1>6. P!GpNext \/ UNCHANGED paths BY DEF Next, vars
<1>7. T!TfNext \/ UNCHANGED transform BY DEF Next, vars
<1>8. S!NsNext \/ UNCHANGED selection BY DEF Next, vars
<1>9. G!NgNext \/ UNCHANGED graph BY DEF Next, vars
<1>10. M!NmNext \/ UNCHANGED map BY DEF Next, vars
<1>11. [L!LkNext]_(L!lkVars) BY <1>1 DEF links, L!lkVars
<1>12. [C!CpNext]_(C!cpVars) BY <1>2 DEF captures, C!cpVars
<1>13. [V!VnNext]_(V!vnVars) BY <1>3 DEF virtual, V!vnVars
<1>14. [D!NdNext]_(D!ndVars) BY <1>4 DEF details, D!ndVars
<1>15. [O!OvNext]_(O!ovVars) BY <1>5 DEF overview, O!ovVars
<1>16. [P!GpNext]_(P!gpVars) BY <1>6 DEF paths, P!gpVars
<1>17. [T!TfNext]_(T!tfVars) BY <1>7 DEF transform, T!tfVars
<1>18. [S!NsNext]_(S!nsVars) BY <1>8 DEF selection, S!nsVars
<1>19. [G!NgNext]_(G!ngVars) BY <1>9 DEF graph, G!ngVars
<1>20. [M!NmNext]_(M!nmVars) BY <1>10 DEF map, M!nmVars
<1> QED
  BY <1>1, <1>11, <1>12, <1>13, <1>14, <1>15, <1>16, <1>17, <1>18, <1>19, <1>20

\* What holds of every panel at once.
PanelsSound ==
  /\ part \in Parts
  /\ LkSound /\ CpSound /\ VnSound /\ NdSound /\ NdListed /\ OvInv
  /\ GpSound /\ TfSound /\ NsSound /\ NgSound /\ NmSound

LEMMA PanelsBegin == Init => PanelsSound
<1> SUFFICES ASSUME Init PROVE PanelsSound OBVIOUS
<1>1. /\ L!LkInit /\ C!CpInit /\ V!VnInit /\ D!NdInit /\ O!OvInit
      /\ S!NsInit /\ G!NgInit /\ M!NmInit /\ P!GpInit /\ part \in Parts
  BY DEF Init
<1>2. NdSound /\ NdListed BY <1>1, NdBegins
<1>3. TfSound BY TfStarts DEF Init
<1>4. /\ MaxFetches \in Nat \ {0} /\ MaxAsks \in Nat \ {0} BY GraphAssumption
<1>5. NgSound BY <1>1, <1>4, NgStarts
<1>6. CpSound /\ VnSound /\ NmSound
  BY <1>1, CapturesAssumption, VirtualAssumption, MapAssumption, CpBegins, VnStarts, NmStarts
<1>7. LkSound /\ OvInv /\ GpSound /\ NsSound
  BY <1>1, LkStarts, OvInitCurrent, GpStarts, NsStarts
<1> QED BY <1>1, <1>2, <1>3, <1>5, <1>6, <1>7 DEF PanelsSound

LEMMA PanelsKeep == PanelsSound /\ [Next]_vars => PanelsSound'
<1> SUFFICES ASSUME PanelsSound, [Next]_vars PROVE PanelsSound' OBVIOUS
<1>1. part' \in Parts BY PanelsStep DEF PanelsSound
<1>2. LkSound' BY PanelsStep, LkStep DEF PanelsSound
<1>3. CpSound' BY PanelsStep, CpStep, CapturesAssumption DEF PanelsSound
<1>4. VnSound' BY PanelsStep, VnStep, VirtualAssumption DEF PanelsSound
<1>5. NdSound' BY PanelsStep, NdStepSound DEF PanelsSound
<1>6. NdListed' BY PanelsStep, NdStepListed, DetailsAssumption DEF PanelsSound, D!None
<1>7. OvInv' BY PanelsStep, OvStepCurrent DEF PanelsSound
<1>8. GpSound' BY PanelsStep, GpStep DEF PanelsSound
<1>9. TfSound' BY PanelsStep, TfStep DEF PanelsSound
<1>10. NsSound' BY PanelsStep, NsStep DEF PanelsSound
<1>11. NgSound' BY PanelsStep, NgStep, GraphAssumption DEF PanelsSound
<1>12. NmSound' BY PanelsStep, NmStep, MapAssumption DEF PanelsSound
<1> QED
  BY <1>1, <1>2, <1>3, <1>4, <1>5, <1>6, <1>7, <1>8, <1>9, <1>10, <1>11, <1>12 DEF PanelsSound

LEMMA PanelsAlways == Spec => []PanelsSound
  BY PanelsBegin, PanelsKeep, PTL DEF Spec

\* What every panel holds, every request in flight and every drawing is of its type.
THEOREM PanelsTypeCorrect == Spec => []PanelsTypeOK
<1>1. PanelsSound => PanelsTypeOK
  <2> SUFFICES ASSUME PanelsSound PROVE PanelsTypeOK OBVIOUS
  <2>1. L!LkTypeOK /\ C!CpTypeOK /\ V!VnTypeOK
    BY LkTypesSplit, CpTypesSplit, VnTypesSplit DEF PanelsSound, LkSound, CpSound, VnSound
  <2>2. D!NdTypeOK /\ O!OvTypeOK BY DEF PanelsSound, NdSound, OvInv, OvTyped
  <2>3. P!GpTypeOK /\ T!TfTypeOK BY GpShows, TfShows DEF PanelsSound
  <2>4. S!NsTypeOK /\ G!NgTypeOK /\ M!NmTypeOK BY NsShows, NgShows DEF PanelsSound, NmSound
  <2> QED BY <2>1, <2>2, <2>3, <2>4 DEF PanelsSound, Parts, PanelsTypeOK
<1> QED BY <1>1, PanelsAlways, PTL

\* What a panel shows without a spinner is of the link, the node, the port and the range
\* chosen at this moment, whatever answers were still on their way when the choice was
\* made; and a focus handed to the map waits until its marker can be shown.
THEOREM ShownAlwaysChosen == Spec => []ShownIsChosen
<1>1. PanelsSound => ShownIsChosen
  BY LkShows, NmShows DEF PanelsSound, NdSound, NdListed, ShownIsChosen
<1> QED BY <1>1, PanelsAlways, PTL

\* Lists are the server's when nothing is in flight and nothing failed, was late or skipped;
\* the guard that lets one load of the overview at a time is never left up; and the private
\* key on display is the one the server holds.
THEOREM ListsAlwaysServers == Spec => []ListsAreServers
<1>1. OvInv => O!GuardTellsLoad BY DEF OvInv, OvLoads, O!GuardTellsLoad
<1>2. OvInv => O!StatusesListed BY DEF OvInv, OvLoads, OvCurrent, O!StatusesListed, OvQuiet
<1>3. PanelsSound => ListsAreServers
  BY <1>1, <1>2, CpShows, VnShows DEF PanelsSound, ListsAreServers
<1> QED BY <1>3, PanelsAlways, PTL

\* The panel never asks for a second capture beside one that runs, unless a load failed or
\* was overtaken: its button is guarded by a list that is not behind.
THEOREM NoSecondCapture == Spec => OneCaptureAtATime
<1> DEFINE Alone == \A i \in CpSlots :
                      cpReq[i] = C!Free /\ cpReq'[i].kind = "start" /\ cpTrusted
                      => cpServer.running = {}
<1>1. PanelsSound /\ [Next]_vars => [Alone]_(C!cpVars)
  BY PanelsStep, CpOffers DEF PanelsSound
<1> QED BY <1>1, PanelsAlways, PTL DEF Spec, OneCaptureAtATime, C!OneCaptureAtATime

\* The graph draws who heard whom, the selection is one node or two different ones, the
\* paths highlighted are the routes between them, and once everything was answered the
\* canvas shows the data of the settings and the interfaces chosen.
THEOREM GraphAlwaysTrue == Spec => []GraphIsTrue
<1>1. PanelsSound => GraphIsTrue
  BY GpShows, TfShows, NsShows, NgShows DEF PanelsSound, GraphIsTrue
<1> QED BY <1>1, PanelsAlways, PTL
=============================================================================
