--------------------------- MODULE WebFormsProofs ---------------------------
(***************************************************************************)
(* Theorems about the forms of the web client and about its navigation,    *)
(* for any names, channels, jobs, nodes and tabs and any number of requests *)
(* in flight.                                                               *)
(***************************************************************************)
EXTENDS MCWebForms, TLAPS

-----------------------------------------------------------------------------
(* The channel of a publication.                                           *)

\* A channel there is, or was typed, is not what an empty ref holds.
LEMMA NullIsNoField == C!Null \notin C!FieldNames \cup C!FieldKeys
  BY ChannelAssumption DEF C!Null, C!FieldNames, C!FieldKeys, C!Pki, C!Unset

\* While the switch is on and no other job was shown the refs hold both fields of
\* the moment it was turned on; otherwise both are empty.
RefsKept ==
  /\ C!CfTypeOK
  /\ cfRefs # C!NoRefs => cfRefs.name # C!Null /\ cfRefs.key # C!Null
  /\ cfRefs # C!NoRefs /\ ~cfMoved => cfPki /\ cfRefs = cfBefore

LEMMA ChannelInit == C!CfInit => RefsKept
<1> SUFFICES ASSUME C!CfInit PROVE RefsKept
  OBVIOUS
<1>1. cfLooks \in [Channels -> 0..MaxLooks]
  BY ChannelAssumption DEF C!CfInit
<1>2. cfRefs = C!NoRefs /\ cfBefore = C!NoRefs BY DEF C!CfInit
<1>3. C!NoRefs \in [name : C!FieldNames \cup {C!Null}, key : C!FieldKeys \cup {C!Null}]
  BY DEF C!NoRefs, C!Pair
<1>4. C!Unset \in C!FieldNames \cap C!FieldKeys BY DEF C!FieldNames, C!FieldKeys
<1>5. {cfStored, cfSent} \subseteq [name : C!FieldNames, key : C!FieldKeys]
  BY <1>4 DEF C!CfInit, C!Pair
<1> QED
  BY <1>1, <1>2, <1>3, <1>4, <1>5 DEF C!CfInit, RefsKept, C!CfTypeOK

LEMMA ChannelStep == RefsKept /\ [C!CfNext]_C!cfVars => RefsKept'
<1> SUFFICES ASSUME RefsKept, [C!CfNext]_C!cfVars PROVE RefsKept'
  OBVIOUS
<1> USE DEF RefsKept, C!CfTypeOK
<1>1. ASSUME NEW c \in Channels, C!TypeChannel(c) PROVE RefsKept'
  BY <1>1 DEF C!TypeChannel, C!Shown, C!Persisted, C!Pair, C!FieldNames
<1>2. ASSUME NEW c \in Channels, C!ChooseChannel(c) PROVE RefsKept'
  BY <1>2, ChannelAssumption DEF C!ChooseChannel, C!Shown, C!Persisted, C!Pair, C!FieldNames
<1>3. ASSUME NEW c \in Channels, C!KeyArrives(c) PROVE RefsKept'
  BY <1>3, ChannelAssumption DEF C!KeyArrives, C!Shown, C!Persisted, C!Pair, C!FieldKeys
<1>4. ASSUME NEW k \in C!FieldKeys, C!TypeKey(k) PROVE RefsKept'
  BY <1>4 DEF C!TypeKey, C!Shown, C!Persisted, C!Pair
<1>5. CASE C!CheckPki
  BY <1>5, NullIsNoField
  DEF C!CheckPki, C!Shown, C!Persisted, C!Pair, C!NoRefs, C!FieldNames, C!FieldKeys
<1> C!NoRefs \in [name : C!FieldNames \cup {C!Null}, key : C!FieldKeys \cup {C!Null}]
  BY DEF C!NoRefs, C!Pair
<1>6. CASE C!UncheckPki
  <2>1. cfName' \in C!FieldNames /\ cfKey' \in C!FieldKeys
    BY <1>6 DEF C!UncheckPki, C!Shown
  <2>2. cfStored' \in [name : C!FieldNames, key : C!FieldKeys]
    BY <1>6, <2>1 DEF C!UncheckPki, C!Shown, C!Persisted, C!Pair
  <2>3. cfRefs' = C!NoRefs /\ cfBefore' = C!NoRefs /\ cfPki' = FALSE
    BY <1>6 DEF C!UncheckPki, C!Shown
  <2>4. UNCHANGED <<cfHost, cfLooks, cfSent, cfMoved>> BY <1>6 DEF C!UncheckPki
  <2> QED BY <2>1, <2>2, <2>3, <2>4
<1>7. CASE C!Revisit
  <2>1. cfName' \in C!FieldNames /\ cfKey' \in C!FieldKeys
    BY <1>7 DEF C!Revisit, C!Shown, C!FieldNames, C!FieldKeys
  <2>2. cfLooks' \in [Channels -> 0..MaxLooks] BY <1>7, ChannelAssumption DEF C!Revisit
  <2> QED BY <1>7, <2>1, <2>2 DEF C!Revisit, C!Shown, C!Persisted, C!Pair
<1>8. CASE C!Send
  BY <1>8 DEF C!Send, C!fields, C!Pair, C!FieldNames, C!FieldKeys
<1>9. ASSUME NEW c \in Channels \cup {C!Pki}, NEW k \in C!FieldKeys, NEW p \in BOOLEAN, C!ShowJob(c, k, p)
      PROVE  RefsKept'
  BY <1>9 DEF C!ShowJob, C!Shown, C!Persisted, C!Pair, C!NoRefs, C!FieldNames
<1>10. CASE UNCHANGED C!cfVars
  BY <1>10 DEF C!cfVars
<1> QED
  BY <1>1, <1>2, <1>3, <1>4, <1>5, <1>6, <1>7, <1>8, <1>9, <1>10
  DEF C!CfNext, C!FieldKeys
-----------------------------------------------------------------------------
(* One-shot publications.                                                  *)

OsNames == Nodes \cup Foreign \cup {O!Unset}

\* Every source the server allows is of the names there are, and every node too.
LEMMA AllowedTyped ==
  ASSUME NEW source \in OsNames, NEW obj \in Nodes \cup {O!Unset}, NEW listed, NEW select
  PROVE  /\ O!Allowed(source, listed, select) \in OsNames
         /\ O!ObjectOf(source, obj, listed, select) \in Nodes \cup {O!Unset}
  BY DEF O!Allowed, O!ObjectOf, OsNames

\* What is filled in is of the node, and what is not stays.
LEMMA DetailsTyped ==
  ASSUME O!OsTypeOK, NEW asked, NEW action, NEW obj \in Nodes \cup {O!Unset}, O!Details(asked, action, obj)
  PROVE  /\ osNames' \in O!Whose /\ osValues' \in [O!Detailed -> O!Whose] /\ osTyped' \in BOOLEAN
         /\ O!FilledIn(asked, action, obj) /\ action = "nodeinfo" => osNames' = obj
         /\ ~(O!FilledIn(asked, action, obj) /\ action = "nodeinfo") => osNames' = osNames /\ osTyped' = osTyped
<1>1. obj \in O!Whose BY DEF O!Whose
<1>2. osValues' \in [O!Detailed -> O!Whose]
  BY <1>1 DEF O!Details, O!OsTypeOK
<1> QED BY <1>1, <1>2 DEF O!Details, O!OsTypeOK

\* The names of a form follow the node, and the node the source.
NamesKept ==
  /\ O!OsTypeOK
  /\ O!SourceAllowed
  /\ osListed /\ osSource \in Nodes => osObj = osSource
  /\ osAction = "nodeinfo" /\ osObj # O!Unset /\ ~osTyped => osNames = osObj

Fields(action, source, obj, target, ack, listed, select) ==
  /\ action \in OsActions \cup {O!None} /\ source \in OsNames /\ obj \in Nodes \cup {O!Unset}
  /\ target \in OsNames /\ ack \in BOOLEAN /\ listed \in BOOLEAN /\ select \in SUBSET Nodes

\* Whatever a handler makes of the fields, the effects that follow keep that.
LEMMA SettledKeeps ==
  ASSUME NamesKept, osAddress' \in O!Addresses, osClearing' \in BOOLEAN, osSending' \in 0..MaxSends,
         NEW action, NEW source, NEW obj, NEW target, NEW ack, NEW listed, NEW select,
         Fields(action, source, obj, target, ack, listed, select),
         O!Settled(action, source, obj, target, ack, listed, select)
  PROVE  NamesKept'
<1> DEFINE wanted == IF osAddress'.action = O!None THEN action ELSE osAddress'.action
           from == O!Allowed(source, listed, select)
           node == O!ObjectOf(source, obj, listed, select)
<1>1. /\ osAction' = wanted /\ osSource' = from /\ osObj' = node
      /\ osListed' = listed /\ osSelect' = select
      /\ O!Details(action, wanted, node)
  BY DEF O!Settled
<1>2. from \in OsNames /\ node \in Nodes \cup {O!Unset} BY AllowedTyped DEF Fields
<1>3. /\ osNames' \in O!Whose /\ osValues' \in [O!Detailed -> O!Whose] /\ osTyped' \in BOOLEAN
      /\ O!FilledIn(action, wanted, node) /\ wanted = "nodeinfo" => osNames' = node
      /\ ~(O!FilledIn(action, wanted, node) /\ wanted = "nodeinfo") => osNames' = osNames /\ osTyped' = osTyped
  BY <1>1, <1>2, DetailsTyped DEF NamesKept
<1>4. O!OsTypeOK'
  <2>1. osAddress'.action \in OsActions \cup {O!None} /\ osAddress'.target \in OsNames
    BY DEF O!Addresses, OsNames
  <2>2. osTarget' \in OsNames /\ osAck' \in BOOLEAN BY <2>1 DEF O!Settled, Fields
  <2>3. osStored' \in [source : OsNames, ack : BOOLEAN] BY <1>2 DEF O!Settled, Fields
  <2> QED BY <1>1, <1>2, <1>3, <2>1, <2>2, <2>3 DEF O!OsTypeOK, OsNames, Fields
<1>5. O!SourceAllowed'
  BY <1>1 DEF O!SourceAllowed, O!Allowed, O!Restricting
<1>6. listed /\ from \in Nodes => node = from
  BY OneShotAssumption DEF O!ObjectOf, O!Allowed
<1>7. wanted = "nodeinfo" /\ node # O!Unset /\ ~osTyped' => osNames' = node
  <2>1. CASE O!FilledIn(action, wanted, node) BY <2>1, <1>3
  <2>2. CASE ~O!FilledIn(action, wanted, node) /\ node # O!Unset
    <3>1. node = osObj /\ action = osAction /\ wanted = action BY <2>2 DEF O!FilledIn
    <3> QED BY <3>1, <2>2, <1>3 DEF NamesKept
  <2> QED BY <2>1, <2>2
<1> QED BY <1>1, <1>4, <1>5, <1>6, <1>7 DEF NamesKept

\* A step that leaves the fields keeps it as well.
LEMMA UntouchedKeeps ==
  ASSUME NamesKept, osSending' \in 0..MaxSends,
         UNCHANGED <<osAction, osSource, osObj, osTarget, osAck, osListed, osSelect, osAddress, osClearing, osStored>>,
         osNames' \in O!Whose, osValues' \in [O!Detailed -> O!Whose], osTyped' \in BOOLEAN,
         osTyped' \/ (osNames' = osNames /\ osTyped' = osTyped)
  PROVE  NamesKept'
<1>1. O!OsTypeOK' BY DEF NamesKept, O!OsTypeOK
<1>2. O!SourceAllowed' BY DEF NamesKept, O!SourceAllowed, O!Restricting
<1> QED BY <1>1, <1>2 DEF NamesKept

LEMMA OneShotInit == O!OsInit => NamesKept
<1> SUFFICES ASSUME O!OsInit PROVE NamesKept
  OBVIOUS
<1>1. O!Unset \in O!Whose /\ O!NoAddress \in O!Addresses BY DEF O!Whose, O!Addresses, O!NoAddress
<1>2. O!OsTypeOK
  <2>1. osSending \in 0..MaxSends BY OneShotAssumption DEF O!OsInit
  <2>2. osStored \in [source : Nodes \cup Foreign \cup {O!Unset}, ack : BOOLEAN] BY DEF O!OsInit
  <2> QED BY <1>1, <2>1, <2>2 DEF O!OsInit, O!OsTypeOK
<1>3. O!SourceAllowed BY DEF O!OsInit, O!SourceAllowed, O!Restricting
<1> QED BY <1>2, <1>3 DEF O!OsInit, NamesKept

LEMMA OneShotStep == NamesKept /\ [O!OsNext]_O!osVars => NamesKept'
<1> SUFFICES ASSUME NamesKept, [O!OsNext]_O!osVars PROVE NamesKept'
  OBVIOUS
<1>t. /\ osAction \in OsActions \cup {O!None} /\ osSource \in OsNames /\ osObj \in Nodes \cup {O!Unset}
      /\ osTarget \in OsNames /\ osAck \in BOOLEAN /\ osListed \in BOOLEAN /\ osSelect \in SUBSET Nodes
  BY DEF NamesKept, O!OsTypeOK, OsNames
<1>u. /\ osAddress \in O!Addresses /\ osClearing \in BOOLEAN /\ osSending \in 0..MaxSends
      /\ osNames \in O!Whose /\ osValues \in [O!Detailed -> O!Whose] /\ osTyped \in BOOLEAN
      /\ osStored \in [source : OsNames, ack : BOOLEAN]
      /\ MaxSends \in Nat
  BY OneShotAssumption DEF NamesKept, O!OsTypeOK, OsNames
<1>1. CASE O!ListsArrive
  <2>1. PICK answer \in {Selectable, {}} :
          O!Settled(osAction, osSource, osObj, osTarget, osAck, TRUE, IF answer = {} THEN Nodes ELSE answer)
    BY <1>1 DEF O!ListsArrive
  <2>2. Fields(osAction, osSource, osObj, osTarget, osAck, TRUE, IF answer = {} THEN Nodes ELSE answer)
    BY <1>t, OneShotAssumption DEF Fields
  <2>3. osAddress' \in O!Addresses /\ osClearing' \in BOOLEAN /\ osSending' \in 0..MaxSends
    BY <1>1, <1>u DEF O!ListsArrive
  <2> QED BY <2>1, <2>2, <2>3, SettledKeeps
<1>2. ASSUME NEW a \in OsActions, O!ClickAction(a) PROVE NamesKept'
  <2>1. O!Settled(a, osSource, osObj, osTarget, osAck \/ a = "reachability-test", osListed, osSelect) BY <1>2 DEF O!ClickAction
  <2>2. Fields(a, osSource, osObj, osTarget, osAck \/ a = "reachability-test", osListed, osSelect)
    BY <1>t DEF Fields, OsNames
  <2>3. osAddress' \in O!Addresses /\ osClearing' \in BOOLEAN /\ osSending' \in 0..MaxSends
    BY <1>2, <1>t, <1>u DEF O!ClickAction
  <2> QED BY <2>1, <2>2, <2>3, SettledKeeps
<1>3. ASSUME NEW n \in OsNames, O!TypeSource(n) PROVE NamesKept'
  <2>1. O!Settled(osAction, n, O!Unset, osTarget, osAck, osListed, osSelect)
    BY <1>3 DEF O!TypeSource
  <2>2. Fields(osAction, n, O!Unset, osTarget, osAck, osListed, osSelect)
    BY <1>t DEF Fields, OsNames
  <2>3. osAddress' \in O!Addresses /\ osClearing' \in BOOLEAN /\ osSending' \in 0..MaxSends
    BY <1>3, <1>t, <1>u DEF O!TypeSource
  <2> QED BY <2>1, <2>2, <2>3, SettledKeeps
<1>4. ASSUME NEW n \in OsNames, O!TypeTarget(n) PROVE NamesKept'
  <2>1. O!Settled(osAction, osSource, osObj, n, osAck, osListed, osSelect) BY <1>4 DEF O!TypeTarget
  <2>2. Fields(osAction, osSource, osObj, n, osAck, osListed, osSelect) BY <1>t DEF Fields, OsNames
  <2>3. osAddress' \in O!Addresses /\ osClearing' \in BOOLEAN /\ osSending' \in 0..MaxSends
    BY <1>4, <1>t, <1>u DEF O!TypeTarget
  <2> QED BY <2>1, <2>2, <2>3, SettledKeeps
<1>5. ASSUME NEW n \in Nodes, O!ChooseSource(n) PROVE NamesKept'
  <2>1. O!Settled(osAction, n, n, osTarget, osAck, osListed, osSelect) BY <1>5 DEF O!ChooseSource
  <2>2. Fields(osAction, n, n, osTarget, osAck, osListed, osSelect) BY <1>t DEF Fields, OsNames
  <2>3. osAddress' \in O!Addresses /\ osClearing' \in BOOLEAN /\ osSending' \in 0..MaxSends
    BY <1>5, <1>t, <1>u DEF O!ChooseSource
  <2> QED BY <2>1, <2>2, <2>3, SettledKeeps
<1>6. CASE O!ToggleAck
  <2>1. O!Settled(osAction, osSource, osObj, osTarget, ~osAck, osListed, osSelect)
    BY <1>6 DEF O!ToggleAck
  <2>2. Fields(osAction, osSource, osObj, osTarget, ~osAck, osListed, osSelect)
    BY <1>t DEF Fields, OsNames
  <2>3. osAddress' \in O!Addresses /\ osClearing' \in BOOLEAN /\ osSending' \in 0..MaxSends
    BY <1>6, <1>t, <1>u DEF O!ToggleAck
  <2> QED BY <2>1, <2>2, <2>3, SettledKeeps
<1>7. CASE O!TypeNames
  BY <1>7, <1>t, <1>u, UntouchedKeeps DEF O!TypeNames, O!lists, O!address, O!Whose
<1>8. CASE O!TypeValues
  <2>1. osValues' \in [O!Detailed -> O!Whose] BY <1>8, <1>t, <1>u DEF O!TypeValues, O!Whose
  <2> QED BY <1>8, <2>1, <1>t, <1>u, UntouchedKeeps DEF O!TypeValues, O!lists, O!address
<1>9. CASE O!CancelAction
  <2>1. O!Settled(O!None, osSource, osObj, osTarget, osAck, osListed, osSelect)
    BY <1>9 DEF O!CancelAction, O!Leave
  <2>2. Fields(O!None, osSource, osObj, osTarget, osAck, osListed, osSelect)
    BY <1>t DEF Fields, OsNames
  <2>3. osAddress' \in O!Addresses /\ osClearing' \in BOOLEAN /\ osSending' \in 0..MaxSends
    BY <1>9, <1>t, <1>u DEF O!CancelAction, O!Leave
  <2> QED BY <2>1, <2>2, <2>3, SettledKeeps
<1>10. CASE O!StartAction
  BY <1>10, <1>t, <1>u, UntouchedKeeps DEF O!StartAction, O!lists, O!address, O!details
<1>11. CASE O!SendSucceeds
  <2>1. O!Settled(O!None, osSource, osObj, osTarget, osAck, osListed, osSelect)
    BY <1>11 DEF O!SendSucceeds, O!Leave
  <2>2. Fields(O!None, osSource, osObj, osTarget, osAck, osListed, osSelect)
    BY <1>t DEF Fields, OsNames
  <2>3. osAddress' \in O!Addresses /\ osClearing' \in BOOLEAN /\ osSending' \in 0..MaxSends
    BY <1>11, <1>t, <1>u DEF O!SendSucceeds, O!Leave
  <2> QED BY <2>1, <2>2, <2>3, SettledKeeps
<1>12. CASE O!SendFails
  BY <1>12, <1>t, <1>u, UntouchedKeeps DEF O!SendFails, O!lists, O!address, O!details
<1>13. CASE O!AddressCleared
  <2>1. O!Settled(osAction, osSource, osObj, osTarget, osAck, osListed, osSelect)
    BY <1>13 DEF O!AddressCleared, O!NoAddress, O!Addresses
  <2>2. Fields(osAction, osSource, osObj, osTarget, osAck, osListed, osSelect)
    BY <1>t DEF Fields, OsNames
  <2>3. osAddress' \in O!Addresses /\ osClearing' \in BOOLEAN /\ osSending' \in 0..MaxSends
    BY <1>13, <1>t, <1>u DEF O!AddressCleared, O!NoAddress, O!Addresses
  <2> QED BY <2>1, <2>2, <2>3, SettledKeeps
<1>14. ASSUME NEW url \in O!Addresses, O!Visit(url) PROVE NamesKept'
  <2>1. O!Visited(osStored, url) BY <1>14 DEF O!Visit
  <2>2. url.action \in OsActions \cup {O!None} /\ url.target \in OsNames BY DEF O!Addresses, OsNames
  <2>3. O!Unset \in O!Whose BY DEF O!Whose
  <2> DEFINE acked == osStored.ack \/ url.action = "reachability-test"
  <2>4. /\ osValues' = [a \in O!Detailed |-> O!Unset]
        /\ osStored' = [source |-> osStored.source, ack |-> acked]
        /\ osAck' = acked
    BY <2>1 DEF O!Visited
  <2>5. O!OsTypeOK'
    <3>1. acked \in BOOLEAN /\ osStored.source \in OsNames BY <1>u
    <3> HIDE DEF acked
    <3>2. osStored' \in [source : OsNames, ack : BOOLEAN] BY <3>1, <2>4
    <3>3. osValues' \in [O!Detailed -> O!Whose] BY <2>4, <2>3
    <3>4. osSending' \in 0..MaxSends BY <2>1, OneShotAssumption DEF O!Visited
    <3> QED
      BY <2>1, <2>2, <2>3, <2>4, <3>1, <3>2, <3>3, <3>4 DEF O!Visited, O!OsTypeOK, OsNames
  <2>6. O!SourceAllowed' BY <2>1 DEF O!Visited, O!SourceAllowed, O!Restricting
  <2> QED BY <2>1, <2>5, <2>6 DEF O!Visited, NamesKept
<1>15. CASE UNCHANGED O!osVars
  BY <1>15, <1>t, <1>u, UntouchedKeeps DEF O!osVars
<1> QED
  BY <1>1, <1>2, <1>3, <1>4, <1>5, <1>6, <1>7, <1>8, <1>9, <1>10, <1>11, <1>12, <1>13, <1>14, <1>15
  DEF O!OsNext, OsNames

\* The names of a node-info form are those of its source.
LEMMA NamesAreOfSource == NamesKept => O!SourceAllowed /\ O!NamesOfSource
  BY OneShotAssumption DEF NamesKept, O!NamesOfSource
-----------------------------------------------------------------------------
(* The page of periodic jobs.                                              *)

PjRequests == [kind : {"save", "delete", "toggle", "fetch", "none"},
               ph : {"sent", "acted", "fetching", "fetched", "none"},
               id : P!Ids, enabled : BOOLEAN, formId : P!Ids, list : P!Tables]
PjForms == [id : P!Ids, enabled : BOOLEAN, complete : BOOLEAN]

\* Tables of jobs, by their domains.
LEMMA TablesAre ==
  /\ P!NoJobs \in P!Tables
  /\ \A t \in P!Tables : DOMAIN t \subseteq P!JobIds /\ \A j \in DOMAIN t : t[j] \in BOOLEAN
  /\ \A ids \in SUBSET P!JobIds : \A f \in [ids -> BOOLEAN] : f \in P!Tables
<1>1. P!NoJobs \in [{} -> BOOLEAN] BY DEF P!NoJobs
<1> QED BY <1>1 DEF P!Tables

LEMMA EmptyRequests == P!Idle \in PjRequests /\ P!InitialPeriodicForm \in PjForms
  BY TablesAre, PeriodicAssumption
  DEF P!Idle, PjRequests, PjForms, P!InitialPeriodicForm, P!Ids, P!NewJob

\* A request is taken into a slot that was free.
LEMMA SendTakes ==
  ASSUME NEW r, P!Send(r)
  PROVE  \E i \in PjSlots : /\ pjReq[i] = P!Idle /\ pjReq' = [pjReq EXCEPT ![i] = r]
                            /\ pjTrusted' = (pjTrusted \/ P!AllIdle)
<1> DEFINE i == CHOOSE j \in PjSlots : pjReq[j] = P!Idle
<1>1. i \in PjSlots /\ pjReq[i] = P!Idle BY DEF P!Send
<1> QED BY <1>1 DEF P!Send

LEMMA FetchTakes ==
  ASSUME P!Fetch
  PROVE  \E i \in PjSlots :
           /\ pjReq[i] = P!Idle
           /\ pjReq' = [pjReq EXCEPT ![i] = [P!Idle EXCEPT !.kind = "fetch", !.ph = "fetching"]]
           /\ pjTrusted' = (pjTrusted \/ P!AllIdle)
           /\ pjLoading' = TRUE
  BY SendTakes DEF P!Fetch

\* What the state of the page is made of, one by one.
PageTypes ==
  /\ pjOpen \in BOOLEAN /\ pjLoading \in BOOLEAN /\ pjSaving \in BOOLEAN
  /\ pjTrusted \in BOOLEAN /\ pjHeld \in BOOLEAN /\ pjDraft \in P!Drafts
  /\ pjForm \in PjForms /\ pjList \in P!Tables /\ pjJobs \in P!Tables /\ pjCreated \in 0..MaxJobs
  /\ pjDeleting \in P!Ids /\ pjToggling \in P!Ids
  /\ pjReq \in [PjSlots -> PjRequests] /\ pjOlder \in [PjSlots -> SUBSET PjSlots]

LEMMA PageTyped == PageTypes => P!PjTypeOK
  BY DEF PageTypes, P!PjTypeOK, PjForms, PjRequests

LEMMA ClearedTyped ==
  ASSUME NEW k, P!Cleared(k), pjSaving \in BOOLEAN, pjDeleting \in P!Ids, pjToggling \in P!Ids
  PROVE  pjSaving' \in BOOLEAN /\ pjDeleting' \in P!Ids /\ pjToggling' \in P!Ids
  BY PeriodicAssumption DEF P!Cleared, P!Ids, P!NewJob

LEMMA GoneTyped ==
  ASSUME NEW i \in PjSlots, P!Gone(i), pjOlder \in [PjSlots -> SUBSET PjSlots]
  PROVE  pjOlder' \in [PjSlots -> SUBSET PjSlots]
  BY DEF P!Gone

\* Nothing but a save, a deletion or a toggle is performed; one performed is of a job
\* there was; and there is one save at most, while the page says there is.
RequestsKept ==
  /\ \A i \in PjSlots :
       /\ pjReq[i].ph \in {"sent", "acted"} => pjReq[i].kind \in {"save", "delete", "toggle"}
       /\ pjReq[i].ph = "acted" => pjReq[i].id \in P!JobIds
       /\ pjReq[i].kind = "save" => pjSaving
  /\ \A i, j \in PjSlots : pjReq[i].kind = "save" /\ pjReq[j].kind = "save" => i = j

\* A request performed, and a list served, as one change of one slot.
LEMMA ActedSlot ==
  ASSUME pjReq \in [PjSlots -> PjRequests], NEW i \in PjSlots, NEW id \in P!JobIds,
         pjReq' = [pjReq EXCEPT ![i].ph = "acted", ![i].id = id]
  PROVE  /\ pjReq' \in [PjSlots -> PjRequests]
         /\ pjReq'[i] = [pjReq[i] EXCEPT !.ph = "acted", !.id = id]
         /\ \A j \in PjSlots \ {i} : pjReq'[j] = pjReq[j]
<1> DEFINE r == [pjReq[i] EXCEPT !.ph = "acted", !.id = id]
<1>1. r \in PjRequests BY DEF PjRequests, P!Ids
<1>2. pjReq' = [pjReq EXCEPT ![i] = r] OBVIOUS
<1> HIDE DEF r
<1>3. /\ pjReq' \in [PjSlots -> PjRequests] /\ pjReq'[i] = r
      /\ \A j \in PjSlots \ {i} : pjReq'[j] = pjReq[j]
  BY <1>1, <1>2
<1> QED BY <1>3 DEF r

LEMMA ServedSlot ==
  ASSUME pjReq \in [PjSlots -> PjRequests], NEW i \in PjSlots, NEW list \in P!Tables,
         pjReq' = [pjReq EXCEPT ![i].ph = "fetched", ![i].list = list]
  PROVE  /\ pjReq' \in [PjSlots -> PjRequests]
         /\ pjReq'[i] = [pjReq[i] EXCEPT !.ph = "fetched", !.list = list]
         /\ \A j \in PjSlots \ {i} : pjReq'[j] = pjReq[j]
<1> DEFINE r == [pjReq[i] EXCEPT !.ph = "fetched", !.list = list]
<1>1. r \in PjRequests BY DEF PjRequests
<1>2. pjReq' = [pjReq EXCEPT ![i] = r] OBVIOUS
<1> HIDE DEF r
<1>3. /\ pjReq' \in [PjSlots -> PjRequests] /\ pjReq'[i] = r
      /\ \A j \in PjSlots \ {i} : pjReq'[j] = pjReq[j]
  BY <1>1, <1>2
<1> QED BY <1>3 DEF r

\* What a request makes of the server's jobs, and of itself.
Acts(i) ==
  /\ pjJobs' \in P!Tables /\ pjCreated' \in 0..MaxJobs
  /\ \E id \in P!JobIds : pjReq' = [pjReq EXCEPT ![i].ph = "acted", ![i].id = id]
  /\ pjReq[i].kind = "delete" =>
       /\ pjReq' = [pjReq EXCEPT ![i].ph = "acted", ![i].id = pjReq[i].id]
       /\ pjReq[i].id \in P!JobIds
       /\ DOMAIN pjJobs' = DOMAIN pjJobs \ {pjReq[i].id}
  /\ pjReq[i].kind # "delete" => DOMAIN pjJobs \subseteq DOMAIN pjJobs'

LEMMA PerformActs == ASSUME PageTypes, NEW i \in PjSlots, P!Perform(i) PROVE Acts(i)
<1> DEFINE r == pjReq[i]
           new == pjCreated + 1
           creates == r.kind = "save" /\ r.id = P!NewJob
           id == IF creates THEN new ELSE r.id
<1>1. /\ IF creates THEN pjCreated < MaxJobs ELSE r.id \in DOMAIN pjJobs
      /\ pjCreated' = IF creates THEN new ELSE pjCreated
      /\ pjJobs' = IF r.kind = "delete"
                     THEN [j \in DOMAIN pjJobs \ {r.id} |-> pjJobs[j]]
                     ELSE [j \in DOMAIN pjJobs \cup {id} |-> IF j = id THEN r.enabled ELSE pjJobs[j]]
      /\ pjReq' = [pjReq EXCEPT ![i].ph = "acted", ![i].id = id]
  BY DEF P!Perform
<1>2. r \in PjRequests /\ pjCreated \in 0..MaxJobs /\ pjJobs \in P!Tables BY DEF PageTypes
<1>3. DOMAIN pjJobs \subseteq P!JobIds /\ \A j \in DOMAIN pjJobs : pjJobs[j] \in BOOLEAN
  BY <1>2, TablesAre
<1>4. id \in P!JobIds /\ pjCreated' \in 0..MaxJobs
  BY <1>1, <1>2, <1>3, PeriodicAssumption DEF P!JobIds
<1>5. CASE r.kind = "delete"
  <2>1. pjJobs' \in [DOMAIN pjJobs \ {r.id} -> BOOLEAN] BY <1>1, <1>3, <1>5
  <2>2. id = r.id BY <1>5
  <2> QED BY <1>1, <1>3, <1>4, <1>5, <2>1, <2>2, TablesAre DEF Acts
<1>6. CASE r.kind # "delete"
  <2>1. r.enabled \in BOOLEAN BY <1>2 DEF PjRequests
  <2>2. pjJobs' \in [DOMAIN pjJobs \cup {id} -> BOOLEAN] BY <1>1, <1>3, <1>6, <2>1
  <2>3. DOMAIN pjJobs \cup {id} \subseteq P!JobIds BY <1>3, <1>4
  <2>4. pjJobs' \in P!Tables BY <2>2, <2>3, TablesAre
  <2>5. DOMAIN pjJobs' = DOMAIN pjJobs \cup {id} BY <2>2
  <2>6. \E n \in P!JobIds : pjReq' = [pjReq EXCEPT ![i].ph = "acted", ![i].id = n]
    BY <1>1, <1>4
  <2> QED BY <1>4, <1>6, <2>4, <2>5, <2>6 DEF Acts
<1> QED BY <1>5, <1>6

LEMMA PageInitTyped == P!PjInit => PageTypes
<1> SUFFICES ASSUME P!PjInit PROVE PageTypes
  OBVIOUS
<1>1. pjReq \in [PjSlots -> PjRequests] /\ pjForm \in PjForms BY EmptyRequests DEF P!PjInit
<1>2. pjList \in P!Tables /\ pjJobs \in P!Tables BY TablesAre DEF P!PjInit
<1>3. pjOlder \in [PjSlots -> SUBSET PjSlots] BY DEF P!PjInit
<1>4. pjCreated \in 0..MaxJobs BY PeriodicAssumption DEF P!PjInit
<1>5. pjDeleting \in P!Ids /\ pjToggling \in P!Ids BY DEF P!PjInit, P!Ids
<1>6. pjDraft \in P!Drafts BY DEF P!PjInit, P!Drafts
<1> QED BY <1>1, <1>2, <1>3, <1>4, <1>5, <1>6 DEF PageTypes, P!PjInit

LEMMA PageStepTyped == PageTypes /\ RequestsKept /\ [P!PjNext]_P!pjVars => PageTypes'
<1> SUFFICES ASSUME PageTypes, RequestsKept, [P!PjNext]_P!pjVars PROVE PageTypes'
  OBVIOUS
<1>t. /\ pjOpen \in BOOLEAN /\ pjLoading \in BOOLEAN /\ pjSaving \in BOOLEAN
      /\ pjTrusted \in BOOLEAN /\ pjHeld \in BOOLEAN /\ pjDraft \in P!Drafts
      /\ pjForm \in PjForms /\ pjList \in P!Tables /\ pjJobs \in P!Tables /\ pjCreated \in 0..MaxJobs
      /\ pjDeleting \in P!Ids /\ pjToggling \in P!Ids
      /\ pjReq \in [PjSlots -> PjRequests] /\ pjOlder \in [PjSlots -> SUBSET PjSlots]
  BY DEF PageTypes
<1> USE <1>t DEF P!flags, P!backend, P!history
<1>i. P!JobIds \subseteq P!Ids /\ P!NewJob \in P!Ids BY DEF P!Ids
<1>d. "unsent" \in P!Drafts /\ P!DraftOfSubmit \in P!Drafts BY DEF P!Drafts, P!DraftOfSubmit
<1>s. ASSUME NEW r \in PjRequests, P!Send(r)
      PROVE  pjReq' \in [PjSlots -> PjRequests] /\ pjTrusted' \in BOOLEAN
  <2>1. PICK i \in PjSlots : pjReq' = [pjReq EXCEPT ![i] = r]
    BY <1>s, SendTakes
  <2>2. pjTrusted' \in BOOLEAN BY <1>s DEF P!Send, P!AllIdle
  <2> QED BY <2>1, <2>2
<1>f. ASSUME P!Fetch
      PROVE  pjReq' \in [PjSlots -> PjRequests] /\ pjTrusted' \in BOOLEAN /\ pjLoading' \in BOOLEAN
  <2>1. [P!Idle EXCEPT !.kind = "fetch", !.ph = "fetching"] \in PjRequests
    BY EmptyRequests DEF PjRequests
  <2> QED BY <1>f, <2>1, <1>s DEF P!Fetch
<1>1. CASE P!OpenPeriodic BY <1>1, <1>f DEF PageTypes, P!OpenPeriodic
<1>2. CASE P!ClosePeriodic BY <1>2, <1>d, EmptyRequests DEF PageTypes, P!ClosePeriodic
<1>3. CASE P!RefreshJobs BY <1>3, <1>f DEF PageTypes, P!RefreshJobs
<1>4. CASE P!NewPeriodicForm BY <1>4, <1>d, EmptyRequests DEF PageTypes, P!NewPeriodicForm
<1>5. CASE P!SubmitPeriodic
  <2>1. [P!Idle EXCEPT !.kind = "save", !.ph = "sent", !.id = pjForm.id, !.formId = pjForm.id,
                       !.enabled = pjForm.enabled] \in PjRequests
    BY EmptyRequests DEF PjRequests, PjForms
  <2> QED BY <1>5, <2>1, <1>s, <1>d DEF PageTypes, P!SubmitPeriodic
<1>6. ASSUME NEW j \in P!JobIds, P!EditRow(j) PROVE PageTypes'
  <2>1. pjList[j] \in BOOLEAN BY <1>6, TablesAre DEF P!EditRow, P!Row
  <2>2. pjForm' \in PjForms BY <1>6, <1>i, <2>1 DEF P!EditRow, P!FormOfJob, PjForms
  <2>3. pjHeld' \in BOOLEAN BY <1>6 DEF P!EditRow, P!Doomed
  <2> QED BY <1>6, <2>2, <2>3, <1>d DEF PageTypes, P!EditRow
<1>7. ASSUME NEW j \in P!JobIds, P!ToggleRow(j) PROVE PageTypes'
  <2>1. [P!Idle EXCEPT !.kind = "toggle", !.ph = "sent", !.id = j, !.formId = pjForm.id,
                       !.enabled = ~pjList[j]] \in PjRequests
    BY <1>i, EmptyRequests DEF PjRequests, PjForms
  <2> QED BY <1>7, <2>1, <1>s, <1>i DEF PageTypes, P!ToggleRow
<1>8. ASSUME NEW j \in P!JobIds, P!DeleteJob(j) PROVE PageTypes'
  <2>1. [P!Idle EXCEPT !.kind = "delete", !.ph = "sent", !.id = j, !.formId = pjForm.id] \in PjRequests
    BY <1>i, EmptyRequests DEF PjRequests, PjForms
  <2> QED BY <1>8, <2>1, <1>s, <1>i DEF PageTypes, P!DeleteJob
<1>9. CASE P!SwitchEnabled BY <1>9 DEF PageTypes, P!SwitchEnabled, P!Typed, PjForms
<1>10. CASE P!TypePayload BY <1>10 DEF PageTypes, P!TypePayload, P!Typed, PjForms
<1>11. ASSUME NEW i \in PjSlots, P!Perform(i) PROVE PageTypes'
  <2>1. PICK id \in P!JobIds : pjReq' = [pjReq EXCEPT ![i].ph = "acted", ![i].id = id]
    BY <1>11, PerformActs DEF Acts
  <2>2. pjReq' \in [PjSlots -> PjRequests] BY <2>1, ActedSlot
  <2> QED BY <1>11, <2>2, PerformActs DEF Acts, PageTypes, P!Perform
<1>12. ASSUME NEW i \in PjSlots, P!Performed(i) PROVE PageTypes'
  <2> DEFINE r == pjReq[i]
  <2>1. r \in PjRequests /\ r.kind \in {"save", "delete", "toggle"}
    BY <1>12 DEF P!Performed, RequestsKept
  <2>2. pjForm' \in PjForms
    <3>1. pjForm' = CASE r.kind = "save" -> P!FormAfterSave(i)
                      [] r.kind = "delete" -> P!FormAfterDelete(i)
                      [] r.kind = "toggle" -> P!FormAfterToggle(i)
      BY <1>12 DEF P!Performed
    <3>2. P!FormAfterSave(i) \in PjForms
      BY <2>1 DEF P!FormAfterSave, P!FormOfJob, PjForms, PjRequests
    <3>3. P!FormAfterDelete(i) \in PjForms BY EmptyRequests DEF P!FormAfterDelete
    <3>4. P!FormAfterToggle(i) \in PjForms BY <2>1 DEF P!FormAfterToggle, PjForms, PjRequests
    <3> QED BY <2>1, <3>1, <3>2, <3>3, <3>4
  <2>3. [P!Idle EXCEPT !.kind = r.kind, !.ph = "fetching"] \in PjRequests
    BY <2>1, EmptyRequests DEF PjRequests
  <2>4. pjReq' \in [PjSlots -> PjRequests] BY <1>12, <2>3 DEF P!Performed
  <2>5. pjHeld' \in BOOLEAN BY <1>12, <2>1 DEF P!Performed, P!Doomed
  <2>6. pjDraft' \in P!Drafts BY <1>12, <1>t DEF P!Performed, P!Drafts
  <2> QED BY <1>12, <2>2, <2>4, <2>5, <2>6 DEF PageTypes, P!Performed
<1>13. ASSUME NEW i \in PjSlots, P!ServeList(i) PROVE PageTypes'
  <2>1. pjReq' \in [PjSlots -> PjRequests] BY <1>13, ServedSlot DEF P!ServeList
  <2>2. pjOlder' \in [PjSlots -> SUBSET PjSlots] BY <1>13 DEF P!ServeList
  <2> QED BY <1>13, <2>1, <2>2 DEF PageTypes, P!ServeList
<1>14. ASSUME NEW i \in PjSlots, P!ListLands(i) PROVE PageTypes'
  <2>1. pjList' \in P!Tables BY <1>14 DEF P!ListLands, PjRequests
  <2>2. pjReq' \in [PjSlots -> PjRequests] BY <1>14, EmptyRequests DEF P!ListLands
  <2>3. pjTrusted' \in BOOLEAN /\ pjLoading' \in BOOLEAN BY <1>14 DEF P!ListLands
  <2> QED BY <1>14, <2>1, <2>2, <2>3, ClearedTyped, GoneTyped DEF PageTypes, P!ListLands
<1>15. ASSUME NEW i \in PjSlots, P!Fails(i) PROVE PageTypes'
  <2>2. pjReq' \in [PjSlots -> PjRequests] BY <1>15, EmptyRequests DEF P!Fails
  <2>3. pjTrusted' \in BOOLEAN /\ pjLoading' \in BOOLEAN /\ pjHeld' \in BOOLEAN
    BY <1>15 DEF P!Fails
  <2>4. pjDraft' \in P!Drafts BY <1>15, <1>t DEF P!Fails, P!Drafts
  <2> QED BY <1>15, <2>2, <2>3, <2>4, ClearedTyped, GoneTyped DEF PageTypes, P!Fails
<1>16. CASE UNCHANGED P!pjVars BY <1>16 DEF PageTypes, P!pjVars
<1> QED
  BY <1>1, <1>2, <1>3, <1>4, <1>5, <1>6, <1>7, <1>8, <1>9, <1>10, <1>11, <1>12, <1>13, <1>14, <1>15, <1>16
  DEF P!PjNext, P!Work
\* One slot changes at most.
Slot(i) == \A j \in PjSlots \ {i} : pjReq'[j] = pjReq[j]

LEMMA SendSlot ==
  ASSUME PageTypes, NEW r, P!Send(r)
  PROVE  \E i \in PjSlots : /\ pjReq[i] = P!Idle /\ pjReq'[i] = r /\ Slot(i)
                            /\ pjTrusted' = (pjTrusted \/ P!AllIdle)
<1>1. PICK i \in PjSlots : /\ pjReq[i] = P!Idle /\ pjReq' = [pjReq EXCEPT ![i] = r]
                           /\ pjTrusted' = (pjTrusted \/ P!AllIdle)
  BY SendTakes
<1>2. pjReq'[i] = r /\ Slot(i) BY <1>1 DEF PageTypes, Slot
<1> QED BY <1>1, <1>2

LEMMA FetchSlot ==
  ASSUME PageTypes, P!Fetch
  PROVE  \E i \in PjSlots : /\ pjReq[i] = P!Idle /\ Slot(i)
                            /\ pjReq'[i].kind = "fetch" /\ pjReq'[i].ph = "fetching"
                            /\ pjReq'[i].id = P!NewJob
                            /\ pjTrusted' = (pjTrusted \/ P!AllIdle)
<1> DEFINE r == [P!Idle EXCEPT !.kind = "fetch", !.ph = "fetching"]
<1>1. r.kind = "fetch" /\ r.ph = "fetching" /\ r.id = P!NewJob BY DEF P!Idle
<1>2. P!Send(r) BY DEF P!Fetch
<1> HIDE DEF r
<1> QED BY <1>1, <1>2, SendSlot

LEMMA RequestFields ==
  ASSUME NEW r \in PjRequests
  PROVE  /\ \A id : LET acted == [r EXCEPT !.ph = "acted", !.id = id]
                   IN  acted.ph = "acted" /\ acted.id = id /\ acted.kind = r.kind /\ acted.formId = r.formId
         /\ \A list : LET served == [r EXCEPT !.ph = "fetched", !.list = list]
                     IN  /\ served.ph = "fetched" /\ served.list = list /\ served.kind = r.kind
                         /\ served.id = r.id /\ served.formId = r.formId
  BY DEF PjRequests

\* What each answer, and each failure, makes of its slot.
LEMMA PerformSlot ==
  ASSUME PageTypes, NEW i \in PjSlots, P!Perform(i)
  PROVE  /\ Slot(i) /\ pjReq'[i].ph = "acted" /\ pjReq'[i].kind = pjReq[i].kind
         /\ pjReq'[i].formId = pjReq[i].formId /\ pjReq'[i].id \in P!JobIds
         /\ pjReq[i].kind = "delete" => pjReq'[i].id = pjReq[i].id
<1>1. PICK id \in P!JobIds : /\ pjReq' = [pjReq EXCEPT ![i].ph = "acted", ![i].id = id]
                             /\ pjReq[i].kind = "delete" => id = pjReq[i].id
  <2>1. CASE pjReq[i].kind = "delete" BY <2>1, PerformActs DEF Acts
  <2>2. CASE pjReq[i].kind # "delete" BY <2>2, PerformActs DEF Acts
  <2> QED BY <2>1, <2>2
<1>2. pjReq \in [PjSlots -> PjRequests] BY DEF PageTypes
<1>3. Slot(i) /\ pjReq'[i] = [pjReq[i] EXCEPT !.ph = "acted", !.id = id]
  BY <1>1, <1>2, ActedSlot DEF Slot
<1>4. pjReq[i] \in PjRequests BY <1>2
<1> DEFINE acted == [pjReq[i] EXCEPT !.ph = "acted", !.id = id]
<1>5. acted.ph = "acted" /\ acted.id = id /\ acted.kind = pjReq[i].kind /\ acted.formId = pjReq[i].formId
  BY <1>4, RequestFields
<1>6. pjReq'[i] = acted BY <1>3
<1> HIDE DEF acted
<1> QED BY <1>1, <1>3, <1>5, <1>6

LEMMA PerformedSlot ==
  ASSUME PageTypes, NEW i \in PjSlots, P!Performed(i)
  PROVE  /\ Slot(i) /\ pjReq'[i].ph = "fetching" /\ pjReq'[i].kind = pjReq[i].kind
         /\ pjReq'[i].id = P!NewJob /\ pjReq[i].ph = "acted"
<1> DEFINE r == [P!Idle EXCEPT !.kind = pjReq[i].kind, !.ph = "fetching"]
<1>1. pjReq' = [pjReq EXCEPT ![i] = r] /\ pjReq[i].ph = "acted"
  BY DEF P!Performed
<1>2. r.kind = pjReq[i].kind /\ r.ph = "fetching" /\ r.id = P!NewJob BY DEF P!Idle
<1> HIDE DEF r
<1>3. pjReq'[i] = r /\ Slot(i) BY <1>1 DEF Slot, PageTypes
<1> QED BY <1>1, <1>2, <1>3

LEMMA ServeSlot ==
  ASSUME PageTypes, NEW i \in PjSlots, P!ServeList(i)
  PROVE  /\ Slot(i) /\ pjReq'[i].ph = "fetched" /\ pjReq'[i].kind = pjReq[i].kind
         /\ pjReq'[i].id = pjReq[i].id /\ pjReq'[i].formId = pjReq[i].formId /\ pjReq'[i].list = pjJobs
         /\ pjReq[i].ph = "fetching"
<1>1. pjReq \in [PjSlots -> PjRequests] /\ pjJobs \in P!Tables BY DEF PageTypes
<1>2. Slot(i) /\ pjReq'[i] = [pjReq[i] EXCEPT !.ph = "fetched", !.list = pjJobs]
  BY <1>1, ServedSlot DEF P!ServeList, Slot
<1>3. pjReq[i] \in PjRequests BY <1>1
<1> DEFINE served == [pjReq[i] EXCEPT !.ph = "fetched", !.list = pjJobs]
<1>4. /\ served.ph = "fetched" /\ served.list = pjJobs /\ served.kind = pjReq[i].kind
      /\ served.id = pjReq[i].id /\ served.formId = pjReq[i].formId
  BY <1>3, RequestFields
<1>5. pjReq'[i] = served BY <1>2
<1>6. pjReq[i].ph = "fetching" BY DEF P!ServeList
<1> HIDE DEF served
<1> QED BY <1>2, <1>4, <1>5, <1>6

LEMMA EndSlot ==
  ASSUME PageTypes, NEW i \in PjSlots, P!ListLands(i) \/ P!Fails(i)
  PROVE  /\ Slot(i) /\ pjReq'[i] = P!Idle /\ P!Cleared(pjReq[i].kind)
<1>1. pjReq' = [pjReq EXCEPT ![i] = P!Idle] BY DEF P!ListLands, P!Fails
<1>2. P!Cleared(pjReq[i].kind) BY DEF P!ListLands, P!Fails
<1> QED BY <1>1, <1>2 DEF Slot, PageTypes

\* A change of one slot keeps what holds of the requests.
Fits(i) ==
  /\ pjReq'[i].ph \in {"sent", "acted"} => pjReq'[i].kind \in {"save", "delete", "toggle"}
  /\ pjReq'[i].ph = "acted" => pjReq'[i].id \in P!JobIds
  /\ pjReq'[i].kind = "save" => pjSaving' /\ (pjReq[i].kind = "save" \/ ~pjSaving)
  /\ pjSaving /\ ~pjSaving' => pjReq[i].kind = "save"

LEMMA SlotKeeps == ASSUME RequestsKept, NEW i \in PjSlots, Slot(i), Fits(i) PROVE RequestsKept'
<1>1. \A j \in PjSlots : j # i => pjReq'[j] = pjReq[j] BY DEF Slot
<1>2. \A j \in PjSlots :
        /\ pjReq'[j].ph \in {"sent", "acted"} => pjReq'[j].kind \in {"save", "delete", "toggle"}
        /\ pjReq'[j].ph = "acted" => pjReq'[j].id \in P!JobIds
        /\ pjReq'[j].kind = "save" => pjSaving'
  <2> SUFFICES ASSUME NEW j \in PjSlots
               PROVE  /\ pjReq'[j].ph \in {"sent", "acted"} => pjReq'[j].kind \in {"save", "delete", "toggle"}
                      /\ pjReq'[j].ph = "acted" => pjReq'[j].id \in P!JobIds
                      /\ pjReq'[j].kind = "save" => pjSaving'
    OBVIOUS
  <2>1. CASE j = i BY <2>1 DEF Fits
  <2>2. CASE j # i BY <2>2, <1>1 DEF Fits, RequestsKept
  <2> QED BY <2>1, <2>2
<1>3. ASSUME NEW j \in PjSlots, NEW k \in PjSlots, pjReq'[j].kind = "save", pjReq'[k].kind = "save"
      PROVE  j = k
  BY <1>1, <1>3 DEF Fits, RequestsKept
<1> QED BY <1>2, <1>3 DEF RequestsKept

LEMMA RequestsInit == P!PjInit => RequestsKept
  BY DEF P!PjInit, P!Idle, RequestsKept

LEMMA RequestsStep == PageTypes /\ RequestsKept /\ [P!PjNext]_P!pjVars => RequestsKept'
<1> SUFFICES ASSUME PageTypes, RequestsKept, [P!PjNext]_P!pjVars PROVE RequestsKept'
  OBVIOUS
<1> USE DEF P!flags, P!backend, P!history
<1>t. pjSaving \in BOOLEAN BY DEF PageTypes
<1>u. ASSUME UNCHANGED <<pjReq, pjSaving>> PROVE RequestsKept'
  BY <1>u DEF RequestsKept
<1>s. ASSUME NEW i \in PjSlots, Slot(i), pjReq[i] = P!Idle, pjReq'[i].ph \in {"sent", "fetching"},
             pjReq'[i].ph = "sent" => pjReq'[i].kind \in {"save", "delete", "toggle"},
             pjReq'[i].kind = "save" => ~pjSaving, pjSaving' = (pjSaving \/ pjReq'[i].kind = "save")
      PROVE  RequestsKept'
  <2>1. Fits(i) BY <1>s, <1>t DEF Fits
  <2> QED BY <1>s, <2>1, SlotKeeps
<1>f. ASSUME P!Fetch, UNCHANGED pjSaving PROVE RequestsKept'
  <2>1. PICK i \in PjSlots : /\ pjReq[i] = P!Idle /\ Slot(i)
                            /\ pjReq'[i].kind = "fetch" /\ pjReq'[i].ph = "fetching"
    BY <1>f, FetchSlot
  <2> QED BY <1>f, <1>s, <2>1, <1>t
<1>1. CASE P!OpenPeriodic BY <1>1, <1>f DEF P!OpenPeriodic
<1>2. CASE P!ClosePeriodic BY <1>2, <1>u DEF P!ClosePeriodic
<1>3. CASE P!RefreshJobs BY <1>3, <1>f DEF P!RefreshJobs
<1>4. CASE P!NewPeriodicForm BY <1>4, <1>u DEF P!NewPeriodicForm
<1>5. CASE P!SubmitPeriodic
  <2> DEFINE r == [P!Idle EXCEPT !.kind = "save", !.ph = "sent", !.id = pjForm.id, !.formId = pjForm.id,
                                 !.enabled = pjForm.enabled]
  <2>1. r.kind = "save" /\ r.ph = "sent" BY DEF P!Idle
  <2>2. P!Send(r) /\ ~pjSaving /\ pjSaving' = TRUE BY <1>5 DEF P!SubmitPeriodic
  <2> HIDE DEF r
  <2>3. PICK i \in PjSlots : pjReq[i] = P!Idle /\ pjReq'[i] = r /\ Slot(i) BY <2>2, SendSlot
  <2> QED BY <1>s, <2>1, <2>2, <2>3
<1>6. ASSUME NEW j \in P!JobIds, P!EditRow(j) PROVE RequestsKept'
  BY <1>6, <1>u DEF P!EditRow
<1>7. ASSUME NEW j \in P!JobIds, P!ToggleRow(j) PROVE RequestsKept'
  <2> DEFINE r == [P!Idle EXCEPT !.kind = "toggle", !.ph = "sent", !.id = j, !.formId = pjForm.id,
                                 !.enabled = ~pjList[j]]
  <2>1. r.kind = "toggle" /\ r.ph = "sent" BY DEF P!Idle
  <2>2. P!Send(r) /\ pjSaving' = pjSaving BY <1>7 DEF P!ToggleRow
  <2> HIDE DEF r
  <2>3. PICK i \in PjSlots : pjReq[i] = P!Idle /\ pjReq'[i] = r /\ Slot(i) BY <2>2, SendSlot
  <2> QED BY <1>s, <1>t, <2>1, <2>2, <2>3
<1>8. ASSUME NEW j \in P!JobIds, P!DeleteJob(j) PROVE RequestsKept'
  <2> DEFINE r == [P!Idle EXCEPT !.kind = "delete", !.ph = "sent", !.id = j, !.formId = pjForm.id]
  <2>1. r.kind = "delete" /\ r.ph = "sent" BY DEF P!Idle
  <2>2. P!Send(r) /\ pjSaving' = pjSaving BY <1>8 DEF P!DeleteJob
  <2> HIDE DEF r
  <2>3. PICK i \in PjSlots : pjReq[i] = P!Idle /\ pjReq'[i] = r /\ Slot(i) BY <2>2, SendSlot
  <2> QED BY <1>s, <1>t, <2>1, <2>2, <2>3
<1>9. CASE P!SwitchEnabled BY <1>9, <1>u DEF P!SwitchEnabled, P!Typed
<1>10. CASE P!TypePayload BY <1>10, <1>u DEF P!TypePayload, P!Typed
<1>11. ASSUME NEW i \in PjSlots, P!Perform(i) PROVE RequestsKept'
  <2>1. pjSaving' = pjSaving /\ pjReq[i].kind \in {"save", "delete", "toggle"}
    BY <1>11 DEF P!Perform
  <2>2. Fits(i) BY <1>11, <2>1, PerformSlot DEF Fits, RequestsKept
  <2> QED BY <1>11, <2>2, PerformSlot, SlotKeeps
<1>12. ASSUME NEW i \in PjSlots, P!Performed(i) PROVE RequestsKept'
  <2>1. pjSaving' = pjSaving BY <1>12 DEF P!Performed
  <2>2. Fits(i) BY <1>12, <2>1, PerformedSlot DEF Fits, RequestsKept
  <2> QED BY <1>12, <2>2, PerformedSlot, SlotKeeps
<1>13. ASSUME NEW i \in PjSlots, P!ServeList(i) PROVE RequestsKept'
  <2>1. pjSaving' = pjSaving BY <1>13 DEF P!ServeList
  <2>2. Fits(i) BY <1>13, <2>1, ServeSlot DEF Fits, RequestsKept
  <2> QED BY <1>13, <2>2, ServeSlot, SlotKeeps
<1>14. ASSUME NEW i \in PjSlots, P!ListLands(i) \/ P!Fails(i) PROVE RequestsKept'
  <2>1. pjReq'[i] = P!Idle /\ Slot(i) /\ pjSaving' = (pjSaving /\ pjReq[i].kind # "save")
    BY <1>14, EndSlot DEF P!Cleared
  <2>2. Fits(i) BY <2>1, <1>t DEF Fits, P!Idle
  <2> QED BY <2>1, <2>2, SlotKeeps
<1>15. CASE UNCHANGED P!pjVars BY <1>15, <1>u DEF P!pjVars
<1> QED
  BY <1>1, <1>2, <1>3, <1>4, <1>5, <1>6, <1>7, <1>8, <1>9, <1>10, <1>11, <1>12, <1>13, <1>14, <1>15
  DEF P!PjNext, P!Work

\* While the page is to be trusted its list is the server's, or one that will land
\* last is, or one is still to be fetched.
Coming == \E i \in PjSlots : pjReq[i].ph \in {"sent", "acted", "fetching"}
Newest(n) ==
  /\ pjReq[n].ph = "fetched" /\ pjReq[n].list = pjJobs
  /\ \A j \in PjSlots : pjReq[j].ph = "fetched" /\ j # n => j \in pjOlder[n]
ListComes ==
  pjTrusted => \/ Coming
               \/ \E n \in PjSlots : Newest(n)
               \/ (\A i \in PjSlots : pjReq[i].ph # "fetched") /\ pjList = pjJobs

LEMMA ListInit == P!PjInit => ListComes
  BY DEF P!PjInit, P!Idle, ListComes

LEMMA ListStep == PageTypes /\ ListComes /\ [P!PjNext]_P!pjVars => ListComes'
<1> SUFFICES ASSUME PageTypes, ListComes, [P!PjNext]_P!pjVars PROVE ListComes'
  OBVIOUS
<1> USE DEF P!flags, P!backend, P!history
<1>u. ASSUME UNCHANGED <<pjReq, pjList, pjJobs, pjTrusted, pjOlder>> PROVE ListComes'
  BY <1>u DEF ListComes, Coming, Newest
<1>s. ASSUME NEW i \in PjSlots, pjReq'[i].ph \in {"sent", "acted", "fetching"} PROVE ListComes'
  BY <1>s DEF ListComes, Coming
<1>f. ASSUME P!Fetch PROVE ListComes'
  BY <1>f, <1>s, FetchSlot
<1>1. CASE P!OpenPeriodic BY <1>1, <1>f DEF P!OpenPeriodic
<1>2. CASE P!ClosePeriodic BY <1>2, <1>u DEF P!ClosePeriodic
<1>3. CASE P!RefreshJobs BY <1>3, <1>f DEF P!RefreshJobs
<1>4. CASE P!NewPeriodicForm BY <1>4, <1>u DEF P!NewPeriodicForm
<1>5. CASE P!SubmitPeriodic
  <2> DEFINE r == [P!Idle EXCEPT !.kind = "save", !.ph = "sent", !.id = pjForm.id, !.formId = pjForm.id,
                                 !.enabled = pjForm.enabled]
  <2>1. r.ph = "sent" BY DEF P!Idle
  <2>2. P!Send(r) BY <1>5 DEF P!SubmitPeriodic
  <2> HIDE DEF r
  <2> QED BY <1>s, <2>1, <2>2, SendSlot
<1>6. ASSUME NEW j \in P!JobIds, P!EditRow(j) PROVE ListComes'
  BY <1>6, <1>u DEF P!EditRow
<1>7. ASSUME NEW j \in P!JobIds, P!ToggleRow(j) PROVE ListComes'
  <2> DEFINE r == [P!Idle EXCEPT !.kind = "toggle", !.ph = "sent", !.id = j, !.formId = pjForm.id,
                                 !.enabled = ~pjList[j]]
  <2>1. r.ph = "sent" BY DEF P!Idle
  <2>2. P!Send(r) BY <1>7 DEF P!ToggleRow
  <2> HIDE DEF r
  <2> QED BY <1>s, <2>1, <2>2, SendSlot
<1>8. ASSUME NEW j \in P!JobIds, P!DeleteJob(j) PROVE ListComes'
  <2> DEFINE r == [P!Idle EXCEPT !.kind = "delete", !.ph = "sent", !.id = j, !.formId = pjForm.id]
  <2>1. r.ph = "sent" BY DEF P!Idle
  <2>2. P!Send(r) BY <1>8 DEF P!DeleteJob
  <2> HIDE DEF r
  <2> QED BY <1>s, <2>1, <2>2, SendSlot
<1>9. CASE P!SwitchEnabled BY <1>9, <1>u DEF P!SwitchEnabled, P!Typed
<1>10. CASE P!TypePayload BY <1>10, <1>u DEF P!TypePayload, P!Typed
<1>11. ASSUME NEW i \in PjSlots, P!Perform(i) PROVE ListComes'
  BY <1>11, <1>s, PerformSlot
<1>12. ASSUME NEW i \in PjSlots, P!Performed(i) PROVE ListComes'
  BY <1>12, <1>s, PerformedSlot
<1>13. ASSUME NEW i \in PjSlots, P!ServeList(i) PROVE ListComes'
  <2>1. pjReq'[i].ph = "fetched" /\ pjReq'[i].list = pjJobs' BY <1>13, ServeSlot DEF P!ServeList
  <2>2. pjOlder'[i] = {j \in PjSlots : pjReq[j].ph = "fetched"} BY <1>13 DEF P!ServeList, PageTypes
  <2>3. Newest(i)' BY <1>13, <2>1, <2>2, ServeSlot DEF Newest, Slot
  <2> QED BY <2>3 DEF ListComes
<1>14. ASSUME NEW i \in PjSlots, P!ListLands(i) PROVE ListComes'
  <2>1. /\ Slot(i) /\ pjReq'[i].ph = "none" /\ pjReq[i].ph = "fetched"
        /\ pjList' = pjReq[i].list /\ pjJobs' = pjJobs
        /\ \A j \in PjSlots : pjOlder'[j] = IF j = i THEN {} ELSE pjOlder[j] \ {i}
    <3>1. Slot(i) /\ pjReq'[i] = P!Idle BY <1>14, EndSlot
    <3>2. pjReq[i].ph = "fetched" /\ pjList' = pjReq[i].list /\ pjJobs' = pjJobs /\ P!Gone(i)
      BY <1>14 DEF P!ListLands
    <3>3. \A j \in PjSlots : pjOlder'[j] = IF j = i THEN {} ELSE pjOlder[j] \ {i}
      BY <3>2 DEF P!Gone
    <3> QED BY <3>1, <3>2, <3>3 DEF P!Idle
  <2> SUFFICES ASSUME pjTrusted' PROVE ListComes'
    BY DEF ListComes
  <2>2. pjTrusted /\ pjOlder[i] = {} BY <1>14 DEF P!ListLands
  <2>3. CASE Coming
    <3>1. PICK j \in PjSlots : pjReq[j].ph \in {"sent", "acted", "fetching"} BY <2>3 DEF Coming
    <3>2. pjReq'[j] = pjReq[j] BY <2>1, <3>1 DEF Slot
    <3> QED BY <1>s, <3>1, <3>2
  <2>4. ASSUME NEW n \in PjSlots, Newest(n) PROVE ListComes'
    <3>1. CASE n = i
      <4>1. \A j \in PjSlots : pjReq'[j].ph # "fetched" BY <2>1, <2>2, <2>4, <3>1 DEF Newest, Slot
      <4> QED BY <2>1, <2>4, <3>1, <4>1 DEF Newest, ListComes
    <3>2. CASE n # i
      <4>1. Newest(n)' BY <2>1, <2>4, <3>2 DEF Newest, Slot
      <4> QED BY <4>1 DEF ListComes
    <3> QED BY <3>1, <3>2
  <2> QED BY <2>1, <2>2, <2>3, <2>4 DEF ListComes
<1>15. ASSUME NEW i \in PjSlots, P!Fails(i) PROVE ListComes'
  BY <1>15 DEF P!Fails, ListComes
<1>16. CASE UNCHANGED P!pjVars BY <1>16, <1>u DEF P!pjVars
<1> QED
  BY <1>1, <1>2, <1>3, <1>4, <1>5, <1>6, <1>7, <1>8, <1>9, <1>10, <1>11, <1>12, <1>13, <1>14, <1>15, <1>16
  DEF P!PjNext, P!Work
\* The form of a job that was not doomed when it was shown: whoever deletes the job
\* sent that deletion from this form.
FormLive ==
  pjForm.id # P!NewJob /\ ~pjHeld =>
    /\ \A i \in PjSlots : pjReq[i].kind = "delete" /\ pjReq[i].id = pjForm.id => pjReq[i].formId = pjForm.id
    /\ pjForm.id \notin DOMAIN pjJobs =>
         \E i \in PjSlots : /\ pjReq[i].kind = "delete" /\ pjReq[i].ph = "acted"
                            /\ pjReq[i].id = pjForm.id /\ pjReq[i].formId = pjForm.id

LEMMA FormInit == P!PjInit => FormLive
  BY DEF P!PjInit, P!InitialPeriodicForm, FormLive

\* A change of one slot, not by a deletion of the job shown from another form, keeps it.
LEMMA SlotKeepsForm ==
  ASSUME FormLive, NEW i \in PjSlots, Slot(i), pjForm'.id = pjForm.id, pjHeld' = pjHeld,
         DOMAIN pjJobs \subseteq DOMAIN pjJobs',
         pjReq'[i].kind = "delete" /\ pjReq'[i].id = pjForm.id => pjReq'[i].formId = pjForm.id,
         pjReq[i].kind = "delete" /\ pjReq[i].ph = "acted" /\ pjReq[i].id = pjForm.id => pjForm.id = P!NewJob \/ pjHeld
  PROVE  FormLive'
<1> SUFFICES ASSUME pjForm'.id # P!NewJob, ~pjHeld' PROVE
    /\ \A j \in PjSlots : pjReq'[j].kind = "delete" /\ pjReq'[j].id = pjForm'.id => pjReq'[j].formId = pjForm'.id
    /\ pjForm'.id \notin DOMAIN pjJobs' =>
         \E j \in PjSlots : /\ pjReq'[j].kind = "delete" /\ pjReq'[j].ph = "acted"
                            /\ pjReq'[j].id = pjForm'.id /\ pjReq'[j].formId = pjForm'.id
  BY DEF FormLive
<1>1. \A j \in PjSlots : j # i => pjReq'[j] = pjReq[j] BY DEF Slot
<1>2. ASSUME NEW j \in PjSlots, pjReq'[j].kind = "delete", pjReq'[j].id = pjForm'.id
      PROVE  pjReq'[j].formId = pjForm'.id
  BY <1>1, <1>2 DEF FormLive
<1>3. ASSUME pjForm'.id \notin DOMAIN pjJobs'
      PROVE  \E j \in PjSlots : /\ pjReq'[j].kind = "delete" /\ pjReq'[j].ph = "acted"
                                /\ pjReq'[j].id = pjForm'.id /\ pjReq'[j].formId = pjForm'.id
  <2>1. PICK j \in PjSlots : /\ pjReq[j].kind = "delete" /\ pjReq[j].ph = "acted"
                             /\ pjReq[j].id = pjForm.id /\ pjReq[j].formId = pjForm.id
    BY <1>3 DEF FormLive
  <2>2. j # i BY <2>1
  <2> QED BY <1>1, <2>1, <2>2
<1> QED BY <1>2, <1>3

\* A new job that was sent, and neither refused nor lost, is in flight while its form is there.
DraftKept ==
  pjDraft = "sent" =>
    /\ pjForm.id = P!NewJob
    /\ \E i \in PjSlots : pjReq[i].kind = "save" /\ pjReq[i].ph \in {"sent", "acted"}

LEMMA DraftInit == P!PjInit => DraftKept
  BY DEF P!PjInit, DraftKept

LEMMA SlotKeepsDraft ==
  ASSUME DraftKept, NEW i \in PjSlots, Slot(i), pjDraft' = "sent" => pjDraft = "sent" /\ pjForm'.id = P!NewJob,
         pjReq[i].kind = "save" /\ pjReq[i].ph \in {"sent", "acted"} =>
           \/ pjDraft' # "sent"
           \/ pjReq'[i].kind = "save" /\ pjReq'[i].ph \in {"sent", "acted"}
  PROVE  DraftKept'
<1> SUFFICES ASSUME pjDraft' = "sent"
             PROVE  \E j \in PjSlots : pjReq'[j].kind = "save" /\ pjReq'[j].ph \in {"sent", "acted"}
  BY DEF DraftKept
<1>1. PICK j \in PjSlots : pjReq[j].kind = "save" /\ pjReq[j].ph \in {"sent", "acted"}
  BY DEF DraftKept
<1>2. j # i => pjReq'[j] = pjReq[j] BY DEF Slot
<1> QED BY <1>1, <1>2

LEMMA FormStep == PageTypes /\ RequestsKept /\ FormLive /\ [P!PjNext]_P!pjVars => FormLive'
<1> SUFFICES ASSUME PageTypes, RequestsKept, FormLive, [P!PjNext]_P!pjVars PROVE FormLive'
  OBVIOUS
<1> USE DEF P!flags, P!backend, P!history
<1>t. pjForm \in PjForms /\ pjHeld \in BOOLEAN BY DEF PageTypes
<1>u. ASSUME UNCHANGED <<pjReq, pjHeld, pjJobs>>, pjForm'.id = pjForm.id PROVE FormLive'
  BY <1>u DEF FormLive
<1>n. ASSUME pjForm' = P!InitialPeriodicForm PROVE FormLive'
  BY <1>n DEF FormLive, P!InitialPeriodicForm
<1>s. ASSUME NEW i \in PjSlots, Slot(i), pjReq[i] = P!Idle, UNCHANGED <<pjForm, pjHeld, pjJobs>>,
             pjReq'[i].kind = "delete" => pjReq'[i].formId = pjForm.id
      PROVE  FormLive'
  <2>1. pjReq[i].kind = "none" BY <1>s DEF P!Idle
  <2> QED BY <1>s, <2>1, SlotKeepsForm
<1>f. ASSUME P!Fetch, UNCHANGED <<pjForm, pjHeld, pjJobs>> PROVE FormLive'
  <2>1. PICK i \in PjSlots : pjReq[i] = P!Idle /\ Slot(i) /\ pjReq'[i].kind = "fetch"
    BY <1>f, FetchSlot
  <2> QED BY <1>f, <1>s, <2>1
<1>1. CASE P!OpenPeriodic BY <1>1, <1>f DEF P!OpenPeriodic
<1>2. CASE P!ClosePeriodic BY <1>2, <1>n DEF P!ClosePeriodic
<1>3. CASE P!RefreshJobs BY <1>3, <1>f DEF P!RefreshJobs
<1>4. CASE P!NewPeriodicForm BY <1>4, <1>n DEF P!NewPeriodicForm
<1>5. CASE P!SubmitPeriodic
  <2> DEFINE r == [P!Idle EXCEPT !.kind = "save", !.ph = "sent", !.id = pjForm.id, !.formId = pjForm.id,
                                 !.enabled = pjForm.enabled]
  <2>1. r.kind = "save" BY DEF P!Idle
  <2>2. P!Send(r) /\ UNCHANGED <<pjForm, pjHeld, pjJobs>> BY <1>5 DEF P!SubmitPeriodic
  <2> HIDE DEF r
  <2>3. PICK i \in PjSlots : pjReq[i] = P!Idle /\ pjReq'[i] = r /\ Slot(i) BY <2>2, SendSlot
  <2> QED BY <1>s, <2>1, <2>2, <2>3
<1>6. ASSUME NEW j \in P!JobIds, P!EditRow(j) PROVE FormLive'
  <2>1. pjForm'.id = j BY <1>6 DEF P!EditRow, P!FormOfJob
  <2>2. UNCHANGED <<pjReq, pjJobs>> /\ pjHeld' = P!Doomed(j) BY <1>6 DEF P!EditRow
  <2> QED BY <2>1, <2>2 DEF FormLive, P!Doomed
<1>7. ASSUME NEW j \in P!JobIds, P!ToggleRow(j) PROVE FormLive'
  <2> DEFINE r == [P!Idle EXCEPT !.kind = "toggle", !.ph = "sent", !.id = j, !.formId = pjForm.id,
                                 !.enabled = ~pjList[j]]
  <2>1. r.kind = "toggle" BY DEF P!Idle
  <2>2. P!Send(r) /\ UNCHANGED <<pjForm, pjHeld, pjJobs>> BY <1>7 DEF P!ToggleRow
  <2> HIDE DEF r
  <2>3. PICK i \in PjSlots : pjReq[i] = P!Idle /\ pjReq'[i] = r /\ Slot(i) BY <2>2, SendSlot
  <2> QED BY <1>s, <2>1, <2>2, <2>3
<1>8. ASSUME NEW j \in P!JobIds, P!DeleteJob(j) PROVE FormLive'
  <2> DEFINE r == [P!Idle EXCEPT !.kind = "delete", !.ph = "sent", !.id = j, !.formId = pjForm.id]
  <2>1. r.formId = pjForm.id BY DEF P!Idle
  <2>2. P!Send(r) /\ UNCHANGED <<pjForm, pjHeld, pjJobs>> BY <1>8 DEF P!DeleteJob
  <2> HIDE DEF r
  <2>3. PICK i \in PjSlots : pjReq[i] = P!Idle /\ pjReq'[i] = r /\ Slot(i) BY <2>2, SendSlot
  <2> QED BY <1>s, <2>1, <2>2, <2>3
<1>9. CASE P!SwitchEnabled
  <2>1. pjForm'.id = pjForm.id BY <1>9, <1>t DEF P!SwitchEnabled, P!Typed, PjForms
  <2> QED BY <1>9, <2>1, <1>u DEF P!SwitchEnabled, P!Typed
<1>10. CASE P!TypePayload
  <2>1. pjForm'.id = pjForm.id BY <1>10, <1>t DEF P!TypePayload, P!Typed, PjForms
  <2> QED BY <1>10, <2>1, <1>u DEF P!TypePayload, P!Typed
<1>11. ASSUME NEW i \in PjSlots, P!Perform(i) PROVE FormLive'
  <2>1. UNCHANGED <<pjForm, pjHeld>> /\ pjReq[i].ph = "sent" BY <1>11 DEF P!Perform
  <2>2. Acts(i) BY <1>11, PerformActs
  <2>3. /\ Slot(i) /\ pjReq'[i].ph = "acted" /\ pjReq'[i].kind = pjReq[i].kind
        /\ pjReq'[i].formId = pjReq[i].formId
        /\ pjReq[i].kind = "delete" => pjReq'[i].id = pjReq[i].id
    BY <1>11, PerformSlot
  <2>4. CASE pjReq[i].kind # "delete"
    <3>1. DOMAIN pjJobs \subseteq DOMAIN pjJobs' BY <2>2, <2>4 DEF Acts
    <3> QED BY <2>1, <2>3, <2>4, <3>1, SlotKeepsForm
  <2>5. CASE pjReq[i].kind = "delete" /\ pjReq[i].id # pjForm.id
    <3>1. DOMAIN pjJobs' = DOMAIN pjJobs \ {pjReq[i].id} BY <2>2, <2>5 DEF Acts
    <3>2. \A j \in PjSlots : j # i => pjReq'[j] = pjReq[j] BY <2>3 DEF Slot
    <3>3. pjReq'[i].id # pjForm.id BY <2>3, <2>5
    <3> SUFFICES ASSUME pjForm.id # P!NewJob, ~pjHeld PROVE FormLive'
      BY <2>1 DEF FormLive
    <3>4. \A j \in PjSlots : pjReq'[j].kind = "delete" /\ pjReq'[j].id = pjForm.id => pjReq'[j].formId = pjForm.id
      BY <3>2, <3>3 DEF FormLive
    <3>5. ASSUME pjForm.id \notin DOMAIN pjJobs'
          PROVE  \E j \in PjSlots : /\ pjReq'[j].kind = "delete" /\ pjReq'[j].ph = "acted"
                                    /\ pjReq'[j].id = pjForm.id /\ pjReq'[j].formId = pjForm.id
      <4>1. PICK j \in PjSlots : /\ pjReq[j].kind = "delete" /\ pjReq[j].ph = "acted"
                                 /\ pjReq[j].id = pjForm.id /\ pjReq[j].formId = pjForm.id
        BY <2>5, <3>1, <3>5 DEF FormLive
      <4>2. pjReq'[j] = pjReq[j] BY <2>5, <3>2, <4>1
      <4> QED BY <4>1, <4>2
    <3> QED BY <2>1, <3>4, <3>5 DEF FormLive
  <2>6. CASE pjReq[i].kind = "delete" /\ pjReq[i].id = pjForm.id
    <3>2. \A j \in PjSlots : j # i => pjReq'[j] = pjReq[j] BY <2>3 DEF Slot
    <3> SUFFICES ASSUME pjForm.id # P!NewJob, ~pjHeld PROVE FormLive'
      BY <2>1 DEF FormLive
    <3>3. /\ pjReq'[i].kind = "delete" /\ pjReq'[i].ph = "acted"
          /\ pjReq'[i].id = pjForm.id /\ pjReq'[i].formId = pjForm.id
      BY <2>3, <2>6 DEF FormLive
    <3>4. \A j \in PjSlots : pjReq'[j].kind = "delete" /\ pjReq'[j].id = pjForm.id => pjReq'[j].formId = pjForm.id
      BY <3>2, <3>3 DEF FormLive
    <3> QED BY <2>1, <3>3, <3>4 DEF FormLive
  <2> QED BY <2>4, <2>5, <2>6
<1>12. ASSUME NEW i \in PjSlots, P!Performed(i) PROVE FormLive'
  <2>1. /\ Slot(i) /\ pjReq'[i].ph = "fetching" /\ pjReq'[i].kind = pjReq[i].kind
        /\ pjReq'[i].id = P!NewJob /\ pjReq[i].ph = "acted" /\ pjJobs' = pjJobs
    BY <1>12, PerformedSlot DEF P!Performed
  <2>2. pjReq[i].kind \in {"save", "delete", "toggle"} BY <2>1 DEF RequestsKept
  <2>3. \A j \in PjSlots : j # i => pjReq'[j] = pjReq[j] BY <2>1 DEF Slot
  <2>4. CASE pjReq[i].kind = "save"
    <3>1. pjForm'.id = pjReq[i].id /\ pjHeld' = P!Doomed(pjReq[i].id)
      BY <1>12, <2>4 DEF P!Performed, P!FormAfterSave, P!FormOfJob
    <3> SUFFICES ASSUME ~P!Doomed(pjReq[i].id) PROVE FormLive'
      BY <3>1 DEF FormLive
    <3> QED BY <2>1, <2>3, <2>4, <3>1 DEF FormLive, P!Doomed
  <2>5. CASE pjReq[i].kind = "toggle"
    <3>1. pjForm'.id = pjForm.id /\ pjHeld' = pjHeld
      BY <1>12, <1>t, <2>5 DEF P!Performed, P!FormAfterToggle, PjForms
    <3> QED BY <2>1, <2>5, <3>1, SlotKeepsForm
  <2>6. CASE pjReq[i].kind = "delete" /\ pjReq[i].formId = pjReq[i].id
    BY <1>12, <2>6, <1>n DEF P!Performed, P!FormAfterDelete
  <2>7. CASE pjReq[i].kind = "delete" /\ pjReq[i].formId # pjReq[i].id
    <3>1. pjForm' = pjForm /\ pjHeld' = pjHeld
      BY <1>12, <1>t, <2>7 DEF P!Performed, P!FormAfterDelete
    <3>2. pjReq[i].id = pjForm.id => pjForm.id = P!NewJob \/ pjHeld BY <2>7 DEF FormLive
    <3>3. pjReq'[i].id = pjForm.id => pjForm.id = P!NewJob BY <2>1
    <3>4. CASE pjForm.id = P!NewJob BY <3>1, <3>4 DEF FormLive
    <3>5. CASE pjForm.id # P!NewJob BY <2>1, <3>1, <3>2, <3>3, <3>5, SlotKeepsForm
    <3> QED BY <3>4, <3>5
  <2> QED BY <2>2, <2>4, <2>5, <2>6, <2>7
<1>13. ASSUME NEW i \in PjSlots, P!ServeList(i) PROVE FormLive'
  <2>1. UNCHANGED <<pjForm, pjHeld, pjJobs>> BY <1>13 DEF P!ServeList
  <2>2. /\ Slot(i) /\ pjReq'[i].kind = pjReq[i].kind /\ pjReq'[i].id = pjReq[i].id
        /\ pjReq'[i].formId = pjReq[i].formId /\ pjReq[i].ph = "fetching"
    BY <1>13, ServeSlot
  <2>3. CASE pjForm.id = P!NewJob \/ pjHeld BY <2>1, <2>3 DEF FormLive
  <2>4. CASE pjForm.id # P!NewJob /\ ~pjHeld
    <3>1. pjReq'[i].kind = "delete" /\ pjReq'[i].id = pjForm.id => pjReq'[i].formId = pjForm.id
      BY <2>2, <2>4 DEF FormLive
    <3> QED BY <2>1, <2>2, <3>1, SlotKeepsForm
  <2> QED BY <2>3, <2>4
<1>14. ASSUME NEW i \in PjSlots, P!ListLands(i) PROVE FormLive'
  <2>1. Slot(i) /\ pjReq'[i].kind = "none" BY <1>14, EndSlot DEF P!Idle
  <2>2. UNCHANGED <<pjForm, pjHeld, pjJobs>> /\ pjReq[i].ph = "fetched" BY <1>14 DEF P!ListLands
  <2> QED BY <2>1, <2>2, SlotKeepsForm
<1>15. ASSUME NEW i \in PjSlots, P!Fails(i) PROVE FormLive'
  <2>1. Slot(i) /\ pjReq'[i].kind = "none" BY <1>15, EndSlot DEF P!Idle
  <2>2. /\ UNCHANGED <<pjForm, pjJobs>>
        /\ pjHeld' = (pjHeld \/ (pjReq[i].kind = "delete" /\ pjReq[i].id \notin DOMAIN pjJobs))
    BY <1>15 DEF P!Fails
  <2>3. CASE pjHeld' BY <2>3 DEF FormLive
  <2>4. CASE ~pjHeld'
    <3>1. pjHeld' = pjHeld BY <1>t, <2>2, <2>4
    <3> SUFFICES ASSUME pjForm.id # P!NewJob, ~pjHeld PROVE FormLive'
      BY <2>2, <3>1 DEF FormLive
    <3>2. pjReq[i].kind = "delete" => pjReq[i].id \in DOMAIN pjJobs BY <2>2, <2>4
    <3>3. \A j \in PjSlots : j # i => pjReq'[j] = pjReq[j] BY <2>1 DEF Slot
    <3>4. \A j \in PjSlots : pjReq'[j].kind = "delete" /\ pjReq'[j].id = pjForm.id => pjReq'[j].formId = pjForm.id
      BY <2>1, <3>3 DEF FormLive
    <3>5. ASSUME pjForm.id \notin DOMAIN pjJobs
          PROVE  \E j \in PjSlots : /\ pjReq'[j].kind = "delete" /\ pjReq'[j].ph = "acted"
                                    /\ pjReq'[j].id = pjForm.id /\ pjReq'[j].formId = pjForm.id
      BY <3>2, <3>3, <3>5 DEF FormLive
    <3> QED BY <2>2, <3>4, <3>5 DEF FormLive
  <2> QED BY <2>3, <2>4
<1>16. CASE UNCHANGED P!pjVars BY <1>16, <1>u DEF P!pjVars
<1> QED
  BY <1>1, <1>2, <1>3, <1>4, <1>5, <1>6, <1>7, <1>8, <1>9, <1>10, <1>11, <1>12, <1>13, <1>14, <1>15, <1>16
  DEF P!PjNext, P!Work
LEMMA DraftStep == PageTypes /\ RequestsKept /\ DraftKept /\ [P!PjNext]_P!pjVars => DraftKept'
<1> SUFFICES ASSUME PageTypes, RequestsKept, DraftKept, [P!PjNext]_P!pjVars PROVE DraftKept'
  OBVIOUS
<1> USE DEF P!flags, P!backend, P!history
<1>t. pjForm \in PjForms BY DEF PageTypes
<1>u. ASSUME UNCHANGED <<pjReq, pjDraft>>, pjForm'.id = pjForm.id PROVE DraftKept'
  BY <1>u DEF DraftKept
<1>n. ASSUME pjDraft' = "unsent" PROVE DraftKept'
  BY <1>n DEF DraftKept
<1>s. ASSUME NEW i \in PjSlots, Slot(i), pjReq[i] = P!Idle, UNCHANGED <<pjForm, pjDraft>>
      PROVE  DraftKept'
  <2>1. pjReq[i].kind = "none" BY <1>s DEF P!Idle
  <2>2. pjDraft' = "sent" => pjDraft = "sent" /\ pjForm'.id = P!NewJob BY <1>s DEF DraftKept
  <2> QED BY <1>s, <2>1, <2>2, SlotKeepsDraft
<1>f. ASSUME P!Fetch, UNCHANGED <<pjForm, pjDraft>> PROVE DraftKept'
  <2>1. PICK i \in PjSlots : pjReq[i] = P!Idle /\ Slot(i) BY <1>f, FetchSlot
  <2> QED BY <1>f, <1>s, <2>1
<1>1. CASE P!OpenPeriodic BY <1>1, <1>f DEF P!OpenPeriodic
<1>2. CASE P!ClosePeriodic BY <1>2, <1>n DEF P!ClosePeriodic
<1>3. CASE P!RefreshJobs BY <1>3, <1>f DEF P!RefreshJobs
<1>4. CASE P!NewPeriodicForm BY <1>4, <1>n DEF P!NewPeriodicForm
<1>5. CASE P!SubmitPeriodic
  <2> DEFINE r == [P!Idle EXCEPT !.kind = "save", !.ph = "sent", !.id = pjForm.id, !.formId = pjForm.id,
                                 !.enabled = pjForm.enabled]
  <2>1. r.kind = "save" /\ r.ph = "sent" BY DEF P!Idle
  <2>2. P!Send(r) /\ pjForm' = pjForm /\ pjDraft' = P!DraftOfSubmit
    BY <1>5 DEF P!SubmitPeriodic
  <2> HIDE DEF r
  <2>3. PICK i \in PjSlots : pjReq'[i] = r BY <2>2, SendSlot
  <2> QED BY <2>1, <2>2, <2>3 DEF DraftKept, P!DraftOfSubmit
<1>6. ASSUME NEW j \in P!JobIds, P!EditRow(j) PROVE DraftKept'
  BY <1>6, <1>n DEF P!EditRow
<1>7. ASSUME NEW j \in P!JobIds, P!ToggleRow(j) PROVE DraftKept'
  <2>1. PICK i \in PjSlots : pjReq[i] = P!Idle /\ Slot(i) BY <1>7, SendSlot DEF P!ToggleRow
  <2> QED BY <1>7, <1>s, <2>1 DEF P!ToggleRow
<1>8. ASSUME NEW j \in P!JobIds, P!DeleteJob(j) PROVE DraftKept'
  <2>1. PICK i \in PjSlots : pjReq[i] = P!Idle /\ Slot(i) BY <1>8, SendSlot DEF P!DeleteJob
  <2> QED BY <1>8, <1>s, <2>1 DEF P!DeleteJob
<1>9. CASE P!SwitchEnabled
  <2>1. pjForm'.id = pjForm.id BY <1>9, <1>t DEF P!SwitchEnabled, P!Typed, PjForms
  <2> QED BY <1>9, <2>1, <1>u DEF P!SwitchEnabled, P!Typed
<1>10. CASE P!TypePayload
  <2>1. pjForm'.id = pjForm.id BY <1>10, <1>t DEF P!TypePayload, P!Typed, PjForms
  <2> QED BY <1>10, <2>1, <1>u DEF P!TypePayload, P!Typed
<1>11. ASSUME NEW i \in PjSlots, P!Perform(i) PROVE DraftKept'
  <2>1. UNCHANGED <<pjForm, pjDraft>> BY <1>11 DEF P!Perform
  <2>2. Slot(i) /\ pjReq'[i].ph = "acted" /\ pjReq'[i].kind = pjReq[i].kind BY <1>11, PerformSlot
  <2>3. pjDraft' = "sent" => pjDraft = "sent" /\ pjForm'.id = P!NewJob BY <2>1 DEF DraftKept
  <2> QED BY <2>2, <2>3, SlotKeepsDraft
<1>12. ASSUME NEW i \in PjSlots, P!Performed(i) PROVE DraftKept'
  <2>1. Slot(i) /\ pjReq[i].ph = "acted" BY <1>12, PerformedSlot
  <2>2. pjDraft' = "sent" => pjDraft = "sent" /\ pjForm'.id = P!NewJob BY <1>12 DEF P!Performed
  <2>3. CASE pjReq[i].kind # "save" BY <2>1, <2>2, <2>3, SlotKeepsDraft
  <2>4. CASE pjReq[i].kind = "save"
    <3>1. pjForm'.id = pjReq[i].id BY <1>12, <2>4 DEF P!Performed, P!FormAfterSave, P!FormOfJob
    <3>2. pjReq[i].id \in P!JobIds BY <2>1 DEF RequestsKept
    <3>3. pjReq[i].id # P!NewJob BY <3>2, PeriodicAssumption DEF P!JobIds, P!NewJob
    <3> QED BY <2>2, <3>1, <3>3 DEF DraftKept
  <2> QED BY <2>3, <2>4
<1>13. ASSUME NEW i \in PjSlots, P!ServeList(i) PROVE DraftKept'
  <2>1. UNCHANGED <<pjForm, pjDraft>> BY <1>13 DEF P!ServeList
  <2>2. Slot(i) /\ pjReq[i].ph = "fetching" BY <1>13, ServeSlot
  <2>3. pjDraft' = "sent" => pjDraft = "sent" /\ pjForm'.id = P!NewJob BY <2>1 DEF DraftKept
  <2> QED BY <2>2, <2>3, SlotKeepsDraft
<1>14. ASSUME NEW i \in PjSlots, P!ListLands(i) PROVE DraftKept'
  <2>1. UNCHANGED <<pjForm, pjDraft>> /\ pjReq[i].ph = "fetched" BY <1>14 DEF P!ListLands
  <2>2. Slot(i) BY <1>14, EndSlot
  <2>3. pjDraft' = "sent" => pjDraft = "sent" /\ pjForm'.id = P!NewJob BY <2>1 DEF DraftKept
  <2> QED BY <2>1, <2>2, <2>3, SlotKeepsDraft
<1>15. ASSUME NEW i \in PjSlots, P!Fails(i) PROVE DraftKept'
  <2>1. /\ pjForm' = pjForm
        /\ pjDraft' = "sent" => pjDraft = "sent" /\ ~(pjReq[i].kind = "save" /\ pjReq[i].ph \in {"sent", "acted"})
    BY <1>15 DEF P!Fails
  <2>2. Slot(i) BY <1>15, EndSlot
  <2>3. pjDraft' = "sent" => pjDraft = "sent" /\ pjForm'.id = P!NewJob BY <2>1 DEF DraftKept
  <2> QED BY <2>1, <2>2, <2>3, SlotKeepsDraft
<1>16. CASE UNCHANGED P!pjVars BY <1>16, <1>u DEF P!pjVars
<1> QED
  BY <1>1, <1>2, <1>3, <1>4, <1>5, <1>6, <1>7, <1>8, <1>9, <1>10, <1>11, <1>12, <1>13, <1>14, <1>15, <1>16
  DEF P!PjNext, P!Work

\* A save of a new job is sent from a form whose new job was not.
LEMMA SaveIsFirst ==
  PageTypes /\ RequestsKept /\ DraftKept /\ [P!PjNext]_P!pjVars =>
    \A n \in PjSlots : pjReq[n] = P!Idle /\ pjReq'[n].kind = "save" => pjDraft # "sent"
<1> SUFFICES ASSUME PageTypes, RequestsKept, DraftKept, [P!PjNext]_P!pjVars,
                    NEW n \in PjSlots, pjReq[n] = P!Idle, pjReq'[n].kind = "save", pjDraft = "sent"
             PROVE  FALSE
  OBVIOUS
<1> USE DEF P!flags, P!backend, P!history
<1>k. pjReq[n].kind = "none" BY DEF P!Idle
<1>u. ASSUME UNCHANGED pjReq PROVE FALSE BY <1>u, <1>k
<1>s. ASSUME NEW i \in PjSlots, Slot(i), pjReq'[i].kind = pjReq[i].kind \/ pjReq'[i].kind # "save"
      PROVE FALSE
  BY <1>s, <1>k DEF Slot
<1>f. ASSUME P!Fetch PROVE FALSE BY <1>f, <1>s, FetchSlot
<1>1. CASE P!OpenPeriodic BY <1>1, <1>f DEF P!OpenPeriodic
<1>2. CASE P!ClosePeriodic BY <1>2, <1>u DEF P!ClosePeriodic
<1>3. CASE P!RefreshJobs BY <1>3, <1>f DEF P!RefreshJobs
<1>4. CASE P!NewPeriodicForm BY <1>4, <1>u DEF P!NewPeriodicForm
<1>5. CASE P!SubmitPeriodic
  <2>1. ~pjSaving BY <1>5 DEF P!SubmitPeriodic
  <2> QED BY <2>1 DEF DraftKept, RequestsKept
<1>6. ASSUME NEW j \in P!JobIds, P!EditRow(j) PROVE FALSE BY <1>6, <1>u DEF P!EditRow
<1>7. ASSUME NEW j \in P!JobIds, P!ToggleRow(j) PROVE FALSE
  <2> DEFINE r == [P!Idle EXCEPT !.kind = "toggle", !.ph = "sent", !.id = j, !.formId = pjForm.id,
                                 !.enabled = ~pjList[j]]
  <2>1. r.kind = "toggle" BY DEF P!Idle
  <2>2. P!Send(r) BY <1>7 DEF P!ToggleRow
  <2> HIDE DEF r
  <2>3. PICK i \in PjSlots : pjReq'[i] = r /\ Slot(i) BY <2>2, SendSlot
  <2> QED BY <1>s, <2>1, <2>3
<1>8. ASSUME NEW j \in P!JobIds, P!DeleteJob(j) PROVE FALSE
  <2> DEFINE r == [P!Idle EXCEPT !.kind = "delete", !.ph = "sent", !.id = j, !.formId = pjForm.id]
  <2>1. r.kind = "delete" BY DEF P!Idle
  <2>2. P!Send(r) BY <1>8 DEF P!DeleteJob
  <2> HIDE DEF r
  <2>3. PICK i \in PjSlots : pjReq'[i] = r /\ Slot(i) BY <2>2, SendSlot
  <2> QED BY <1>s, <2>1, <2>3
<1>9. CASE P!SwitchEnabled BY <1>9, <1>u DEF P!SwitchEnabled, P!Typed
<1>10. CASE P!TypePayload BY <1>10, <1>u DEF P!TypePayload, P!Typed
<1>11. ASSUME NEW i \in PjSlots, P!Perform(i) PROVE FALSE BY <1>11, <1>s, PerformSlot
<1>12. ASSUME NEW i \in PjSlots, P!Performed(i) PROVE FALSE BY <1>12, <1>s, PerformedSlot
<1>13. ASSUME NEW i \in PjSlots, P!ServeList(i) PROVE FALSE BY <1>13, <1>s, ServeSlot
<1>14. ASSUME NEW i \in PjSlots, P!ListLands(i) \/ P!Fails(i) PROVE FALSE
  <2>1. Slot(i) /\ pjReq'[i].kind = "none" BY <1>14, EndSlot DEF P!Idle
  <2> QED BY <1>s, <2>1
<1>15. CASE UNCHANGED P!pjVars BY <1>15, <1>u DEF P!pjVars
<1> QED
  BY <1>1, <1>2, <1>3, <1>4, <1>5, <1>6, <1>7, <1>8, <1>9, <1>10, <1>11, <1>12, <1>13, <1>14, <1>15
  DEF P!PjNext, P!Work

\* What the invariant says of the page.
PageKept == PageTypes /\ RequestsKept /\ ListComes /\ FormLive /\ DraftKept

LEMMA PageInit == P!PjInit => PageKept
  BY PageInitTyped, RequestsInit, ListInit, FormInit, DraftInit DEF PageKept

LEMMA PageStep == PageKept /\ [P!PjNext]_P!pjVars => PageKept'
  BY PageStepTyped, RequestsStep, ListStep, FormStep, DraftStep DEF PageKept

LEMMA PageIsTrue == PageKept => P!ListIsServer /\ P!FormOfLiveJob
<1> SUFFICES ASSUME PageKept PROVE P!ListIsServer /\ P!FormOfLiveJob
  OBVIOUS
<1>1. P!ListIsServer
  <2> SUFFICES ASSUME P!AllIdle, pjTrusted PROVE pjList = pjJobs
    BY DEF P!ListIsServer
  <2>1. \A i \in PjSlots : pjReq[i].ph = "none" BY DEF P!AllIdle, P!Idle
  <2> QED BY <2>1 DEF PageKept, ListComes, Coming, Newest
<1>2. P!FormOfLiveJob
  BY DEF P!FormOfLiveJob, P!Doomed, PageKept, FormLive
<1> QED BY <1>1, <1>2

-----------------------------------------------------------------------------
(* The settings forms of the services.                                     *)

SvcRequests == [kind : {"load", "save", "none"}, served : BOOLEAN, body : S!FormFields]

\* What the state of a form is made of, one by one.
SvcTypes ==
  /\ svc \in {"reactive", "keepalive"} /\ svcField \in {"source", "limit", "ports"}
  /\ svcForm \in S!FormFields /\ svcConfig \in S!FormFields
  /\ svcReq \in [SvcSlots -> SvcRequests]
  /\ svcOpen \in BOOLEAN /\ svcLoading \in BOOLEAN /\ svcSaving \in BOOLEAN
  /\ svcListed \in BOOLEAN /\ svcEdited \in BOOLEAN /\ svcTrusted \in BOOLEAN

LEMMA SvcTyped == SvcTypes => S!SvcTypeOK
  BY DEF SvcTypes, S!SvcTypeOK, SvcRequests

LEMMA InitialFormTyped == \A s : S!InitialForm(s) \in S!FormFields
  BY ServicesAssumption DEF S!InitialForm, S!FormFields

LEMMA FreeTyped == S!Free \in SvcRequests /\ S!Free.kind = "none" /\ S!Free.served = FALSE
  BY InitialFormTyped DEF S!Free, SvcRequests

\* A form with one field changed is a form.
LEMMA FieldsTyped ==
  ASSUME NEW form \in S!FormFields
  PROVE  /\ \A n \in Names \cup {S!NoName} : [form EXCEPT !.source = n] \in S!FormFields
         /\ \A n \in Int : [form EXCEPT !.limit = n] \in S!FormFields
         /\ \A p \in SUBSET Ports : [form EXCEPT !.ports = p] \in S!FormFields
  BY DEF S!FormFields

\* The conversions give forms and configurations.
LEMMA ConversionsTyped ==
  ASSUME NEW form \in S!FormFields, NEW s
  PROVE  /\ S!FormOf(s, form) \in S!FormFields
         /\ S!ReactivePayload(form) \in S!FormFields /\ S!KeepalivePayload(form) \in S!FormFields
         /\ svcConfig \in S!FormFields => S!Stored(form) \in S!FormFields
<1>1. form.limit \in Int /\ form.ports \in SUBSET Ports BY DEF S!FormFields
<1>2. S!Minutes(form.limit) \in Int /\ S!AtLeast(0, form.limit) \in Int /\ S!AtLeast(60, form.limit * 60) \in Int
  BY <1>1 DEF S!Minutes, S!AtLeast
<1>3. S!FormOf(s, form) \in S!FormFields
  BY <1>1, <1>2, FieldsTyped, ServicesAssumption DEF S!FormOf
<1>4. S!ReactivePayload(form) \in S!FormFields /\ S!KeepalivePayload(form) \in S!FormFields
  BY <1>2, FieldsTyped DEF S!ReactivePayload, S!KeepalivePayload
<1>5. ASSUME svcConfig \in S!FormFields PROVE S!Stored(form) \in S!FormFields
  <2>1. svcConfig.source \in Names \cup {S!NoName} BY <1>5 DEF S!FormFields
  <2> QED BY <2>1, FieldsTyped DEF S!Stored
<1> QED BY <1>3, <1>4, <1>5

\* The nearest minute is half a minute off at most.
LEMMA NearestMinute ==
  ASSUME NEW n \in Int, n >= 60
  PROVE  S!Minutes(n) * 60 - n \in -30..30
<1> DEFINE q == (n + 30) \div 60
<1>1. q \in Int /\ 60 * q <= n + 30 /\ n + 30 < 60 * q + 60 OBVIOUS
<1>2. S!Minutes(n) = S!AtLeast(1, q) BY DEF S!Minutes
<1> HIDE DEF q
<1>3. S!Minutes(n) = q BY <1>1, <1>2 DEF S!AtLeast
<1> QED BY <1>1, <1>3

\* What a form is made of an answer shows that answer.
LEMMA FormShowsAnswer ==
  ASSUME NEW cfg \in S!FormFields, svc \in {"reactive", "keepalive"}
  PROVE  S!Shows(S!FormOf(svc, cfg), cfg)
<1>1. CASE svc = "reactive"
  BY <1>1 DEF S!Shows, S!FormOf, S!FormFields
<1>2. CASE svc = "keepalive"
  <2> DEFINE form == S!FormOf(svc, cfg)
  <2>1. form.source = cfg.source /\ form.ports = cfg.ports /\ form.limit = S!Minutes(cfg.limit)
    BY <1>2 DEF S!FormOf, S!FormFields
  <2>2. cfg.limit \in Int BY DEF S!FormFields
  <2>3. cfg.limit >= 60 => S!Minutes(cfg.limit) * 60 - cfg.limit \in -30..30
    BY <2>2, NearestMinute
  <2> HIDE DEF form
  <2> QED BY <1>2, <2>1, <2>3 DEF S!Shows, form
<1> QED BY <1>1, <1>2

\* A form to be trusted is awaiting its one answer, which is the configuration, or
\* was not touched since the last answer, and shows it.
Alone(i) == svcReq[i] # S!Free /\ \A j \in SvcSlots \ {i} : svcReq[j] = S!Free
SvcShown ==
  svcTrusted =>
    \/ \E i \in SvcSlots : Alone(i) /\ (svcReq[i].served => svcReq[i].body = svcConfig)
    \/ S!Quiet /\ (svcEdited \/ S!Shows(svcForm, svcConfig))

SvcKept == SvcTypes /\ SvcShown

LEMMA SvcInitKept == S!SvcInit => SvcKept
<1> SUFFICES ASSUME S!SvcInit PROVE SvcKept
  OBVIOUS
<1>1. svcForm \in S!FormFields BY InitialFormTyped DEF S!SvcInit
<1>2. svcReq \in [SvcSlots -> SvcRequests] BY FreeTyped DEF S!SvcInit
<1>3. svcConfig \in S!FormFields
  <2> DEFINE form == S!InitialForm(svc)
  <2>1. form \in S!FormFields /\ form.limit \in Int BY InitialFormTyped DEF S!FormFields
  <2>2. svcConfig \in S!StoredConfig BY DEF S!SvcInit
  <2> HIDE DEF form
  <2>3. \A n \in Names \cup {S!NoName} : \A l \in Int : [form EXCEPT !.source = n, !.limit = l] \in S!FormFields
    BY <2>1 DEF S!FormFields
  <2>4. CASE svcConfig \in {[form EXCEPT !.source = n, !.limit = IF svc = "keepalive" THEN 60 * @ ELSE @] :
                              n \in IF svcField = "source" THEN Names \cup {S!NoName} ELSE {S!NoName}}
    <3>1. PICK n \in Names \cup {S!NoName} :
            svcConfig = [form EXCEPT !.source = n, !.limit = IF svc = "keepalive" THEN 60 * @ ELSE @]
      BY <2>4
    <3>2. (IF svc = "keepalive" THEN 60 * form.limit ELSE form.limit) \in Int BY <2>1
    <3> QED BY <2>3, <3>1, <3>2
  <2>5. CASE svcConfig \in {[form EXCEPT !.limit = n] : n \in IF svcField = "limit" THEN StoredLimits ELSE {}}
    BY <2>1, <2>5, FieldsTyped, ServicesAssumption
  <2>6. CASE svcConfig \in {[form EXCEPT !.ports = p] : p \in IF svcField = "ports" THEN SUBSET Ports ELSE {}}
    BY <2>1, <2>6, FieldsTyped
  <2> QED BY <2>2, <2>4, <2>5, <2>6 DEF S!StoredConfig, form
<1> QED BY <1>1, <1>2, <1>3 DEF S!SvcInit, SvcKept, SvcTypes, SvcShown

\* A request is taken into a free slot, alone if there was no other.
LEMMA IssueKeeps ==
  ASSUME SvcKept, NEW what \in {"load", "save"}, NEW body \in S!FormFields, S!Issue(what, body),
         UNCHANGED <<svc, svcField, svcForm, svcConfig, svcListed, svcEdited>>,
         svcOpen' \in BOOLEAN, svcLoading' \in BOOLEAN, svcSaving' \in BOOLEAN
  PROVE  SvcKept'
<1> DEFINE r == [kind |-> what, served |-> FALSE, body |-> body]
<1>1. PICK i \in SvcSlots : svcReq[i] = S!Free /\ svcReq' = [svcReq EXCEPT ![i] = r]
  BY DEF S!Issue
<1>2. r \in SvcRequests /\ r.kind # "none" /\ ~r.served BY DEF SvcRequests
<1> HIDE DEF r
<1>3. svcReq \in [SvcSlots -> SvcRequests] BY DEF SvcKept, SvcTypes
<1>4. /\ svcReq' \in [SvcSlots -> SvcRequests] /\ svcReq'[i] = r
      /\ \A j \in SvcSlots \ {i} : svcReq'[j] = svcReq[j]
  BY <1>1, <1>2, <1>3
<1>5. svcTrusted' = S!Quiet /\ svcTrusted' \in BOOLEAN BY DEF S!Issue, S!Quiet
<1>6. SvcTypes' BY <1>4, <1>5 DEF SvcKept, SvcTypes
<1>7. r # S!Free BY <1>2, FreeTyped
<1>8. S!Quiet => Alone(i)' /\ ~svcReq'[i].served BY <1>2, <1>4, <1>7 DEF S!Quiet, Alone
<1>9. SvcShown' BY <1>5, <1>8 DEF SvcShown
<1> QED BY <1>6, <1>9 DEF SvcKept

\* A control of the form changes the form, and nothing else.
LEMMA EditKeeps ==
  ASSUME SvcKept, NEW s, NEW field, NEW form \in S!FormFields, S!Edit(s, field, form)
  PROVE  SvcKept'
<1> USE DEF S!kind
<1>1. SvcTypes' BY DEF SvcKept, SvcTypes, S!Edit
<1>2. svcEdited' /\ UNCHANGED <<svcReq, svcConfig, svcTrusted>> BY DEF S!Edit
<1>3. SvcShown' BY <1>2 DEF SvcKept, SvcShown, S!Quiet, Alone
<1> QED BY <1>1, <1>3 DEF SvcKept

LEMMA FinishedTyped ==
  ASSUME NEW r, S!Finished(r), svcLoading \in BOOLEAN, svcSaving \in BOOLEAN
  PROVE  svcLoading' \in BOOLEAN /\ svcSaving' \in BOOLEAN
  BY DEF S!Finished

LEMMA SvcStep == SvcKept /\ [S!SvcNext]_S!svcVars => SvcKept'
<1> SUFFICES ASSUME SvcKept, [S!SvcNext]_S!svcVars PROVE SvcKept'
  OBVIOUS
<1>t. /\ svc \in {"reactive", "keepalive"} /\ svcField \in {"source", "limit", "ports"}
      /\ svcForm \in S!FormFields /\ svcConfig \in S!FormFields
      /\ svcReq \in [SvcSlots -> SvcRequests]
      /\ svcOpen \in BOOLEAN /\ svcLoading \in BOOLEAN /\ svcSaving \in BOOLEAN
      /\ svcListed \in BOOLEAN /\ svcEdited \in BOOLEAN /\ svcTrusted \in BOOLEAN
  BY DEF SvcKept, SvcTypes
<1> USE DEF S!kind
<1>1. CASE S!OpenReactive
  BY <1>1, <1>t, IssueKeeps, InitialFormTyped DEF S!OpenReactive
<1>2. CASE S!OpenKeepalive
  BY <1>2, <1>t, IssueKeeps, InitialFormTyped DEF S!OpenKeepalive
<1>3. CASE S!CloseService
  <2>1. SvcTypes' BY <1>3, <1>t DEF S!CloseService, SvcTypes
  <2>2. SvcShown' BY <1>3 DEF S!CloseService, SvcKept, SvcShown, S!Quiet, Alone, S!Shows
  <2> QED BY <2>1, <2>2 DEF SvcKept
<1>4. ASSUME NEW n \in Names \cup {S!NoName}, S!TypeReactiveSource(n) \/ S!TypeKeepaliveSource(n)
      PROVE SvcKept'
  <2>1. [svcForm EXCEPT !.source = n] \in S!FormFields BY <1>t, FieldsTyped
  <2> QED BY <1>4, <2>1, EditKeeps DEF S!TypeReactiveSource, S!TypeKeepaliveSource
<1>5. ASSUME NEW p \in Ports, S!ToggleReactivePort(p) \/ S!ToggleKeepaliveNode(p) PROVE SvcKept'
  <2> DEFINE ports == IF p \in svcForm.ports THEN svcForm.ports \ {p} ELSE svcForm.ports \cup {p}
  <2>1. ports \in SUBSET Ports BY <1>t DEF S!FormFields
  <2>2. S!Edit("reactive", "ports", [svcForm EXCEPT !.ports = ports])
        \/ S!Edit("keepalive", "ports", [svcForm EXCEPT !.ports = ports])
    BY <1>5 DEF S!ToggleReactivePort, S!ToggleKeepaliveNode
  <2> HIDE DEF ports
  <2>3. [svcForm EXCEPT !.ports = ports] \in S!FormFields BY <1>t, <2>1, FieldsTyped
  <2> QED BY <2>2, <2>3, EditKeeps
<1>6. CASE S!ToggleAllPorts
  <2> DEFINE ports == IF svcForm.ports = Ports THEN {} ELSE Ports
  <2>1. ports \in SUBSET Ports OBVIOUS
  <2>2. S!Edit("reactive", "ports", [svcForm EXCEPT !.ports = ports]) BY <1>6 DEF S!ToggleAllPorts
  <2> HIDE DEF ports
  <2>3. [svcForm EXCEPT !.ports = ports] \in S!FormFields BY <1>t, <2>1, FieldsTyped
  <2> QED BY <2>2, <2>3, EditKeeps
<1>7. ASSUME NEW n \in Limits, S!TypeReactiveLimit(n) \/ S!TypeKeepaliveMinutes(n) PROVE SvcKept'
  <2>1. n \in Int BY DEF Limits
  <2>2. [svcForm EXCEPT !.limit = S!AtLeast(0, n)] \in S!FormFields
    <3>1. S!AtLeast(0, n) \in Int BY <2>1 DEF S!AtLeast
    <3> QED BY <1>t, <3>1, FieldsTyped
  <2>3. [svcForm EXCEPT !.limit = IF n = 0 THEN 1 ELSE n] \in S!FormFields
    <3>1. (IF n = 0 THEN 1 ELSE n) \in Int BY <2>1
    <3> QED BY <1>t, <3>1, FieldsTyped
  <2>4. CASE S!TypeReactiveLimit(n) BY <2>2, <2>4, EditKeeps DEF S!TypeReactiveLimit
  <2>5. CASE S!TypeKeepaliveMinutes(n) BY <2>3, <2>5, EditKeeps DEF S!TypeKeepaliveMinutes
  <2> QED BY <1>7, <2>4, <2>5
<1>8. CASE S!SaveReactive
  <2>1. S!ReactivePayload(svcForm) \in S!FormFields BY <1>t, ConversionsTyped
  <2> QED BY <1>8, <1>t, <2>1, IssueKeeps DEF S!SaveReactive
<1>9. CASE S!SaveKeepalive
  <2>1. S!KeepalivePayload(svcForm) \in S!FormFields BY <1>t, ConversionsTyped
  <2> QED BY <1>9, <1>t, <2>1, IssueKeeps DEF S!SaveKeepalive
<1>10. CASE S!ListsForReactive
  <2> DEFINE restricted == Approved # {} /\ Approved # Names
             bad == restricted /\ svcForm.source \notin Approved \cup {S!NoName}
  <2>1. /\ svcForm' = [svcForm EXCEPT !.source = IF bad THEN S!NoName ELSE @]
        /\ svcEdited' = (svcEdited \/ bad)
        /\ UNCHANGED <<svc, svcField, svcOpen, svcLoading, svcSaving, svcReq, svcConfig, svcTrusted>>
        /\ svcListed' = TRUE
    BY <1>10 DEF S!ListsForReactive
  <2>2. bad \in BOOLEAN OBVIOUS
  <2> HIDE DEF bad
  <2>3. svcForm' \in S!FormFields
    <3>1. svcForm.source \in Names \cup {S!NoName} BY <1>t DEF S!FormFields
    <3> QED BY <1>t, <2>1, <3>1, FieldsTyped
  <2>4. svcEdited' \in BOOLEAN BY <1>t, <2>1, <2>2
  <2>5. SvcTypes' BY <1>t, <2>1, <2>3, <2>4 DEF SvcTypes
  <2>6. ~svcEdited' => svcForm' = svcForm /\ ~svcEdited BY <1>t, <2>1, <2>2 DEF S!FormFields
  <2>7. SvcShown' BY <2>1, <2>6 DEF SvcKept, SvcShown, S!Quiet, Alone, S!Shows
  <2> QED BY <2>5, <2>7 DEF SvcKept
<1>11. ASSUME NEW i \in SvcSlots, S!Serve(i) PROVE SvcKept'
  <2> DEFINE after == IF svcReq[i].kind = "save" THEN S!Stored(svcReq[i].body) ELSE svcConfig
             r == [svcReq[i] EXCEPT !.served = TRUE, !.body = after]
  <2>1. /\ svcReq[i] # S!Free /\ svcConfig' = after
        /\ svcReq' = [svcReq EXCEPT ![i] = r]
        /\ UNCHANGED <<svc, svcField, svcOpen, svcForm, svcLoading, svcSaving, svcListed, svcEdited, svcTrusted>>
    BY <1>11 DEF S!Serve
  <2>2. svcReq[i] \in SvcRequests BY <1>t
  <2>3. after \in S!FormFields
    <3>1. svcReq[i].body \in S!FormFields BY <2>2 DEF SvcRequests
    <3> QED BY <1>t, <3>1, ConversionsTyped
  <2> HIDE DEF after
  <2>4. r \in SvcRequests /\ r.served /\ r.body = after BY <2>2, <2>3 DEF SvcRequests
  <2>5. r # S!Free BY <2>4, FreeTyped
  <2> HIDE DEF r
  <2>6. /\ svcReq' \in [SvcSlots -> SvcRequests] /\ svcReq'[i] = r
        /\ \A j \in SvcSlots \ {i} : svcReq'[j] = svcReq[j]
    BY <1>t, <2>1, <2>4
  <2>7. SvcTypes' BY <1>t, <2>1, <2>3, <2>6 DEF SvcTypes
  <2>8. svcTrusted => Alone(i) BY <2>1 DEF SvcKept, SvcShown, S!Quiet, Alone
  <2>9. svcTrusted => Alone(i)' /\ svcReq'[i].body = svcConfig'
    BY <2>1, <2>4, <2>5, <2>6, <2>8 DEF Alone
  <2>10. SvcShown' BY <2>1, <2>9 DEF SvcShown
  <2> QED BY <2>7, <2>10 DEF SvcKept
<1>e. ASSUME NEW i \in SvcSlots, svcReq' = [svcReq EXCEPT ![i] = S!Free]
      PROVE  svcReq' \in [SvcSlots -> SvcRequests] /\ (Alone(i) => S!Quiet')
  BY <1>e, <1>t, FreeTyped DEF Alone, S!Quiet
<1>12. ASSUME NEW i \in SvcSlots, S!Answer(i) PROVE SvcKept'
  <2>1. /\ svcReq[i].served /\ svcForm' = S!FormOf(svc, svcReq[i].body) /\ S!Finished(svcReq[i])
        /\ svcReq' = [svcReq EXCEPT ![i] = S!Free] /\ svcEdited' = FALSE
        /\ UNCHANGED <<svc, svcField, svcOpen, svcConfig, svcListed, svcTrusted>>
    BY <1>12 DEF S!Answer
  <2>2. svcReq[i].body \in S!FormFields BY <1>t DEF SvcRequests
  <2>3. svcForm' \in S!FormFields BY <2>1, <2>2, ConversionsTyped
  <2>4. SvcTypes' BY <1>t, <1>e, <2>1, <2>3, FinishedTyped DEF SvcTypes
  <2>5. svcReq[i] # S!Free BY <2>1, FreeTyped
  <2>6. svcTrusted => Alone(i) /\ svcReq[i].body = svcConfig
    BY <2>1, <2>5 DEF SvcKept, SvcShown, S!Quiet, Alone
  <2>7. svcTrusted => S!Shows(svcForm', svcConfig)
    BY <1>t, <2>1, <2>6, FormShowsAnswer
  <2>8. svcTrusted => S!Quiet' /\ S!Shows(svcForm, svcConfig)'
    BY <1>e, <2>1, <2>6, <2>7 DEF S!Shows
  <2> QED BY <2>1, <2>4, <2>8 DEF SvcKept, SvcShown
<1>13. ASSUME NEW i \in SvcSlots, S!Fail(i) PROVE SvcKept'
  <2>1. /\ S!Finished(svcReq[i]) /\ svcReq' = [svcReq EXCEPT ![i] = S!Free] /\ svcTrusted' = FALSE
        /\ UNCHANGED <<svc, svcField, svcOpen, svcForm, svcConfig, svcListed, svcEdited>>
    BY <1>13 DEF S!Fail
  <2>2. SvcTypes' BY <1>t, <1>e, <2>1, FinishedTyped DEF SvcTypes
  <2> QED BY <2>1, <2>2 DEF SvcKept, SvcShown
<1>14. CASE UNCHANGED S!svcVars
  BY <1>14 DEF S!svcVars, SvcKept, SvcTypes, SvcShown, S!Quiet, Alone, S!Shows
<1> QED
  BY <1>1, <1>2, <1>3, <1>4, <1>5, <1>6, <1>7, <1>8, <1>9, <1>10, <1>11, <1>12, <1>13, <1>14
  DEF S!SvcNext

\* A form nobody touched since its last answer shows what the server holds.
LEMMA SettledShown == SvcKept => S!SettledFormIsConfig
  BY DEF SvcKept, SvcShown, S!SettledFormIsConfig, S!Quiet, Alone
-----------------------------------------------------------------------------
(* Navigation.                                                             *)

\* What the state of the dashboard is made of, one by one.
NavTypes ==
  /\ dnUrl \in D!Urls /\ dnNav \in D!Urls \cup {D!NoUrl} /\ dnSent \in D!Urls \cup {D!NoUrl}
  /\ dnTab \in DnTabs /\ dnForm \in DnActions \cup {D!None}
  /\ dnFocus \in [node : DnNodes \cup {D!None}, source : {"query", "storage", D!None}]
  /\ dnShown \in DnNodes \cup {D!None}
  /\ dnStore \in D!Places /\ dnOwed \in D!Places
  /\ dnHere \in BOOLEAN /\ dnCrossed \in BOOLEAN

LEMMA NavTyped == NavTypes => D!DnTypeOK
  BY DEF NavTypes, D!DnTypeOK

\* Addresses, and what is made of them.
LEMMA UrlsAre ==
  ASSUME NEW url \in D!Urls
  PROVE  /\ url # D!NoUrl /\ url.tab \in DnTabs /\ url.action \in DnActions \cup {D!None}
         /\ url.returnTab \in DnTabs \cup {D!None} /\ url.focus \in DnNodes \cup {D!None}
         /\ D!ClearedUrl(url) \in D!Urls /\ D!ClearedUrl(url).focus = url.focus
<1>1. /\ url.tab \in DnTabs /\ url.action \in DnActions \cup {D!None}
      /\ url.returnTab \in DnTabs \cup {D!None} /\ url.focus \in DnNodes \cup {D!None}
  BY DEF D!Urls
<1>2. url # D!NoUrl
  <2>1. D!NoUrl.tab = D!None BY DEF D!NoUrl, D!Url
  <2> QED BY <1>1, <2>1, NavigationAssumption
<1>3. D!ClearedUrl(url) \in D!Urls /\ D!ClearedUrl(url).focus = url.focus
  BY <1>1 DEF D!ClearedUrl, D!Urls
<1> QED BY <1>1, <1>2, <1>3

LEMMA MoreUrls ==
  /\ D!Home \in D!Urls /\ D!Home.focus = D!None
  /\ dnUrl \in D!Urls => /\ \A tab \in DnTabs : /\ D!TabUrl(tab) \in D!Urls
                                                /\ D!TabUrl(tab).focus = dnUrl.focus
                                                /\ D!TabUrl(tab).tab = tab
                         /\ D!WithoutFocus \in D!Urls /\ D!WithoutFocus.focus = D!None
<1>1. D!Home \in D!Urls /\ D!Home.focus = D!None
  BY NavigationAssumption DEF D!Home, D!Url, D!Urls
<1>2. ASSUME dnUrl \in D!Urls, NEW tab \in DnTabs
      PROVE  /\ D!TabUrl(tab) \in D!Urls /\ D!TabUrl(tab).focus = dnUrl.focus
             /\ D!TabUrl(tab).tab = tab
  BY <1>2 DEF D!TabUrl, D!Urls
<1>3. ASSUME dnUrl \in D!Urls PROVE D!WithoutFocus \in D!Urls /\ D!WithoutFocus.focus = D!None
  BY <1>3 DEF D!WithoutFocus, D!Urls
<1> QED BY <1>1, <1>2, <1>3

\* The address the page will have: the navigation under way decides.
Latest == IF dnNav = D!NoUrl THEN dnUrl ELSE dnNav

\* What a launch owes is told by the storage, by the latest address or by neither;
\* what is pending is owed; and its panel, where nothing leads away, has it pending.
OwedKept ==
  /\ dnStore = dnOwed
  /\ dnTab = dnUrl.tab
  /\ dnForm # D!None \/ dnHere => dnTab = "actions"
  /\ dnOwed # D!Nowhere => dnOwed.tab \in D!Preserving /\ dnOwed.node # D!None
  /\ Latest.focus \in {D!None, dnOwed.node}
  /\ dnFocus # D!NoFocus =>
       dnFocus.node = dnOwed.node /\ dnFocus.source # D!None /\ Latest.focus = dnUrl.focus
  /\ dnFocus.source = "storage" => dnUrl.focus = D!None
  /\ dnOwed # D!Nowhere /\ dnOwed.tab = dnTab /\ Latest.tab = dnTab => dnFocus.node = dnOwed.node

NavKept == NavTypes /\ (~dnCrossed => OwedKept)

LEMMA NavInit == D!DnInit => NavKept
<1> SUFFICES ASSUME D!DnInit PROVE NavKept
  OBVIOUS
<1>1. NavTypes
  BY MoreUrls, NavigationAssumption DEF D!DnInit, NavTypes, D!NoFocus, D!Nowhere, D!Place, D!Places
<1>2. OwedKept
  BY MoreUrls DEF D!DnInit, OwedKept, Latest, D!Home, D!Url, D!NoFocus
<1> QED BY <1>1, <1>2 DEF NavKept

\* The effect of a panel finds a node, and what it is told by.
LEMMA FocusFound ==
  ASSUME NEW tab, NEW url \in D!Urls, NEW pending \in [node : DnNodes \cup {D!None}, source : {"query", "storage", D!None}],
         dnStore' \in D!Places
  PROVE  D!FocusFor(tab, url, pending) \in [node : DnNodes \cup {D!None}, source : {"query", "storage", D!None}]
<1>1. url.focus \in DnNodes \cup {D!None} /\ dnStore'.node \in DnNodes \cup {D!None}
  BY DEF D!Urls, D!Places
<1> QED BY <1>1 DEF D!FocusFor, D!NoFocus

\* A panel that is mounted under the address keeps what is owed.
LEMMA MountKeeps ==
  ASSUME NEW url \in D!Urls, D!Mounted(url.tab, url), dnUrl' = url, dnStore' = dnOwed', dnOwed' \in D!Places,
         dnOwed' # D!Nowhere => dnOwed'.tab \in D!Preserving /\ dnOwed'.node # D!None,
         url.focus \in {D!None, dnOwed'.node}, Latest'.focus = url.focus
  PROVE  OwedKept'
<1>1. /\ dnTab' = url.tab /\ dnForm' = IF url.tab = "actions" THEN url.action ELSE D!None
      /\ dnFocus' = D!FocusFor(url.tab, url, D!NoFocus) /\ dnHere' = FALSE
  BY DEF D!Mounted
<1>2. CASE url.tab \notin D!Preserving
  <2>1. dnFocus' = D!NoFocus BY <1>1, <1>2 DEF D!FocusFor
  <2> QED BY <1>1, <1>2, <2>1 DEF OwedKept, D!NoFocus, D!None
<1>3. CASE url.tab \in D!Preserving /\ url.focus # D!None
  <2>1. dnFocus' = [node |-> url.focus, source |-> "query"] BY <1>1, <1>3 DEF D!FocusFor
  <2> QED BY <1>1, <1>3, <2>1 DEF OwedKept, D!None
<1>4. CASE url.tab \in D!Preserving /\ url.focus = D!None /\ dnStore'.tab = url.tab
  <2>1. dnFocus' = [node |-> dnStore'.node, source |-> "storage"] BY <1>1, <1>4 DEF D!FocusFor
  <2> QED BY <1>1, <1>4, <2>1 DEF OwedKept, D!None
<1>5. CASE url.tab \in D!Preserving /\ url.focus = D!None /\ dnStore'.tab # url.tab
  <2>1. dnFocus' = D!NoFocus BY <1>1, <1>5 DEF D!FocusFor
  <2> QED BY <1>1, <1>5, <2>1 DEF OwedKept, D!NoFocus, D!None
<1> QED BY <1>2, <1>3, <1>4, <1>5

\* A step that leaves the panel's pending node, and where the address leads, keeps it.
LEMMA StayKeeps ==
  ASSUME OwedKept, UNCHANGED <<dnUrl, dnStore, dnOwed, dnTab, dnFocus>>,
         dnForm' # D!None \/ dnHere' => dnTab = "actions",
         Latest'.focus = Latest.focus,
         Latest'.tab = dnTab => Latest.tab = dnTab \/ dnTab = "actions"
  PROVE  OwedKept'
  BY DEF OwedKept, D!Preserving

\* A navigation that does not cross another starts from the latest address.
LEMMA NavigateKeeps ==
  ASSUME NEW base, NEW url \in D!Urls, D!Navigate(base, url), dnCrossed \in BOOLEAN
  PROVE  /\ dnNav' = url /\ Latest' = url /\ dnCrossed' \in BOOLEAN
         /\ ~dnCrossed' => ~dnCrossed /\ base = Latest
<1>1. dnNav' = url /\ url # D!NoUrl BY UrlsAre DEF D!Navigate
<1> QED BY <1>1 DEF D!Navigate, Latest

LEMMA NavStep == NavKept /\ [D!DnNext]_D!dnVars => NavKept'
<1> SUFFICES ASSUME NavKept, [D!DnNext]_D!dnVars PROVE NavKept'
  OBVIOUS
<1>t. /\ dnUrl \in D!Urls /\ dnNav \in D!Urls \cup {D!NoUrl} /\ dnSent \in D!Urls \cup {D!NoUrl}
      /\ dnTab \in DnTabs /\ dnForm \in DnActions \cup {D!None}
      /\ dnFocus \in [node : DnNodes \cup {D!None}, source : {"query", "storage", D!None}]
      /\ dnShown \in DnNodes \cup {D!None}
      /\ dnStore \in D!Places /\ dnOwed \in D!Places
      /\ dnHere \in BOOLEAN /\ dnCrossed \in BOOLEAN
  BY DEF NavKept, NavTypes
<1>l. Latest \in D!Urls /\ Latest # D!NoUrl BY <1>t, UrlsAre DEF Latest
<1>o. ~dnCrossed => OwedKept BY DEF NavKept
<1>n. D!NoFocus \in [node : DnNodes \cup {D!None}, source : {"query", "storage", D!None}]
  BY DEF D!NoFocus
<1>m. ASSUME NEW url \in D!Urls, D!Mounted(url.tab, url), UNCHANGED dnStore
      PROVE  /\ dnTab' \in DnTabs /\ dnForm' \in DnActions \cup {D!None} /\ dnShown' \in DnNodes \cup {D!None}
             /\ dnFocus' \in [node : DnNodes \cup {D!None}, source : {"query", "storage", D!None}]
             /\ dnHere' \in BOOLEAN
  BY <1>m, <1>t, <1>n, UrlsAre, FocusFound DEF D!Mounted
<1>p. /\ D!Nowhere \in D!Places
      /\ \A n \in DnNodes \cup {D!None} : \A tab \in DnTabs : D!Place(n, tab) \in D!Places
  BY DEF D!Nowhere, D!Place, D!Places
<1> USE DEF D!panel
<1>1. ASSUME NEW tab \in DnTabs, D!ClickTab(tab) PROVE NavKept'
  <2>1. /\ D!Navigate(dnUrl, D!TabUrl(tab)) /\ UNCHANGED <<dnUrl, dnStore, dnSent, dnOwed>>
        /\ IF tab = dnTab THEN UNCHANGED <<dnTab, dnForm, dnFocus, dnShown, dnHere>> ELSE D!Mounted(dnTab, dnUrl)
    BY <1>1 DEF D!ClickTab
  <2>2. D!TabUrl(tab) \in D!Urls /\ D!TabUrl(tab).focus = dnUrl.focus /\ D!TabUrl(tab).tab = tab
    BY <1>t, MoreUrls
  <2>3. /\ dnNav' = D!TabUrl(tab) /\ Latest' = D!TabUrl(tab) /\ dnCrossed' \in BOOLEAN
        /\ ~dnCrossed' => ~dnCrossed /\ dnUrl = Latest
    BY <1>t, <2>1, <2>2, NavigateKeeps
  <2>4. CASE tab = dnTab
    <3>1. NavTypes' BY <1>t, <2>1, <2>2, <2>3, <2>4 DEF NavTypes
    <3>2. ~dnCrossed' => OwedKept'
      <4> SUFFICES ASSUME ~dnCrossed' PROVE OwedKept'
        OBVIOUS
      <4>1. OwedKept /\ dnUrl = Latest BY <1>o, <2>3
      <4>2. Latest'.focus = Latest.focus /\ Latest.tab = dnTab BY <2>2, <2>3, <4>1 DEF OwedKept
      <4>3. dnForm' # D!None \/ dnHere' => dnTab = "actions" BY <2>1, <2>4, <4>1 DEF OwedKept
      <4> QED BY <2>1, <2>4, <4>1, <4>2, <4>3, StayKeeps
    <3> QED BY <3>1, <3>2 DEF NavKept
  <2>5. CASE tab # dnTab
    <3>1. D!Mounted(dnTab, dnUrl) BY <2>1, <2>5
    <3>2. ASSUME NEW u, u = D!FocusFor(dnTab, dnUrl, D!NoFocus)
          PROVE  u \in [node : DnNodes \cup {D!None}, source : {"query", "storage", D!None}]
      BY <1>t, <1>n, <2>1, <3>2, FocusFound
    <3>3. NavTypes' BY <1>t, <2>1, <2>2, <2>3, <3>1, <3>2, UrlsAre DEF NavTypes, D!Mounted
    <3>4. ~dnCrossed' => OwedKept'
      <4> SUFFICES ASSUME ~dnCrossed' PROVE OwedKept'
        OBVIOUS
      <4>1. OwedKept /\ dnUrl = Latest BY <1>o, <2>3
      <4>2. D!Mounted(dnUrl.tab, dnUrl) BY <3>1, <4>1 DEF OwedKept
      <4>3. dnUrl.focus \in {D!None, dnOwed'.node} /\ Latest'.focus = dnUrl.focus
        BY <2>1, <2>2, <2>3, <4>1 DEF OwedKept
      <4> QED BY <1>t, <2>1, <4>1, <4>2, <4>3, MountKeeps DEF OwedKept
    <3> QED BY <3>3, <3>4 DEF NavKept
  <2> QED BY <2>4, <2>5
<1>2. CASE D!Commit
  <2>1. /\ dnNav \in D!Urls /\ dnNav # D!NoUrl /\ Latest = dnNav
        /\ dnUrl' = dnNav /\ dnNav' = D!NoUrl /\ Latest' = dnNav
        /\ UNCHANGED <<dnStore, dnSent, dnOwed, dnCrossed>>
        /\ IF dnNav.tab = dnTab THEN D!Readdressed(dnNav) ELSE D!Mounted(dnNav.tab, dnNav)
    BY <1>2, <1>t DEF D!Commit, Latest
  <2>2. CASE dnNav.tab = dnTab
    <3>1. /\ dnTab' = dnTab /\ dnForm' = IF dnTab = "actions" /\ dnNav.action # D!None THEN dnNav.action ELSE dnForm
          /\ dnFocus' = IF dnNav.focus # dnUrl.focus THEN D!FocusFor(dnTab, dnNav, dnFocus) ELSE dnFocus
          /\ UNCHANGED <<dnShown, dnHere>>
      BY <2>1, <2>2 DEF D!Readdressed
    <3>2. dnFocus' \in [node : DnNodes \cup {D!None}, source : {"query", "storage", D!None}]
      BY <1>t, <2>1, <3>1, FocusFound
    <3>3. NavTypes' BY <1>t, <2>1, <3>1, <3>2, UrlsAre DEF NavTypes
    <3>4. ~dnCrossed' => OwedKept'
      <4> SUFFICES ASSUME OwedKept PROVE OwedKept'
        BY <1>o, <2>1
      <4>1. dnForm' # D!None \/ dnHere' => dnTab = "actions" BY <3>1 DEF OwedKept
      <4>2. dnOwed # D!Nowhere /\ dnOwed.tab = dnTab => dnFocus.node = dnOwed.node /\ dnFocus # D!NoFocus
        BY <2>1, <2>2 DEF OwedKept, D!NoFocus
      <4>3. CASE dnNav.focus = dnUrl.focus
        <5>1. dnFocus' = dnFocus BY <3>1, <4>3
        <5> QED BY <2>1, <2>2, <3>1, <4>1, <4>2, <4>3, <5>1 DEF OwedKept
      <4>4. CASE dnNav.focus # dnUrl.focus
        <5>1. dnFocus = D!NoFocus BY <2>1, <4>4 DEF OwedKept
        <5>2. dnFocus' = D!FocusFor(dnTab, dnNav, D!NoFocus) BY <3>1, <4>4, <5>1
        <5>3. ~(dnOwed # D!Nowhere /\ dnOwed.tab = dnTab) BY <4>2, <5>1
        <5>4. dnNav.focus \in {D!None, dnOwed.node} BY <2>1 DEF OwedKept
        <5>5. dnStore = dnOwed BY DEF OwedKept
        <5>6. CASE dnTab \in D!Preserving /\ dnNav.focus # D!None
          <6>1. dnFocus' = [node |-> dnNav.focus, source |-> "query"] BY <5>2, <5>6 DEF D!FocusFor
          <6> QED BY <2>1, <2>2, <3>1, <4>1, <5>3, <5>4, <5>6, <6>1 DEF OwedKept, D!None
        <5>7. CASE ~(dnTab \in D!Preserving /\ dnNav.focus # D!None)
          <6>1. CASE dnFocus' = D!NoFocus
            BY <2>1, <2>2, <3>1, <4>1, <5>3, <5>4, <6>1 DEF OwedKept, D!NoFocus, D!None
          <6>2. CASE dnFocus' # D!NoFocus
            <7>1. dnFocus' = [node |-> dnOwed.node, source |-> "storage"] /\ dnNav.focus = D!None
              BY <2>1, <5>2, <5>5, <5>7, <6>2 DEF D!FocusFor
            <7> QED BY <2>1, <2>2, <3>1, <4>1, <5>3, <5>4, <7>1 DEF OwedKept, D!None
          <6> QED BY <6>1, <6>2
        <5> QED BY <5>6, <5>7
      <4> QED BY <4>3, <4>4
    <3> QED BY <3>3, <3>4 DEF NavKept
  <2>3. CASE dnNav.tab # dnTab
    <3>1. D!Mounted(dnNav.tab, dnNav) BY <2>1, <2>3
    <3>2. NavTypes' BY <1>t, <1>m, <2>1, <3>1 DEF NavTypes
    <3>3. ~dnCrossed' => OwedKept'
      <4> SUFFICES ASSUME OwedKept PROVE OwedKept'
        BY <1>o, <2>1
      <4>1. dnNav.focus \in {D!None, dnOwed'.node} BY <2>1 DEF OwedKept
      <4> QED BY <1>t, <2>1, <3>1, <4>1, MountKeeps DEF OwedKept
    <3> QED BY <3>2, <3>3 DEF NavKept
  <2> QED BY <2>2, <2>3
<1>3. ASSUME NEW n \in DnNodes \cup {D!None}, D!ShowNode(n) PROVE NavKept'
  <2>1. UNCHANGED <<dnUrl, dnNav, dnTab, dnForm, dnFocus, dnStore, dnSent, dnHere, dnOwed, dnCrossed>> /\ dnShown' = n
    BY <1>3 DEF D!ShowNode
  <2> QED BY <1>t, <1>o, <2>1 DEF NavKept, NavTypes, OwedKept, Latest
<1>4. ASSUME NEW action \in DnActions, D!Launch(action) PROVE NavKept'
  <2> DEFINE origin == dnUrl.tab
             preserve == origin \in D!Preserving
             place == IF preserve THEN D!Place(dnShown, origin) ELSE D!Nowhere
             url == D!Url("actions", action, origin, IF preserve THEN dnShown ELSE D!None)
  <2>1. /\ dnShown # D!None /\ dnNav' = url /\ dnStore' = place /\ dnOwed' = place
        /\ dnCrossed' = (dnCrossed \/ dnFocus # D!NoFocus)
        /\ UNCHANGED <<dnUrl, dnTab, dnForm, dnFocus, dnShown, dnHere, dnSent>>
    BY <1>4 DEF D!Launch
  <2>2. origin \in DnTabs BY <1>t, UrlsAre
  <2>3. place \in D!Places BY <1>t, <1>p, <2>2
  <2>4. url \in D!Urls /\ url.tab = "actions" /\ url.focus = IF preserve THEN dnShown ELSE D!None
    BY <1>t, <2>2, NavigationAssumption DEF D!Url, D!Urls
  <2>5. place # D!Nowhere => place.tab \in D!Preserving /\ place.node # D!None /\ place.tab = dnUrl.tab
    BY <2>1 DEF D!Place
  <2>6. url.focus \in {D!None, place.node} BY <2>4 DEF D!Place
  <2> HIDE DEF place, url
  <2>7. Latest' = url BY <2>1, <2>4, UrlsAre DEF Latest
  <2>8. NavTypes' BY <1>t, <2>1, <2>3, <2>4 DEF NavTypes
  <2>9. ~dnCrossed' => OwedKept'
    <3> SUFFICES ASSUME ~dnCrossed' PROVE OwedKept'
      OBVIOUS
    <3>1. OwedKept /\ dnFocus = D!NoFocus BY <1>o, <2>1
    <3>2. place # D!Nowhere => dnTab' # Latest'.tab
      BY <2>1, <2>4, <2>5, <2>7, <3>1 DEF OwedKept, D!Preserving
    <3> QED BY <2>1, <2>5, <2>6, <2>7, <3>1, <3>2 DEF OwedKept, D!NoFocus, D!None
  <2> QED BY <2>8, <2>9 DEF NavKept
<1>5. ASSUME NEW action \in DnActions, D!ClickCard(action) PROVE NavKept'
  <2>1. /\ dnTab = "actions" /\ dnForm' = action
        /\ UNCHANGED <<dnUrl, dnNav, dnTab, dnFocus, dnShown, dnStore, dnSent, dnHere, dnOwed, dnCrossed>>
    BY <1>5 DEF D!ClickCard
  <2>2. NavTypes' BY <1>t, <2>1 DEF NavTypes
  <2>3. ~dnCrossed' => OwedKept' BY <1>o, <2>1 DEF OwedKept, Latest
  <2> QED BY <2>2, <2>3 DEF NavKept
<1>6. CASE D!Cancel
  <2>1. /\ dnForm # D!None /\ dnForm' = D!FormLeft /\ D!Navigate(dnUrl, D!ClearedUrl(dnUrl))
        /\ UNCHANGED <<dnUrl, dnTab, dnFocus, dnShown, dnStore, dnSent, dnHere, dnOwed>>
    BY <1>6 DEF D!Cancel
  <2>2. D!ClearedUrl(dnUrl) \in D!Urls /\ D!ClearedUrl(dnUrl).focus = dnUrl.focus
    BY <1>t, UrlsAre
  <2>3. /\ dnNav' = D!ClearedUrl(dnUrl) /\ Latest' = D!ClearedUrl(dnUrl) /\ dnCrossed' \in BOOLEAN
        /\ ~dnCrossed' => ~dnCrossed /\ dnUrl = Latest
    BY <1>t, <2>1, <2>2, NavigateKeeps
  <2>4. dnForm' \in DnActions \cup {D!None} BY <1>t, <2>1, UrlsAre DEF D!FormLeft
  <2>5. NavTypes' BY <1>t, <2>1, <2>2, <2>3, <2>4 DEF NavTypes
  <2>6. ~dnCrossed' => OwedKept'
    <3> SUFFICES ASSUME ~dnCrossed' PROVE OwedKept'
      OBVIOUS
    <3>1. OwedKept /\ dnUrl = Latest BY <1>o, <2>3
    <3>2. dnTab = "actions" /\ Latest'.focus = Latest.focus BY <2>1, <2>2, <2>3, <3>1 DEF OwedKept
    <3> QED BY <2>1, <3>1, <3>2, StayKeeps
  <2> QED BY <2>5, <2>6 DEF NavKept
<1>7. CASE D!Start
  <2>1. /\ dnForm # D!None /\ dnSent' = dnUrl /\ dnHere' = TRUE
        /\ UNCHANGED <<dnUrl, dnNav, dnTab, dnForm, dnFocus, dnShown, dnStore, dnOwed, dnCrossed>>
    BY <1>7 DEF D!Start
  <2>2. NavTypes' BY <1>t, <2>1 DEF NavTypes
  <2>3. ~dnCrossed' => OwedKept' BY <1>o, <2>1 DEF OwedKept, Latest
  <2> QED BY <2>2, <2>3 DEF NavKept
<1>8. CASE D!Sent
  <2>1. /\ dnSent # D!NoUrl /\ dnSent' = D!NoUrl /\ dnForm' = (IF dnHere THEN D!FormLeft ELSE dnForm) /\ dnHere' = FALSE
        /\ D!Navigate(IF dnHere THEN dnSent ELSE D!NoUrl, D!ClearedUrl(dnSent))
        /\ UNCHANGED <<dnUrl, dnTab, dnFocus, dnShown, dnStore, dnOwed>>
    BY <1>8 DEF D!Sent
  <2>2. D!ClearedUrl(dnSent) \in D!Urls /\ D!ClearedUrl(dnSent).focus = dnSent.focus
    BY <1>t, <2>1, UrlsAre
  <2>3. /\ dnNav' = D!ClearedUrl(dnSent) /\ Latest' = D!ClearedUrl(dnSent) /\ dnCrossed' \in BOOLEAN
        /\ ~dnCrossed' => ~dnCrossed /\ (IF dnHere THEN dnSent ELSE D!NoUrl) = Latest
    BY <1>t, <2>1, <2>2, NavigateKeeps
  <2>4. dnForm' \in DnActions \cup {D!None} BY <1>t, <2>1, UrlsAre DEF D!FormLeft
  <2>5. NavTypes' BY <1>t, <2>1, <2>2, <2>3, <2>4 DEF NavTypes
  <2>6. ~dnCrossed' => OwedKept'
    <3> SUFFICES ASSUME ~dnCrossed' PROVE OwedKept'
      OBVIOUS
    <3>1. OwedKept /\ dnHere /\ dnSent = Latest BY <1>l, <1>o, <2>3
    <3>2. dnTab = "actions" /\ Latest'.focus = Latest.focus BY <2>2, <2>3, <3>1 DEF OwedKept
    <3> QED BY <2>1, <3>1, <3>2, StayKeeps
  <2> QED BY <2>5, <2>6 DEF NavKept
<1>9. CASE D!SendFails
  <2>1. /\ dnSent' = D!NoUrl /\ dnHere' = FALSE
        /\ UNCHANGED <<dnUrl, dnNav, dnTab, dnForm, dnFocus, dnShown, dnStore, dnOwed, dnCrossed>>
    BY <1>9 DEF D!SendFails
  <2>2. NavTypes' BY <1>t, <2>1 DEF NavTypes
  <2>3. ~dnCrossed' => OwedKept' BY <1>o, <2>1 DEF OwedKept, Latest
  <2> QED BY <2>2, <2>3 DEF NavKept
<1>10. CASE D!FocusDone
  <2>1. /\ dnFocus # D!NoFocus /\ dnFocus' = D!NoFocus /\ dnShown' \in {dnFocus.node, dnShown}
        /\ dnStore' = D!Nowhere /\ dnOwed' = D!Nowhere
        /\ UNCHANGED <<dnUrl, dnTab, dnForm, dnSent, dnHere>>
    BY <1>10 DEF D!FocusDone
  <2>2. dnShown' \in DnNodes \cup {D!None} BY <1>t, <2>1
  <2>3. D!Nowhere.node = D!None /\ D!NoFocus.source # "storage"
    BY DEF D!Nowhere, D!Place, D!NoFocus, D!None
  <2>4. CASE dnFocus.source = "query" /\ dnUrl.focus # D!None
    <3>1. D!Navigate(dnUrl, D!WithoutFocus) BY <1>10, <2>4 DEF D!FocusDone
    <3>2. D!WithoutFocus \in D!Urls /\ D!WithoutFocus.focus = D!None BY <1>t, MoreUrls
    <3>3. /\ dnNav' = D!WithoutFocus /\ Latest' = D!WithoutFocus /\ dnCrossed' \in BOOLEAN
          /\ ~dnCrossed' => ~dnCrossed
      BY <1>t, <3>1, <3>2, NavigateKeeps
    <3>4. NavTypes' BY <1>t, <1>n, <1>p, <2>1, <2>2, <3>2, <3>3 DEF NavTypes
    <3>5. ~dnCrossed' => OwedKept' BY <1>o, <2>1, <2>3, <3>2, <3>3 DEF OwedKept
    <3> QED BY <3>4, <3>5 DEF NavKept
  <2>5. CASE ~(dnFocus.source = "query" /\ dnUrl.focus # D!None)
    <3>1. UNCHANGED <<dnNav, dnCrossed>> BY <1>10, <2>5 DEF D!FocusDone
    <3>2. NavTypes' BY <1>t, <1>n, <1>p, <2>1, <2>2, <3>1 DEF NavTypes
    <3>3. ~dnCrossed' => OwedKept'
      <4> SUFFICES ASSUME OwedKept PROVE OwedKept'
        BY <1>o, <3>1
      <4>1. Latest' = Latest BY <2>1, <3>1 DEF Latest
      <4>2. dnFocus.source \in {"query", "storage"} BY <1>t, <2>1 DEF OwedKept
      <4>3. dnUrl.focus = D!None BY <2>5, <4>2 DEF OwedKept
      <4>4. Latest.focus = D!None BY <2>1, <4>3 DEF OwedKept
      <4> QED BY <2>1, <2>3, <4>1, <4>4 DEF OwedKept
    <3> QED BY <3>2, <3>3 DEF NavKept
  <2> QED BY <2>4, <2>5
<1>11. ASSUME NEW url \in D!Urls, url \in {dnUrl, D!Home}, D!Enter(url) PROVE NavKept'
  <2>1. /\ dnUrl' = url /\ dnNav' = D!NoUrl /\ dnSent' = D!NoUrl /\ dnCrossed' = (dnCrossed \/ dnNav # D!NoUrl)
        /\ UNCHANGED <<dnStore, dnOwed>> /\ D!Mounted(url.tab, url)
    BY <1>11 DEF D!Enter
  <2>2. NavTypes' BY <1>t, <1>m, <2>1 DEF NavTypes
  <2>3. ~dnCrossed' => OwedKept'
    <3> SUFFICES ASSUME OwedKept, dnNav = D!NoUrl PROVE OwedKept'
      BY <1>o, <2>1
    <3>1. url.focus \in {D!None, dnOwed'.node} BY <1>11, <2>1, MoreUrls DEF OwedKept, Latest
    <3>2. Latest'.focus = url.focus BY <2>1 DEF Latest
    <3> QED BY <1>t, <2>1, <3>1, <3>2, MountKeeps DEF OwedKept
  <2> QED BY <2>2, <2>3 DEF NavKept
<1>12. CASE UNCHANGED D!dnVars
  BY <1>12, <1>t, <1>o DEF D!dnVars, NavKept, NavTypes, OwedKept, Latest
<1> QED
  BY <1>1, <1>2, <1>3, <1>4, <1>5, <1>6, <1>7, <1>8, <1>9, <1>10, <1>11, <1>12, <1>t, MoreUrls
  DEF D!DnNext

\* What is pending is owed; and under a settled address what is owed is pending.
LEMMA GivenBackOnce ==
  ASSUME NavKept, ~dnCrossed
  PROVE  D!OwedNodeShown /\ D!OwedIsPending
<1>1. OwedKept BY DEF NavKept
<1>2. D!OwedNodeShown BY <1>1 DEF OwedKept, D!OwedNodeShown, D!FocusDone
<1>3. D!OwedIsPending BY <1>1 DEF OwedKept, D!OwedIsPending, Latest
<1> QED BY <1>2, <1>3

-----------------------------------------------------------------------------
(* The five parts together.                                                *)

FormsKept == SvcKept /\ PageKept /\ RefsKept /\ NamesKept /\ NavKept

LEMMA FormsInit == Init => FormsKept
  BY SvcInitKept, PageInit, ChannelInit, OneShotInit, NavInit DEF Init, FormsKept

\* Every step is one of one part, and leaves the others as they are.
LEMMA StepOfParts ==
  [Next]_vars => /\ [S!SvcNext]_S!svcVars /\ [P!PjNext]_P!pjVars /\ [C!CfNext]_C!cfVars
                 /\ [O!OsNext]_O!osVars /\ [D!DnNext]_D!dnVars
<1> USE DEF services, periodic, channel, oneshot, navigation,
            S!svcVars, P!pjVars, C!cfVars, O!osVars, D!dnVars
<1>1. CASE S!SvcNext /\ UNCHANGED <<part, periodic, channel, oneshot, navigation>> BY <1>1
<1>2. CASE P!PjNext /\ UNCHANGED <<part, services, channel, oneshot, navigation>> BY <1>2
<1>3. CASE C!CfNext /\ UNCHANGED <<part, services, periodic, oneshot, navigation>> BY <1>3
<1>4. CASE O!OsNext /\ UNCHANGED <<part, services, periodic, channel, navigation>> BY <1>4
<1>5. CASE D!DnNext /\ UNCHANGED <<part, services, periodic, channel, oneshot>> BY <1>5
<1>6. CASE UNCHANGED vars BY <1>6 DEF vars
<1> QED BY <1>1, <1>2, <1>3, <1>4, <1>5, <1>6 DEF Next

LEMMA FormsStep == FormsKept /\ [Next]_vars => FormsKept'
  BY StepOfParts, SvcStep, PageStep, ChannelStep, OneShotStep, NavStep DEF FormsKept

LEMMA FormsAlways == Spec => []FormsKept
  BY FormsInit, FormsStep, PTL DEF Spec

\* Every form, every request in flight and every address is of its type.
THEOREM FormsTypeCorrect == Spec => []FormsTypeOK
<1>1. FormsKept => FormsTypeOK
  BY SvcTyped, PageTyped, NavTyped
  DEF FormsKept, FormsTypeOK, SvcKept, PageKept, RefsKept, NamesKept, NavKept
<1> QED BY <1>1, FormsAlways, PTL

\* A service form that was not touched since its last answer shows what the server
\* holds, if its requests ran one at a time and none failed.
THEOREM SettledFormShowsConfig == Spec => []SettledFormIsConfig
<1>1. FormsKept => SettledFormIsConfig
  BY SettledShown DEF FormsKept, SettledFormIsConfig
<1> QED BY <1>1, FormsAlways, PTL

\* The list of periodic jobs is the server's when nothing is in flight, none failed
\* and none overtook an older one; and no form goes on holding a job that was
\* deleted while it was shown.
THEOREM JobsPageAlwaysTrue == Spec => []JobsPageIsTrue
<1>1. FormsKept => JobsPageIsTrue
  BY PageIsTrue DEF FormsKept, JobsPageIsTrue
<1> QED BY <1>1, FormsAlways, PTL

\* A new job is sent a second time from the same form only after a refusal, or after
\* an answer to it was lost.
THEOREM NoJobSentTwice == Spec => NoTwinJobs
<1> DEFINE First == \A i \in PjSlots :
                      /\ pjReq[i] = P!Idle /\ pjReq'[i].kind = "save" /\ pjReq'[i].id = P!NewJob
                      => pjDraft # "sent"
<1>1. FormsKept /\ [Next]_vars => [First]_P!pjVars
  <2> SUFFICES ASSUME FormsKept, [Next]_vars,
                      NEW n \in PjSlots, pjReq[n] = P!Idle, pjReq'[n].kind = "save"
               PROVE  pjDraft # "sent"
    OBVIOUS
  <2>1. PageTypes /\ RequestsKept /\ DraftKept /\ [P!PjNext]_P!pjVars
    BY StepOfParts DEF FormsKept, PageKept
  <2> QED BY <2>1, SaveIsFirst
<1> QED BY <1>1, FormsAlways, PTL DEF Spec, NoTwinJobs, P!NoTwinJobs

\* The switch turned on and off again gives back the name and the key of the moment
\* it was turned on, unless another job was shown in between.
THEOREM PkiGivesBack == Spec => PkiRoundTrip
<1> DEFINE Back == C!UncheckPki /\ cfRefs # C!NoRefs /\ ~cfMoved
                     => cfName' = cfBefore.name /\ cfKey' = cfBefore.key
<1>1. FormsKept /\ [Next]_vars => [Back]_C!cfVars
  <2> SUFFICES ASSUME RefsKept, C!UncheckPki, cfRefs # C!NoRefs, ~cfMoved
               PROVE  cfName' = cfBefore.name /\ cfKey' = cfBefore.key
    BY DEF FormsKept
  <2>1. cfRefs.name # C!Null /\ cfRefs.key # C!Null /\ cfRefs = cfBefore BY DEF RefsKept
  <2> QED BY <2>1 DEF C!UncheckPki, C!Shown
<1> QED BY <1>1, FormsAlways, PTL DEF Spec, PkiRoundTrip, C!PkiRoundTrip

\* A one-shot form holds a source the server would publish from, and the names of a
\* node-info form are those of that source unless somebody typed others.
THEOREM SourceAlwaysConsistent == Spec => []SourceConsistent
<1>1. FormsKept => SourceConsistent
  BY NamesAreOfSource DEF FormsKept, SourceConsistent
<1> QED BY <1>1, FormsAlways, PTL

\* The node a user started an action from is given back when its panel is shown
\* again, and once only.
THEOREM FocusAlwaysGivenBack == Spec => FocusGivenBackOnce
<1>1. FormsKept /\ [Next]_vars => [~dnCrossed => D!OwedNodeShown /\ D!OwedIsPending]_D!dnVars
  BY GivenBackOnce DEF FormsKept
<1> QED BY <1>1, FormsAlways, PTL DEF Spec, FocusGivenBackOnce, D!FocusGivenBackOnce
=============================================================================
