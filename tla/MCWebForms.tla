----------------------------- MODULE MCWebForms -----------------------------
(***************************************************************************)
(* The forms of the actions panel of the web client, and the navigation    *)
(* that leads to the panel and back.  They share no state: a behaviour     *)
(* follows one of them, and the others stay as they begin.                 *)
(***************************************************************************)
EXTENDS Integers

CONSTANTS
  Names, Approved, Ports, InitialPorts, StoredLimits, SvcSlots,
  MaxJobs, PjSlots,
  Channels, Keyed, MaxLooks,
  OsActions, Nodes, Foreign, Selectable, Telling, MaxSends,
  DnNodes, DnActions, DnTabs

VARIABLES
  part,
  svc, svcField, svcOpen, svcForm, svcLoading, svcSaving, svcReq, svcConfig, svcListed, svcEdited, svcTrusted,
  pjOpen, pjForm, pjList, pjLoading, pjSaving, pjDeleting, pjToggling, pjReq, pjJobs, pjCreated,
  pjTrusted, pjOlder, pjHeld, pjDraft,
  cfHost, cfName, cfKey, cfPki, cfRefs, cfLooks, cfStored, cfSent, cfBefore, cfMoved,
  osAction, osSource, osObj, osTarget, osAck, osNames, osValues, osListed, osSelect, osAddress,
  osClearing, osSending, osStored, osTyped,
  dnUrl, dnNav, dnTab, dnForm, dnFocus, dnShown, dnStore, dnSent, dnHere, dnOwed, dnCrossed

services == <<svc, svcField, svcOpen, svcForm, svcLoading, svcSaving, svcReq, svcConfig, svcListed,
              svcEdited, svcTrusted>>
periodic == <<pjOpen, pjForm, pjList, pjLoading, pjSaving, pjDeleting, pjToggling, pjReq, pjJobs,
              pjCreated, pjTrusted, pjOlder, pjHeld, pjDraft>>
channel == <<cfHost, cfName, cfKey, cfPki, cfRefs, cfLooks, cfStored, cfSent, cfBefore, cfMoved>>
oneshot == <<osAction, osSource, osObj, osTarget, osAck, osNames, osValues, osListed, osSelect,
             osAddress, osClearing, osSending, osStored, osTyped>>
navigation == <<dnUrl, dnNav, dnTab, dnForm, dnFocus, dnShown, dnStore, dnSent, dnHere, dnOwed, dnCrossed>>

\* Numbers typed in a form: below, at and above the least one.
Limits == {-1, 0, 2}

S == INSTANCE ServiceForms
P == INSTANCE PeriodicForm
C == INSTANCE ChannelFields
O == INSTANCE OneShotForm
D == INSTANCE DashboardNavigation

\* What can be typed or chosen is not what stands for nothing.
ASSUME ServicesAssumption == InitialPorts \subseteq Ports /\ StoredLimits \subseteq Int
ASSUME PeriodicAssumption == MaxJobs \in Nat
ASSUME ChannelAssumption == C!Null \notin Channels \cup Keyed /\ MaxLooks \in Nat
ASSUME OneShotAssumption == O!Unset \notin Nodes /\ Selectable \subseteq Nodes /\ MaxSends \in Nat
ASSUME NavigationAssumption ==
  /\ D!None \notin DnNodes \cup DnActions \cup DnTabs
  /\ {"overview", "actions"} \subseteq DnTabs

vars == <<part, services, periodic, channel, oneshot, navigation>>

\* A part that is not followed begins in one state.
Init ==
  /\ part \in {"services", "periodic", "channel", "oneshot", "navigation"}
  /\ S!SvcInit /\ P!PjInit /\ C!CfInit /\ O!OsInit /\ D!DnInit
  /\ part # "services" => svc = "reactive" /\ svcField = "limit" /\ svcConfig.limit = 0
  /\ part # "channel" => cfHost = "oneshot"

Next ==
  \/ part = "services" /\ S!SvcNext /\ UNCHANGED <<part, periodic, channel, oneshot, navigation>>
  \/ part = "periodic" /\ P!PjNext /\ UNCHANGED <<part, services, channel, oneshot, navigation>>
  \/ part = "channel" /\ C!CfNext /\ UNCHANGED <<part, services, periodic, oneshot, navigation>>
  \/ part = "oneshot" /\ O!OsNext /\ UNCHANGED <<part, services, periodic, channel, navigation>>
  \/ part = "navigation" /\ D!DnNext /\ UNCHANGED <<part, services, periodic, channel, oneshot>>

Spec == Init /\ [][Next]_vars

\* The requests of the part followed come to an end; those of the others never begin.
FairSpec == Spec /\ S!SvcFair /\ P!PjFair

\* The types of the five parts' states.
FormsTypeOK == S!SvcTypeOK /\ P!PjTypeOK /\ C!CfTypeOK /\ O!OsTypeOK /\ D!DnTypeOK

\* A service form nobody touched since its last answer shows what the server
\* holds, in the form's units, if its requests ran one at a time and none failed:
\* neither what the server clamps nor what it keeps is lost on the user.
SettledFormIsConfig == S!SettledFormIsConfig

\* When no request is in flight the list of periodic jobs is the server's, if none
\* failed and no list overtook an older one; and the form does not go on
\* holding a job that was deleted while it was shown.
JobsPageIsTrue == P!ListIsServer /\ P!FormOfLiveJob

\* A new job that was sent is not sent again from the same form, unless it was refused
\* or the answer that it was created was lost: then a second send makes a twin.
NoTwinJobs == P!NoTwinJobs

\* The PKI switch turned on and off again gives back the name and the key of the
\* moment it was turned on, unless another job was shown in between.
PkiRoundTrip == C!PkiRoundTrip

\* A one-shot form holds a source the server would publish from, and the names of
\* a node-info form are those of that source unless somebody typed others.
SourceConsistent == O!SourceAllowed /\ O!NamesOfSource

\* The node a user started an action from is given back when its panel is shown
\* again, and once only.
FocusGivenBackOnce == D!FocusGivenBackOnce

\* No form stays behind its spinner, and no button disabled.
FormsReady == S!ServiceFormsReady /\ P!PeriodicReady
=============================================================================
