---------------------------- MODULE ServiceForms ----------------------------
(***************************************************************************)
(* The settings forms of the two publishing services of the web client,    *)
(* reactive discovery and keepalive.  A form is filled by a load when it   *)
(* is opened, edited, and sent by a save whose answer fills it again.       *)
(* Nothing cancels a load or a save: one that is late lands in whatever    *)
(* the form holds by then.                                                 *)
(*                                                                         *)
(* The two forms share no state but the place they are shown in, and every *)
(* step treats the fields of a form one by one: a behaviour follows one    *)
(* form and one of its fields.  There is a field of each kind: source, an  *)
(* optional node name; limit, a number the form clamps or shows in another *)
(* unit; ports, a list, whose empty value the reactive form replaces.       *)
(***************************************************************************)
EXTENDS Integers

CONSTANTS Names,        \* node names a source can be typed as
          Approved,     \* nodes the server lets a client publish from
          Ports,        \* values of a trigger-port checkbox
          InitialPorts, \* the ports of the form before any load
          Limits,       \* what the user types in a number field
          StoredLimits, \* limits another client may have stored
          SvcSlots      \* bound on requests in flight together

NoName == ""

VARIABLES
  svc,         \* the service: reactive or keepalive
  svcField,    \* the field followed
  svcOpen,     \* the form is shown
  svcForm,     \* what it holds
  svcLoading,  \* reactiveLoading or keepaliveLoading
  svcSaving,   \* reactiveSaving or keepaliveSaving
  svcReq,      \* requests in flight
  svcConfig,   \* the server's configuration
  svcListed,   \* the lists of nodes have arrived
  svcEdited,   \* history: the form was changed after the last answer
  svcTrusted   \* history: the requests since the last lone one ran one at a time and succeeded

svcVars == <<svc, svcField, svcOpen, svcForm, svcLoading, svcSaving, svcReq, svcConfig,
             svcListed, svcEdited, svcTrusted>>
kind == <<svc, svcField>>

\* INITIAL_REACTIVE_FORM and INITIAL_KEEPALIVE_FORM.
InitialForm(s) ==
  [source |-> NoName, limit |-> IF s = "reactive" THEN 0 ELSE 60,
   ports |-> IF s = "reactive" THEN InitialPorts ELSE {}]

Free == [kind |-> "none", served |-> FALSE, body |-> InitialForm("reactive")]
Quiet == \A i \in SvcSlots : svcReq[i] = Free

FormFields == [source : Names \cup {NoName}, limit : Int, ports : SUBSET Ports]

SvcTypeOK ==
  /\ svc \in {"reactive", "keepalive"} /\ svcField \in {"source", "limit", "ports"}
  /\ svcForm \in FormFields /\ svcConfig \in FormFields
  /\ svcReq \in [SvcSlots -> [kind : {"load", "save", "none"}, served : BOOLEAN, body : FormFields]]
  /\ {svcOpen, svcLoading, svcSaving, svcListed, svcEdited, svcTrusted} \subseteq BOOLEAN

-----------------------------------------------------------------------------
(* The conversions.  The keepalive form counts minutes, its configuration  *)
(* seconds.                                                                *)

AtLeast(low, n) == IF n < low THEN low ELSE n
Minutes(seconds) == AtLeast(1, ((IF seconds = 0 THEN 3600 ELSE seconds) + 30) \div 60)

\* Mutant: an answer is shown in the server's unit
FormInServerUnits(s, cfg) ==
  IF s = "keepalive" THEN cfg
  ELSE [cfg EXCEPT !.ports = IF @ = {} THEN InitialPorts ELSE @]

\* The form made of an answer: the number in the form's unit; no ports, the initial ones.
FormOf(s, cfg) ==
  IF s = "keepalive" THEN [cfg EXCEPT !.limit = Minutes(@)]
  ELSE [cfg EXCEPT !.ports = IF @ = {} THEN InitialPorts ELSE @]

\* The body of a save of the reactive settings, and of the keepalive's.
ReactivePayload(form) == [form EXCEPT !.limit = AtLeast(0, @)]
KeepalivePayload(form) == [form EXCEPT !.limit = AtLeast(60, @ * 60)]

\* The server: an absent source leaves a reactive source as it is, and clears a keepalive's.
Stored(body) ==
  IF svc = "reactive" /\ body.source = NoName THEN [body EXCEPT !.source = svcConfig.source] ELSE body

-----------------------------------------------------------------------------
(* Requests.                                                               *)

\* A request taken into a free slot; one issued beside another is not alone.
Issue(what, body) ==
  /\ \E i \in SvcSlots :
       /\ svcReq[i] = Free
       /\ svcReq' = [svcReq EXCEPT ![i] = [kind |-> what, served |-> FALSE, body |-> body]]
  /\ svcTrusted' = Quiet

\* The server answers: a save replaces the configuration, both return it.
Serve(i) ==
  LET r == svcReq[i]
      after == IF r.kind = "save" THEN Stored(r.body) ELSE svcConfig
  IN  /\ r # Free /\ ~r.served
      /\ svcConfig' = after
      /\ svcReq' = [svcReq EXCEPT ![i].served = TRUE, ![i].body = after]
      /\ UNCHANGED <<kind, svcOpen, svcForm, svcLoading, svcSaving, svcListed, svcEdited, svcTrusted>>

\* Mutant: the flag of a save is cleared nowhere but in its answer's own branch
FinishedLoad(r) ==
  /\ svcLoading' = (svcLoading /\ r.kind # "load")
  /\ svcSaving' = svcSaving

\* The finally block of a request clears its flag.
Finished(r) ==
  /\ svcLoading' = (svcLoading /\ r.kind # "load")
  /\ svcSaving' = (svcSaving /\ r.kind # "save")

\* An answer replaces the form, whatever it holds by now.
Answer(i) ==
  /\ svcReq[i].served
  /\ svcForm' = FormOf(svc, svcReq[i].body)
  /\ Finished(svcReq[i])
  /\ svcReq' = [svcReq EXCEPT ![i] = Free]
  /\ svcEdited' = FALSE
  /\ UNCHANGED <<kind, svcOpen, svcConfig, svcListed, svcTrusted>>

\* A refusal, or an answer that is lost: a toast, and the form stays as it is.
Fail(i) ==
  /\ svcReq[i] # Free
  /\ Finished(svcReq[i])
  /\ svcReq' = [svcReq EXCEPT ![i] = Free]
  /\ svcTrusted' = FALSE
  /\ UNCHANGED <<kind, svcOpen, svcForm, svcConfig, svcListed, svcEdited>>

-----------------------------------------------------------------------------
(* The forms.                                                              *)

\* The effect of opening the reactive form loads its status ...
OpenReactive ==
  /\ svc = "reactive" /\ ~svcOpen /\ svcOpen' = TRUE
  /\ svcLoading' = TRUE /\ Issue("load", InitialForm("reactive"))
  /\ UNCHANGED <<kind, svcForm, svcSaving, svcConfig, svcListed, svcEdited>>

\* ... and that of the keepalive form its status and last transitions, together.
OpenKeepalive ==
  /\ svc = "keepalive" /\ ~svcOpen /\ svcOpen' = TRUE
  /\ svcLoading' = TRUE /\ Issue("load", InitialForm("reactive"))
  /\ UNCHANGED <<kind, svcForm, svcSaving, svcConfig, svcListed, svcEdited>>

\* The arrow of either form, and the cancel button of the reactive one.
CloseService ==
  /\ svcOpen /\ svcOpen' = FALSE
  /\ UNCHANGED <<kind, svcForm, svcLoading, svcSaving, svcReq, svcConfig, svcListed, svcEdited, svcTrusted>>

\* The controls of a form are there while it is open and not loading; a save hides none.
Edit(s, field, form) ==
  /\ svc = s /\ svcField = field /\ svcOpen /\ ~svcLoading
  /\ svcForm' = form /\ svcEdited' = TRUE
  /\ UNCHANGED <<kind, svcOpen, svcLoading, svcSaving, svcReq, svcConfig, svcListed, svcTrusted>>

\* Source and gateway of the reactive form: typed, or chosen from the suggestions.
TypeReactiveSource(n) == Edit("reactive", "source", [svcForm EXCEPT !.source = n])

\* The checkboxes of the trigger ports, and their select-all button ...
ToggleReactivePort(p) ==
  Edit("reactive", "ports", [svcForm EXCEPT !.ports = IF p \in @ THEN @ \ {p} ELSE @ \cup {p}])
ToggleAllPorts == Edit("reactive", "ports", [svcForm EXCEPT !.ports = IF @ = Ports THEN {} ELSE Ports])

\* ... and the numbers, of which max_tries is clamped while it is typed.
TypeReactiveLimit(n) == Edit("reactive", "limit", [svcForm EXCEPT !.limit = AtLeast(0, n)])

\* The nodes a keepalive is limited to, as far as it is.
ToggleKeepaliveNode(p) ==
  Edit("keepalive", "ports", [svcForm EXCEPT !.ports = IF p \in @ THEN @ \ {p} ELSE @ \cup {p}])

\* The node names of the keepalive form, and its numbers, for which 0 counts as empty.
TypeKeepaliveSource(n) == Edit("keepalive", "source", [svcForm EXCEPT !.source = n])
TypeKeepaliveMinutes(n) == Edit("keepalive", "limit", [svcForm EXCEPT !.limit = IF n = 0 THEN 1 ELSE n])

\* A save button is disabled while its save is in flight.
SaveReactive ==
  /\ svc = "reactive" /\ svcOpen /\ ~svcLoading /\ ~svcSaving
  /\ svcSaving' = TRUE /\ Issue("save", ReactivePayload(svcForm))
  /\ UNCHANGED <<kind, svcOpen, svcForm, svcLoading, svcConfig, svcListed, svcEdited>>

SaveKeepalive ==
  /\ svc = "keepalive" /\ svcOpen /\ ~svcLoading /\ ~svcSaving
  /\ svcSaving' = TRUE /\ Issue("save", KeepalivePayload(svcForm))
  /\ UNCHANGED <<kind, svcOpen, svcForm, svcLoading, svcConfig, svcListed, svcEdited>>

\* The lists of nodes arrive: the reactive form loses a source that is not on the
\* server's list, if that list restricts anything.  A later form is not looked at.
ListsForReactive ==
  /\ svc = "reactive" /\ ~svcListed /\ svcListed' = TRUE
  /\ LET restricted == Approved # {} /\ Approved # Names
         bad == restricted /\ svcForm.source \notin Approved \cup {NoName}
     IN  /\ svcForm' = [svcForm EXCEPT !.source = IF bad THEN NoName ELSE @]
         /\ svcEdited' = (svcEdited \/ bad)
  /\ UNCHANGED <<kind, svcOpen, svcLoading, svcSaving, svcReq, svcConfig, svcTrusted>>

-----------------------------------------------------------------------------
\* A configuration another client may have left, in the field followed.
StoredConfig ==
  {[InitialForm(svc) EXCEPT !.source = n, !.limit = IF svc = "keepalive" THEN 60 * @ ELSE @] :
     n \in IF svcField = "source" THEN Names \cup {NoName} ELSE {NoName}}
  \cup {[InitialForm(svc) EXCEPT !.limit = n] : n \in IF svcField = "limit" THEN StoredLimits ELSE {}}
  \cup {[InitialForm(svc) EXCEPT !.ports = P] :
     P \in IF svcField = "ports" THEN SUBSET Ports ELSE {}}

SvcInit ==
  /\ svc \in {"reactive", "keepalive"} /\ svcField \in {"source", "limit", "ports"}
  /\ svcConfig \in StoredConfig
  /\ svcForm = InitialForm(svc)
  /\ svcOpen = FALSE /\ svcLoading = FALSE /\ svcSaving = FALSE /\ svcListed = FALSE
  /\ svcEdited = FALSE /\ svcTrusted = FALSE
  /\ svcReq = [i \in SvcSlots |-> Free]

SvcNext ==
  \/ OpenReactive \/ OpenKeepalive \/ CloseService
  \/ \E n \in Names \cup {NoName} : TypeReactiveSource(n) \/ TypeKeepaliveSource(n)
  \/ \E p \in Ports : ToggleReactivePort(p) \/ ToggleKeepaliveNode(p)
  \/ ToggleAllPorts
  \/ \E n \in Limits : TypeReactiveLimit(n) \/ TypeKeepaliveMinutes(n)
  \/ SaveReactive \/ SaveKeepalive \/ ListsForReactive
  \/ \E i \in SvcSlots : Serve(i) \/ Answer(i) \/ Fail(i)

SvcSpec == SvcInit /\ [][SvcNext]_svcVars

\* Every request comes to an answer or to an error.
SvcFair == \A i \in SvcSlots : WF_svcVars(Fail(i) \/ Serve(i) \/ Answer(i))

-----------------------------------------------------------------------------
\* What a form shows of a configuration: a keepalive form its nearest minutes, of
\* which there is one at least; a reactive form without ports the initial ones.
Shows(form, cfg) ==
  /\ form.source = cfg.source
  /\ form.ports = cfg.ports \/ (svc = "reactive" /\ cfg.ports = {} /\ form.ports = InitialPorts)
  /\ IF svc = "reactive" THEN form.limit = cfg.limit
     ELSE cfg.limit >= 60 => form.limit * 60 - cfg.limit \in -30..30

\* A form nobody touched since its last answer shows what the server holds, if
\* its requests ran one at a time and none failed: neither what the server clamps
\* nor what it keeps of a field it was not given is lost on the user.
SettledFormIsConfig == svcTrusted /\ Quiet /\ ~svcEdited => Shows(svcForm, svcConfig)

\* "Allowed Meshtastic port names that should trigger": the ports such a form
\* shows as selected are the ports that trigger.
PortsShownTrigger == svcTrusted /\ Quiet /\ ~svcEdited => svcForm.ports = svcConfig.ports

\* No form stays behind its spinner, and no save button disabled.
ServiceFormsReady ==
  /\ []<>~svcLoading
  /\ []<>~svcSaving
=============================================================================
