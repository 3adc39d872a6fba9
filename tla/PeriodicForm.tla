---------------------------- MODULE PeriodicForm ----------------------------
(***************************************************************************)
(* The page of periodic publishing jobs of the web client: a list of the   *)
(* server's jobs and one form, which holds a new job or a job of the list. *)
(* Saving, deleting and enabling a job each end by fetching the list again. *)
(* The page stays usable meanwhile, so that a request finds on its return  *)
(* another form, or another list, than the one it was sent from.           *)
(*                                                                         *)
(* Of a job the model keeps whether it is enabled, the one field that both *)
(* the form and a row change; of the form's other fields, whether they pass *)
(* the checks of a save, which those of a saved job do.  The channel and    *)
(* the PKI switch are in ChannelFields.                                    *)
(***************************************************************************)
EXTENDS Naturals

CONSTANTS MaxJobs,   \* bound on the jobs ever created
          PjSlots    \* bound on requests in flight together

NewJob == 0
JobIds == 1..MaxJobs
Ids == JobIds \cup {NewJob}

VARIABLES
  pjOpen,      \* the page is shown
  pjForm,      \* periodicForm
  pjList,      \* periodicJobs, the list shown
  pjLoading,   \* periodicLoading
  pjSaving,    \* periodicSaving
  pjDeleting,  \* periodicDeletingId
  pjToggling,  \* periodicTogglingId
  pjReq,       \* requests in flight
  pjJobs,      \* the server's jobs
  pjCreated,   \* the server's count of jobs ever created
  pjTrusted,   \* history: no request failed and no list overtook an older one, since one ran alone
  pjOlder,     \* history: of a list on its way, the older ones that still are
  pjHeld,      \* history: the form was given its job while, or after, that was deleted
  pjDraft      \* history: the new job of the form was not sent or refused, was sent, or was made by
               \*          the server without the answer ever coming

pjVars == <<pjOpen, pjForm, pjList, pjLoading, pjSaving, pjDeleting, pjToggling, pjReq,
            pjJobs, pjCreated, pjTrusted, pjOlder, pjHeld, pjDraft>>
flags == <<pjLoading, pjSaving, pjDeleting, pjToggling>>
backend == <<pjJobs, pjCreated>>
history == <<pjTrusted, pjOlder, pjHeld, pjDraft>>

Drafts == {"unsent", "sent", "lost"}
Tables == UNION {[D -> BOOLEAN] : D \in SUBSET JobIds}
NoJobs == [j \in {} |-> TRUE]

\* INITIAL_PERIODIC_FORM
InitialPeriodicForm == [id |-> NewJob, enabled |-> TRUE, complete |-> FALSE]

Idle == [kind |-> "none", ph |-> "none", id |-> NewJob, enabled |-> FALSE, formId |-> NewJob, list |-> NoJobs]
AllIdle == \A i \in PjSlots : pjReq[i] = Idle

PjTypeOK ==
  /\ {pjOpen, pjLoading, pjSaving, pjTrusted, pjHeld} \subseteq BOOLEAN /\ pjDraft \in Drafts
  /\ pjForm \in [id : Ids, enabled : BOOLEAN, complete : BOOLEAN]
  /\ pjList \in Tables /\ pjJobs \in Tables /\ pjCreated \in 0..MaxJobs
  /\ pjDeleting \in Ids /\ pjToggling \in Ids
  /\ pjReq \in [PjSlots -> [kind : {"save", "delete", "toggle", "fetch", "none"},
                            ph : {"sent", "acted", "fetching", "fetched", "none"},
                            id : Ids, enabled : BOOLEAN, formId : Ids, list : Tables]]
  /\ pjOlder \in [PjSlots -> SUBSET PjSlots]

-----------------------------------------------------------------------------
(* What an answer makes of the form.                                       *)

\* handleEditPeriodicJob
FormOfJob(id, enabled) == [id |-> id, enabled |-> enabled, complete |-> TRUE]

\* Mutant: the form of a job that was created stays that of a new one
FormStaysNew(i) == IF pjReq[i].formId = NewJob THEN pjForm ELSE FormOfJob(pjReq[i].id, pjReq[i].enabled)

FormAfterSave(i) == FormOfJob(pjReq[i].id, pjReq[i].enabled)

\* Mutant: the form keeps a job that was deleted
FormKept(i) == pjForm

\* The form is reset if it held the job when the deletion was clicked.
FormAfterDelete(i) == IF pjReq[i].formId = pjReq[i].id THEN InitialPeriodicForm ELSE pjForm

\* A deletion of job j is under way, or done.
Doomed(j) == j \notin DOMAIN pjJobs \/ \E i \in PjSlots : pjReq[i].kind = "delete" /\ pjReq[i].id = j

FormAfterToggle(i) ==
  IF pjReq[i].formId = pjReq[i].id THEN [pjForm EXCEPT !.enabled = pjReq[i].enabled] ELSE pjForm

-----------------------------------------------------------------------------
(* Requests.                                                               *)

Send(r) ==
  /\ \E i \in PjSlots : pjReq[i] = Idle
  /\ pjReq' = [pjReq EXCEPT ![CHOOSE i \in PjSlots : pjReq[i] = Idle] = r]
  /\ pjTrusted' = (pjTrusted \/ AllIdle)

\* fetchPeriodicJobs
Fetch == Send([Idle EXCEPT !.kind = "fetch", !.ph = "fetching"]) /\ pjLoading' = TRUE

\* The server performs a request; a job that is gone it cannot.
Perform(i) ==
  LET r == pjReq[i]
      new == pjCreated + 1
      creates == r.kind = "save" /\ r.id = NewJob
      id == IF creates THEN new ELSE r.id
  IN  /\ r.ph = "sent" /\ r.kind \in {"save", "delete", "toggle"}
      /\ IF creates THEN pjCreated < MaxJobs ELSE r.id \in DOMAIN pjJobs
      /\ pjCreated' = IF creates THEN new ELSE pjCreated
      /\ pjJobs' = IF r.kind = "delete"
                     THEN [j \in DOMAIN pjJobs \ {r.id} |-> pjJobs[j]]
                     ELSE [j \in DOMAIN pjJobs \cup {id} |-> IF j = id THEN r.enabled ELSE pjJobs[j]]
      /\ pjReq' = [pjReq EXCEPT ![i].ph = "acted", ![i].id = id]
      /\ UNCHANGED <<pjOpen, pjForm, pjList, flags, history>>

\* The answer of a save, a deletion or a toggle: the form first, then the list.
Performed(i) ==
  LET r == pjReq[i] IN
  /\ r.ph = "acted"
  /\ pjForm' = CASE r.kind = "save" -> FormAfterSave(i)
                 [] r.kind = "delete" -> FormAfterDelete(i)
                 [] r.kind = "toggle" -> FormAfterToggle(i)
  /\ pjDraft' = IF pjForm'.id # NewJob \/ (r.kind = "delete" /\ r.formId = r.id) THEN "unsent" ELSE pjDraft
  /\ pjHeld' = CASE r.kind = "save" -> Doomed(r.id)
                 [] r.kind = "delete" -> pjHeld /\ r.formId # r.id
                 [] r.kind = "toggle" -> pjHeld
  /\ pjLoading' = TRUE
  /\ pjReq' = [pjReq EXCEPT ![i] = [Idle EXCEPT !.kind = r.kind, !.ph = "fetching"]]
  /\ UNCHANGED <<pjOpen, pjList, pjSaving, pjDeleting, pjToggling, backend,
                 pjTrusted, pjOlder>>

ServeList(i) ==
  /\ pjReq[i].ph = "fetching"
  /\ pjReq' = [pjReq EXCEPT ![i].ph = "fetched", ![i].list = pjJobs]
  /\ pjOlder' = [pjOlder EXCEPT ![i] = {j \in PjSlots : pjReq[j].ph = "fetched"}]
  /\ UNCHANGED <<pjOpen, pjForm, pjList, flags, backend,
                 pjTrusted, pjHeld, pjDraft>>

\* The finally blocks clear a flag, whichever request it was set by.
Cleared(kind) ==
  /\ pjSaving' = (pjSaving /\ kind # "save")
  /\ pjDeleting' = IF kind = "delete" THEN NewJob ELSE pjDeleting
  /\ pjToggling' = IF kind = "toggle" THEN NewJob ELSE pjToggling

\* A list that landed or was lost is no longer on its way.
Gone(i) == pjOlder' = [j \in PjSlots |-> IF j = i THEN {} ELSE pjOlder[j] \ {i}]

\* A list replaces the one shown, newer or older.
ListLands(i) ==
  /\ pjReq[i].ph = "fetched"
  /\ pjList' = pjReq[i].list /\ pjLoading' = FALSE
  /\ Cleared(pjReq[i].kind)
  /\ pjReq' = [pjReq EXCEPT ![i] = Idle]
  /\ pjTrusted' = (pjTrusted /\ pjOlder[i] = {})
  /\ Gone(i)
  /\ UNCHANGED <<pjOpen, pjForm, backend, pjHeld, pjDraft>>

\* A refusal or a lost answer: a toast, and a list that is not fetched stays as it is.
\* After an answer lost the form still holds a new job, which the server has made.
Fails(i) ==
  LET r == pjReq[i] IN
  /\ r # Idle
  /\ Cleared(r.kind)
  /\ pjLoading' = (pjLoading /\ r.ph \notin {"fetching", "fetched"})
  /\ pjReq' = [pjReq EXCEPT ![i] = Idle]
  /\ pjTrusted' = FALSE
  /\ Gone(i)
  /\ pjHeld' = (pjHeld \/ (r.kind = "delete" /\ r.id \notin DOMAIN pjJobs))
  /\ pjDraft' = CASE r.kind = "save" /\ pjDraft = "sent" /\ r.ph = "sent" -> "unsent"
                  [] r.kind = "save" /\ pjDraft = "sent" /\ r.ph = "acted" -> "lost"
                  [] OTHER -> pjDraft
  /\ UNCHANGED <<pjOpen, pjForm, pjList, backend>>

-----------------------------------------------------------------------------
(* The page.                                                               *)

OpenPeriodic ==
  /\ ~pjOpen /\ pjOpen' = TRUE
  /\ Fetch
  /\ UNCHANGED <<pjForm, pjList, pjSaving, pjDeleting, pjToggling, backend,
                 pjOlder, pjHeld, pjDraft>>

\* The effect of leaving the page resets the form.
ClosePeriodic ==
  /\ pjOpen /\ pjOpen' = FALSE
  /\ pjForm' = InitialPeriodicForm /\ pjDraft' = "unsent" /\ pjHeld' = FALSE
  /\ UNCHANGED <<pjList, flags, pjReq, backend, pjTrusted, pjOlder>>

RefreshJobs ==
  /\ pjOpen /\ Fetch
  /\ UNCHANGED <<pjOpen, pjForm, pjList, pjSaving, pjDeleting, pjToggling, backend,
                 pjOlder, pjHeld, pjDraft>>

\* resetPeriodicForm: New and Reset.
NewPeriodicForm ==
  /\ pjOpen
  /\ pjForm' = InitialPeriodicForm /\ pjDraft' = "unsent" /\ pjHeld' = FALSE
  /\ UNCHANGED <<pjOpen, pjList, flags, pjReq, backend, pjTrusted, pjOlder>>

\* A row of the list, which is not shown while a list is loading.
Row(j) == pjOpen /\ ~pjLoading /\ j \in DOMAIN pjList

EditRow(j) ==
  /\ Row(j)
  /\ pjForm' = FormOfJob(j, pjList[j]) /\ pjDraft' = "unsent"
  /\ pjHeld' = Doomed(j)
  /\ UNCHANGED <<pjOpen, pjList, flags, pjReq, backend, pjTrusted, pjOlder>>

ToggleRow(j) ==
  /\ Row(j) /\ pjToggling # j
  /\ pjToggling' = j
  /\ Send([Idle EXCEPT !.kind = "toggle", !.ph = "sent", !.id = j, !.formId = pjForm.id,
                       !.enabled = ~pjList[j]])
  /\ UNCHANGED <<pjOpen, pjForm, pjList, pjLoading, pjSaving, pjDeleting, backend,
                 pjOlder, pjHeld, pjDraft>>

\* The delete button of a row, and that of the form.
DeleteJob(j) ==
  /\ Row(j) \/ (pjOpen /\ pjForm.id = j)
  /\ pjDeleting # j
  /\ pjDeleting' = j
  /\ Send([Idle EXCEPT !.kind = "delete", !.ph = "sent", !.id = j, !.formId = pjForm.id])
  /\ UNCHANGED <<pjOpen, pjForm, pjList, pjLoading, pjSaving, pjToggling, backend,
                 pjOlder, pjHeld, pjDraft>>

Typed(f) ==
  /\ pjOpen /\ pjForm' = f
  /\ UNCHANGED <<pjOpen, pjList, flags, pjReq, backend, pjTrusted, pjOlder, pjHeld, pjDraft>>

\* The switch of the form.
SwitchEnabled == Typed([pjForm EXCEPT !.enabled = ~@])

\* The fields of the payload: a required one is filled in, or emptied.
TypePayload == Typed([pjForm EXCEPT !.complete = ~@])

\* A new job that was lost once stays lost.
DraftOfSubmit ==
  IF pjForm.id # NewJob THEN "unsent" ELSE IF pjDraft = "lost" THEN "lost" ELSE "sent"

\* Mutant: a save is not kept from being sent twice
SubmitTwice ==
  /\ pjOpen /\ pjForm.complete
  /\ Send([Idle EXCEPT !.kind = "save", !.ph = "sent", !.id = pjForm.id, !.formId = pjForm.id,
                       !.enabled = pjForm.enabled])
  /\ pjSaving' = TRUE
  /\ pjDraft' = DraftOfSubmit
  /\ UNCHANGED <<pjOpen, pjForm, pjList, pjLoading, pjDeleting, pjToggling, backend,
                 pjOlder, pjHeld>>

\* handlePeriodicSubmit: returns at once while a save is in flight; a form that
\* is not complete gets a toast.
SubmitPeriodic ==
  /\ pjOpen /\ ~pjSaving /\ pjForm.complete
  /\ Send([Idle EXCEPT !.kind = "save", !.ph = "sent", !.id = pjForm.id, !.formId = pjForm.id,
                       !.enabled = pjForm.enabled])
  /\ pjSaving' = TRUE
  /\ pjDraft' = DraftOfSubmit
  /\ UNCHANGED <<pjOpen, pjForm, pjList, pjLoading, pjDeleting, pjToggling, backend,
                 pjOlder, pjHeld>>

-----------------------------------------------------------------------------
PjInit ==
  /\ pjOpen = FALSE /\ pjForm = InitialPeriodicForm /\ pjList = NoJobs
  /\ pjLoading = FALSE /\ pjSaving = FALSE /\ pjDeleting = NewJob /\ pjToggling = NewJob
  /\ pjReq = [i \in PjSlots |-> Idle]
  /\ pjCreated = 0 /\ pjJobs = NoJobs
  /\ pjTrusted = TRUE /\ pjOlder = [i \in PjSlots |-> {}] /\ pjHeld = FALSE
  /\ pjDraft = "unsent"

Work(i) == Fails(i) \/ Perform(i) \/ Performed(i) \/ ServeList(i) \/ ListLands(i)

PjNext ==
  \/ OpenPeriodic \/ ClosePeriodic \/ RefreshJobs \/ NewPeriodicForm \/ SubmitPeriodic
  \/ \E j \in JobIds : EditRow(j) \/ ToggleRow(j) \/ DeleteJob(j)
  \/ SwitchEnabled \/ TypePayload
  \/ \E i \in PjSlots : Work(i)

\* Every request comes to an answer or to an error.
PjFair == \A i \in PjSlots : WF_pjVars(Work(i))

-----------------------------------------------------------------------------
\* When no request is in flight the list shown is the server's, if none failed and
\* no list overtook an older one: whatever ran at the same time, every
\* change is followed by a list that has it.
ListIsServer == AllIdle /\ pjTrusted => (pjOpen => pjList = pjJobs)

\* The form never goes on holding a job that is gone: a deletion takes the form
\* along, unless the form was given the job while, or after, it was deleted.
FormOfLiveJob == pjForm.id # NewJob /\ Doomed(pjForm.id) /\ ~pjHeld
                   => \E i \in PjSlots : pjReq[i].kind = "delete" /\ pjReq[i].formId = pjForm.id

\* A new job is sent a second time from the same form only after it was refused, or
\* after the answer to it was lost: then the server has made it, the form has not heard
\* of it, and the user who sends it again gets a second one.
NoTwinJobs ==
  [][\A i \in PjSlots :
       /\ pjReq[i] = Idle /\ pjReq'[i].kind = "save" /\ pjReq'[i].id = NewJob
       => pjDraft # "sent"]_pjVars

\* The page's spinner ends, and its buttons come back.
PeriodicReady ==
  /\ []<>~pjLoading
  /\ []<>~pjSaving
  /\ []<>(pjDeleting = NewJob)
  /\ []<>(pjToggling = NewJob)
=============================================================================
