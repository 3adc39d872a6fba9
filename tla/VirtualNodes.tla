---------------------------- MODULE VirtualNodes ----------------------------
(***************************************************************************)
(* The panel of virtual nodes of the web client: a list, a form that       *)
(* creates or edits a node, the rotation of a node's key pair, and the      *)
(* dialog that shows a new private key, the only time it can be seen.       *)
(* Dialogs cover the panel, and the form covers the list.  Only the         *)
(* identity a form holds is kept of its fields.                             *)
(***************************************************************************)
EXTENDS Naturals

CONSTANTS
  VnNodes, \* identities of virtual nodes, in use or free
  MaxKeys, \* bound on the key pairs made for a node; one alone reaches it, and only unmixed
  VnSlots  \* bound on requests in flight together

None == "none"

VARIABLES
  vnList,       \* nodes, the list shown
  vnListing,    \* isLoading
  vnForm,       \* formOpen, editingNode, formState.nodeId and regenerateKeys
  vnOptions,    \* the roles and hardware models are there, or could not be
  vnSaving,     \* isSaving
  vnPrefilling, \* prefillLoading
  vnConfirm,    \* rotateConfirmNode
  vnRotating,   \* rotatingId
  vnDeleting,   \* deletingId
  vnShown,      \* pendingSecrets: the node, and which of its keys
  vnReq,        \* requests in flight
  vnKeys,       \* the server's nodes: the number of the latest key of each, 0 for none
  vnMixed       \* history: two changes of the server's nodes were under way together

vnVars == <<vnList, vnListing, vnForm, vnOptions, vnSaving, vnPrefilling, vnConfirm, vnRotating,
            vnDeleting, vnShown, vnReq, vnKeys, vnMixed>>
panel == <<vnList, vnListing, vnOptions, vnConfirm, vnRotating, vnDeleting, vnShown>>
form == <<vnForm, vnSaving, vnPrefilling>>

NoSecrets == [node |-> None, key |-> 0]
NoRequest == [kind |-> "none", ph |-> "none", node |-> None, id |-> None, regen |-> FALSE, key |-> 0,
              list |-> {}]
\* loose: the form of a node whose identity was retyped, or may be by a suggestion
\* that was on its way when the form was opened.
EmptyForm == [open |-> FALSE, editing |-> None, id |-> None, regen |-> FALSE, loose |-> FALSE]
Live == {n \in VnNodes : vnKeys[n] > 0}
Kinds == {"list", "prefill", "save", "rotate", "delete"}
InFlight(kind) == {i \in VnSlots : vnReq[i].kind = kind}

VnTypeOK ==
  /\ vnList \subseteq VnNodes
  /\ {vnListing, vnOptions, vnSaving, vnPrefilling, vnMixed} \subseteq BOOLEAN
  /\ vnForm \in [open : BOOLEAN, editing : VnNodes \cup {None}, id : VnNodes \cup {None},
                 regen : BOOLEAN, loose : BOOLEAN]
  /\ {vnConfirm, vnRotating, vnDeleting} \subseteq VnNodes \cup {None}
  /\ vnShown \in [node : VnNodes \cup {None}, key : 0..MaxKeys]
  /\ vnReq \in [VnSlots -> [kind : Kinds \cup {"none"}, ph : {"sent", "acted", "fetching", "fetched", "none"},
                            node : VnNodes \cup {None}, id : VnNodes \cup {None},
                            regen : BOOLEAN, key : 0..MaxKeys, list : SUBSET VnNodes]]
  /\ vnKeys \in [VnNodes -> 0..MaxKeys]

-----------------------------------------------------------------------------
Asked(kind, node, id, regen) ==
  [kind |-> kind, ph |-> "sent", node |-> node, id |-> id, regen |-> regen, key |-> 0, list |-> {}]
\* Only a save has still a key to show when the list is there.
Fetching(r) ==
  IF r.kind = "save" /\ r.key > 0 THEN [r EXCEPT !.ph = "fetching"]
                                  ELSE [NoRequest EXCEPT !.kind = r.kind, !.ph = "fetching"]

\* Only two rotations of one node are not a mix.
Send(r) ==
  /\ \E i \in VnSlots : vnReq[i] = NoRequest
  /\ vnReq' = [vnReq EXCEPT ![CHOOSE i \in VnSlots : vnReq[i] = NoRequest] = r]
  /\ vnMixed' = (vnMixed \/ \E i \in VnSlots :
       /\ {r.kind, vnReq[i].kind} \subseteq {"save", "rotate", "delete"}
       /\ ~(r.kind = "rotate" /\ vnReq[i].kind = "rotate" /\ r.node = vnReq[i].node))
  /\ UNCHANGED vnKeys

\* What covers the list, and what covers the form.
Uncovered == vnShown = NoSecrets /\ vnConfirm = None
OnList == Uncovered /\ ~vnForm.open
OnRow(n) == OnList /\ ~vnListing /\ n \in vnList
OnForm == Uncovered /\ vnForm.open

-----------------------------------------------------------------------------
(* The list and its rows.                                                  *)

\* handleRefresh
RefreshNodes ==
  /\ OnList /\ ~vnListing
  /\ Send(Fetching(Asked("list", None, None, FALSE))) /\ vnListing' = TRUE
  /\ UNCHANGED <<vnList, vnOptions, vnConfirm, vnRotating, vnDeleting, vnShown, form>>

\* The request for the roles and hardware models is over.
OptionsArrive ==
  /\ ~vnOptions /\ vnOptions' = TRUE
  /\ UNCHANGED <<vnList, vnListing, vnConfirm, vnRotating, vnDeleting, vnShown, form, vnReq, vnKeys, vnMixed>>

\* setRotateConfirmNode, by a row's button: disabled for the node last asked for.
AskRotate(n) ==
  /\ OnRow(n) /\ vnRotating # n
  /\ vnConfirm' = n
  /\ UNCHANGED <<vnList, vnListing, vnOptions, vnRotating, vnDeleting, vnShown, form, vnReq, vnKeys, vnMixed>>

CancelRotate ==
  /\ vnConfirm # None /\ vnShown = NoSecrets /\ vnConfirm' = None
  /\ UNCHANGED <<vnList, vnListing, vnOptions, vnRotating, vnDeleting, vnShown, form, vnReq, vnKeys, vnMixed>>

\* Mutant: the node is not marked as being rotated
ConfirmUnmarked ==
  /\ vnConfirm # None /\ vnShown = NoSecrets /\ vnRotating # vnConfirm
  /\ Send(Asked("rotate", vnConfirm, None, TRUE)) /\ vnConfirm' = None
  /\ UNCHANGED <<vnList, vnListing, vnOptions, vnRotating, vnDeleting, vnShown, form>>

\* handleConfirmRotate, and performRotateKeys up to its first await.
ConfirmRotate ==
  /\ vnConfirm # None /\ vnShown = NoSecrets /\ vnRotating # vnConfirm
  /\ Send(Asked("rotate", vnConfirm, None, TRUE))
  /\ vnRotating' = vnConfirm /\ vnConfirm' = None
  /\ UNCHANGED <<vnList, vnListing, vnOptions, vnDeleting, vnShown, form>>

\* handleDelete, once confirmed.
DeleteNode(n) ==
  /\ OnRow(n) /\ vnDeleting # n
  /\ Send(Asked("delete", n, None, FALSE)) /\ vnDeleting' = n
  /\ UNCHANGED <<vnList, vnListing, vnOptions, vnConfirm, vnRotating, vnShown, form>>

-----------------------------------------------------------------------------
(* The form.                                                               *)

\* loadPrefill, up to its first await.
AskPrefill == Send(Asked("prefill", None, None, FALSE)) /\ vnPrefilling' = TRUE

\* handleOpenCreate
OpenCreate ==
  /\ OnList /\ vnOptions
  /\ vnForm' = [EmptyForm EXCEPT !.open = TRUE] /\ AskPrefill
  /\ UNCHANGED <<panel, vnSaving>>

\* handleEdit: the suggestions still on their way are not forgotten.
OpenEdit(n) ==
  /\ OnRow(n)
  /\ vnForm' = [EmptyForm EXCEPT !.open = TRUE, !.editing = n, !.id = n, !.loose = InFlight("prefill") # {}]
  /\ UNCHANGED <<panel, vnSaving, vnPrefilling, vnReq, vnKeys, vnMixed>>

\* handleCloseForm: the cross works while saving too.
CloseForm ==
  /\ OnForm
  /\ vnForm' = EmptyForm /\ vnPrefilling' = FALSE
  /\ UNCHANGED <<panel, vnSaving, vnReq, vnKeys, vnMixed>>

\* handleTextChange, of the identity.
TypeIdentity(id) ==
  /\ OnForm
  /\ vnForm' = [vnForm EXCEPT !.id = id, !.loose = (vnForm.editing # None)]
  /\ UNCHANGED <<panel, vnSaving, vnPrefilling, vnReq, vnKeys, vnMixed>>

\* The box of regenerateKeys, in the form of a node that exists.
ToggleRegenerate ==
  /\ OnForm /\ vnForm.editing # None
  /\ vnForm' = [vnForm EXCEPT !.regen = ~@]
  /\ UNCHANGED <<panel, vnSaving, vnPrefilling, vnReq, vnKeys, vnMixed>>

\* "Refresh suggestions"
Suggest ==
  /\ OnForm /\ vnForm.editing = None /\ ~vnPrefilling
  /\ AskPrefill
  /\ UNCHANGED <<panel, vnForm, vnSaving>>

\* handleSubmit, up to its first await: an empty identity is not sent.
Submit ==
  /\ OnForm /\ ~vnSaving
  /\ Send(Asked("save", vnForm.editing, vnForm.id, vnForm.regen)) /\ vnSaving' = TRUE
  /\ UNCHANGED <<panel, vnForm, vnPrefilling>>

\* "I have stored the keys"
CloseSecrets ==
  /\ vnShown # NoSecrets /\ vnShown' = NoSecrets
  /\ UNCHANGED <<vnList, vnListing, vnOptions, vnConfirm, vnRotating, vnDeleting, form, vnReq, vnKeys, vnMixed>>

-----------------------------------------------------------------------------
(* Requests.                                                               *)

\* The server: a save creates a node with a key, or gives one another identity
\* and, asked to, another key; an identity in use is refused.
Act(i) ==
  LET r == vnReq[i] IN
  /\ r.ph = "sent" /\ r.kind # "prefill"
  /\ r.node # None => r.node \in Live
  /\ \E id \in IF r.id # None THEN {r.id} ELSE IF r.node # None THEN {r.node} ELSE VnNodes \ Live :
       LET key == IF r.kind = "delete" THEN 0
                  ELSE (IF r.node = None THEN 0 ELSE vnKeys[r.node]) + IF r.regen \/ r.node = None THEN 1 ELSE 0
       IN  /\ id # r.node => id \notin Live
           /\ key <= MaxKeys /\ (key = MaxKeys => ~vnMixed /\ \A n \in VnNodes \ {r.node} : vnKeys[n] < 2)
           /\ vnKeys' = [n \in VnNodes |-> IF n = id THEN key ELSE IF n = r.node THEN 0 ELSE vnKeys[n]]
           /\ vnReq' = [vnReq EXCEPT ![i].ph = "acted", ![i].id = None, ![i].regen = FALSE,
                                     ![i].node = IF r.regen THEN id ELSE None,
                                     ![i].key = IF r.regen THEN key ELSE 0]
  /\ UNCHANGED <<panel, form, vnMixed>>

\* A suggestion: some identity that is free, for whatever form is there.
PrefillLands(i) ==
  /\ vnReq[i].kind = "prefill"
  /\ \E id \in VnNodes \ Live : vnForm' = [vnForm EXCEPT !.id = id]
  /\ vnPrefilling' = FALSE
  /\ vnReq' = [vnReq EXCEPT ![i] = NoRequest]
  /\ UNCHANGED <<panel, vnSaving, vnKeys, vnMixed>>

\* The answer: a rotation shows the key at once; a save closes and empties whatever
\* form is open; then each fetches the list.
Acted(i) ==
  LET r == vnReq[i] IN
  /\ r.ph = "acted"
  /\ vnListing' = TRUE
  /\ IF r.kind = "rotate" THEN vnShown' = [node |-> r.node, key |-> r.key] ELSE UNCHANGED vnShown
  /\ IF r.kind = "save" THEN vnForm' = EmptyForm /\ vnPrefilling' = FALSE
                        ELSE UNCHANGED <<vnForm, vnPrefilling>>
  /\ vnReq' = [vnReq EXCEPT ![i] = Fetching(r)]
  /\ UNCHANGED <<vnList, vnOptions, vnConfirm, vnRotating, vnDeleting, vnSaving, vnKeys, vnMixed>>

\* The finally blocks.
Finished(kind) ==
  /\ vnSaving' = (vnSaving /\ kind # "save")
  /\ vnRotating' = IF kind = "rotate" THEN None ELSE vnRotating
  /\ vnDeleting' = IF kind = "delete" THEN None ELSE vnDeleting

\* The server answers a list with the nodes it has at that moment.
ListServed(i) ==
  /\ vnReq[i].ph = "fetching"
  /\ vnReq' = [vnReq EXCEPT ![i].ph = "fetched", ![i].list = Live]
  /\ UNCHANGED <<panel, form, vnKeys, vnMixed>>

\* The end of fetchNodes, which throws nothing: a save shows its key now.
ListOver(i) ==
  LET r == vnReq[i] IN
  /\ vnListing' = FALSE
  /\ vnShown' = IF r.kind = "save" /\ r.key > 0 THEN [node |-> r.node, key |-> r.key] ELSE vnShown
  /\ Finished(r.kind)
  /\ vnReq' = [vnReq EXCEPT ![i] = NoRequest]
  /\ UNCHANGED <<vnOptions, vnConfirm, vnForm, vnPrefilling, vnKeys, vnMixed>>

ListLands(i) == vnReq[i].ph = "fetched" /\ vnList' = vnReq[i].list /\ ListOver(i)

\* No list comes, and the one shown stays.
ListFails(i) == vnReq[i].ph \in {"fetching", "fetched"} /\ UNCHANGED vnList /\ ListOver(i)

\* Refused, or lost on either way: an error is shown.
Fails(i) ==
  LET r == vnReq[i] IN
  /\ r.ph \in {"sent", "acted"}
  /\ vnPrefilling' = (vnPrefilling /\ r.kind # "prefill")
  /\ Finished(r.kind)
  /\ vnReq' = [vnReq EXCEPT ![i] = NoRequest]
  /\ UNCHANGED <<vnList, vnListing, vnOptions, vnConfirm, vnShown, vnForm, vnKeys, vnMixed>>

-----------------------------------------------------------------------------
\* The panel fetches the list as it is shown.
VnInit ==
  /\ vnList = {} /\ vnListing = TRUE /\ vnForm = EmptyForm /\ vnOptions = FALSE
  /\ vnSaving = FALSE /\ vnPrefilling = FALSE /\ vnConfirm = None /\ vnRotating = None
  /\ vnDeleting = None /\ vnShown = NoSecrets /\ vnMixed = FALSE
  /\ vnReq = [i \in VnSlots |-> IF i = CHOOSE j \in VnSlots : TRUE
                                  THEN Fetching(Asked("list", None, None, FALSE)) ELSE NoRequest]
  /\ vnKeys = [n \in VnNodes |-> 1]

VnNext ==
  \/ RefreshNodes \/ OptionsArrive \/ CancelRotate \/ ConfirmRotate
  \/ OpenCreate \/ CloseForm \/ ToggleRegenerate \/ Suggest \/ Submit \/ CloseSecrets
  \/ \E n \in VnNodes : AskRotate(n) \/ DeleteNode(n) \/ OpenEdit(n) \/ TypeIdentity(n)
  \/ \E i \in VnSlots : Act(i) \/ PrefillLands(i) \/ Acted(i) \/ ListServed(i) \/ ListLands(i)
                         \/ ListFails(i) \/ Fails(i)

VnSpec == VnInit /\ [][VnNext]_vnVars

-----------------------------------------------------------------------------
\* The private key on display, which the user will never see again, is the one the
\* server holds for that node, unless it was made while another change was under way.
ShownKeyIsCurrent == vnShown # NoSecrets /\ ~vnMixed => vnShown.key = vnKeys[vnShown.node]

\* The form of a node nobody retyped would save the identity it has, unless a
\* suggestion for another form was on its way when it was opened.
EditKeepsIdentity ==
  vnForm.editing # None /\ ~vnForm.loose => vnForm.id = vnForm.editing

\* "Private keys are shown only once. Store them in a secure location before closing."
KeptUntilClosed == [][vnShown # NoSecrets => vnShown' \in {vnShown, NoSecrets}]_vnVars
=============================================================================
