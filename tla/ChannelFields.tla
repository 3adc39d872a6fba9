---------------------------- MODULE ChannelFields ---------------------------
(***************************************************************************)
(* The channel of a publication in the web client: its name, its key, and  *)
(* the PKI switch, which replaces both and remembers in two refs what to    *)
(* give back.  The one-shot form keeps name and key in the browser's       *)
(* storage between two visits of the page; the periodic form shows one     *)
(* saved job after another.  Choosing a channel looks its key up, and the  *)
(* answer goes to the form of the moment it arrives.                       *)
(***************************************************************************)
EXTENDS Naturals

CONSTANTS Channels,  \* channels of the suggestions
          Keyed,     \* those the server tells a key of
          MaxLooks   \* bound on lookups in flight

Pki == "PKI"
Unset == ""
Null == "null"

VARIABLES
  cfHost,    \* the form: oneshot or periodic
  cfName,    \* channelName, or channel_name
  cfKey,     \* channelKey, or channel_key
  cfPki,     \* pkiEncrypted, or pki_encrypted
  cfRefs,    \* what the two refs hold
  cfLooks,   \* channels whose keys are being looked up
  cfStored,  \* one-shot: the defaults in the browser's storage
  cfSent,    \* the channel of the last publication or job sent
  cfBefore,  \* history: the fields at the moment the switch was turned on
  cfMoved    \* history: another job was shown while the refs held something

cfVars == <<cfHost, cfName, cfKey, cfPki, cfRefs, cfLooks, cfStored, cfSent, cfBefore, cfMoved>>
fields == <<cfName, cfKey, cfPki>>

FieldNames == Channels \cup {Unset, Pki}
FieldKeys == Keyed \cup {Unset}
Pair(name, key) == [name |-> name, key |-> key]
NoRefs == Pair(Null, Null)

CfTypeOK ==
  /\ cfHost \in {"oneshot", "periodic"}
  /\ cfName \in FieldNames /\ cfKey \in FieldKeys /\ cfPki \in BOOLEAN /\ cfMoved \in BOOLEAN
  /\ {cfRefs, cfBefore} \subseteq [name : FieldNames \cup {Null}, key : FieldKeys \cup {Null}]
  /\ {cfStored, cfSent} \subseteq [name : FieldNames, key : FieldKeys]
  /\ cfLooks \in [Channels -> 0..MaxLooks]

\* The defaults follow the one-shot form's fields at once, by an effect.
Persisted(name, key) == IF cfHost = "oneshot" THEN Pair(name, key) ELSE cfStored

Shown(name, key, pki) ==
  /\ cfName' = name /\ cfKey' = key /\ cfPki' = pki
  /\ cfStored' = Persisted(name, key)

TypeChannel(c) ==
  /\ Shown(c, cfKey, cfPki)
  /\ UNCHANGED <<cfHost, cfRefs, cfLooks, cfSent, cfBefore, cfMoved>>

TypeKey(k) ==
  /\ Shown(cfName, k, cfPki)
  /\ UNCHANGED <<cfHost, cfRefs, cfLooks, cfSent, cfBefore, cfMoved>>

\* applyChannelSelection, before its await ...
ChooseChannel(c) ==
  /\ cfLooks[c] < MaxLooks
  /\ Shown(c, cfKey, cfPki)
  /\ cfLooks' = [cfLooks EXCEPT ![c] = @ + 1]
  /\ UNCHANGED <<cfHost, cfRefs, cfSent, cfBefore, cfMoved>>

\* Mutant: an answer without a key empties the field, of a value it cannot hold
KeyArrivesOrNull(c) ==
  /\ cfLooks[c] > 0
  /\ cfLooks' = [cfLooks EXCEPT ![c] = @ - 1]
  /\ Shown(cfName, IF c \in Keyed THEN c ELSE Null, cfPki)
  /\ UNCHANGED <<cfHost, cfRefs, cfSent, cfBefore, cfMoved>>

\* ... and after it: no key, or an error, leaves the field as it is.
KeyArrives(c) ==
  /\ cfLooks[c] > 0
  /\ cfLooks' = [cfLooks EXCEPT ![c] = @ - 1]
  /\ \E known \in {TRUE, FALSE} : Shown(cfName, IF known /\ c \in Keyed THEN c ELSE cfKey, cfPki)
  /\ UNCHANGED <<cfHost, cfRefs, cfSent, cfBefore, cfMoved>>

\* The switch is turned on: what the refs hold already is kept.
CheckPki ==
  /\ ~cfPki
  /\ cfRefs' = Pair(IF cfRefs.name = Null THEN cfName ELSE cfRefs.name,
                    IF cfRefs.key = Null THEN cfKey ELSE cfRefs.key)
  /\ Shown(Pki, Unset, TRUE)
  /\ cfBefore' = Pair(cfName, cfKey)
  /\ cfMoved' = (cfMoved /\ cfRefs # NoRefs)
  /\ UNCHANGED <<cfHost, cfLooks, cfSent>>

\* Mutant: turned off, the switch leaves in the refs what it gave back
UncheckKeepsRefs ==
  /\ cfPki
  /\ Shown(IF cfRefs.name = Null THEN cfName ELSE cfRefs.name,
           IF cfRefs.key = Null THEN cfKey ELSE cfRefs.key, FALSE)
  /\ cfBefore' = NoRefs
  /\ UNCHANGED <<cfHost, cfRefs, cfLooks, cfSent, cfMoved>>

\* ... and off: the refs are given back and emptied.
UncheckPki ==
  /\ cfPki
  /\ Shown(IF cfRefs.name = Null THEN cfName ELSE cfRefs.name,
           IF cfRefs.key = Null THEN cfKey ELSE cfRefs.key, FALSE)
  /\ cfRefs' = NoRefs /\ cfBefore' = NoRefs
  /\ UNCHANGED <<cfHost, cfLooks, cfSent, cfMoved>>

\* Another job is shown, or a new one: the fields are its own, the refs stay.
ShowJob(name, key, pki) ==
  /\ cfHost = "periodic" /\ Shown(name, key, pki)
  /\ cfMoved' = (cfMoved \/ cfRefs # NoRefs)
  /\ cfBefore' = NoRefs
  /\ UNCHANGED <<cfHost, cfRefs, cfLooks, cfSent>>

\* The page is left and visited again: a new form, with the defaults of the storage.
Revisit ==
  /\ IF cfHost = "oneshot" THEN Shown(cfStored.name, cfStored.key, FALSE) ELSE Shown(Unset, Unset, FALSE)
  /\ cfRefs' = NoRefs /\ cfBefore' = NoRefs /\ cfMoved' = FALSE
  /\ cfLooks' = [c \in Channels |-> 0]
  /\ UNCHANGED <<cfHost, cfSent>>

\* The effective channel of a publication or of a saved job.
Send ==
  /\ cfSent' = IF cfPki THEN Pair(Pki, Unset) ELSE Pair(cfName, cfKey)
  /\ UNCHANGED <<cfHost, fields, cfRefs, cfLooks, cfStored, cfBefore, cfMoved>>

CfInit ==
  /\ cfHost \in {"oneshot", "periodic"}
  /\ cfName = Unset /\ cfKey = Unset /\ cfPki = FALSE /\ cfRefs = NoRefs
  /\ cfLooks = [c \in Channels |-> 0]
  /\ cfStored = Pair(Unset, Unset) /\ cfSent = Pair(Unset, Unset)
  /\ cfBefore = NoRefs /\ cfMoved = FALSE

CfNext ==
  \/ \E c \in Channels : TypeChannel(c) \/ ChooseChannel(c) \/ KeyArrives(c)
  \/ \E k \in FieldKeys : TypeKey(k)
  \/ CheckPki \/ UncheckPki \/ Revisit \/ Send
  \/ \E c \in Channels, k \in FieldKeys : ShowJob(c, k, FALSE)
  \/ ShowJob(Pki, Unset, TRUE)

CfSpec == CfInit /\ [][CfNext]_cfVars

-----------------------------------------------------------------------------
\* "Remember previous channel values so we can restore them when PKI is
\* unchecked": turned on and off again, the switch gives back the name and the
\* key of the moment it was turned on, whatever was typed, chosen or looked up
\* in between, unless another job was shown while the refs held something.
PkiRoundTrip ==
  [][UncheckPki /\ cfRefs # NoRefs /\ ~cfMoved
       => cfName' = cfBefore.name /\ cfKey' = cfBefore.key]_cfVars

\* "Remember previous periodic channel values to restore on uncheck": what a form
\* gets back is never the channel of another job.
PkiRestoresOwnChannel ==
  [][UncheckPki /\ cfHost = "periodic" /\ cfRefs # NoRefs => ~cfMoved]_cfVars
=============================================================================
