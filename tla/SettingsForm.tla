------------------------------ MODULE SettingsForm ------------------------------
(***************************************************************************)
(* The platform rules: the form of platform-settings.tsx, which saves each *)
(* rule by a request of its own, the rows of settings.service.ts, and the  *)
(* log worker, whose threshold for alerts the rules do not reach.          *)
(***************************************************************************)
EXTENDS Integers, FiniteSets

CONSTANTS
    Rule,        \* the rules of the form
    Threshold,   \* threat_threshold, one of them
    Value,       \* the values a rule is set to, scores for the threshold
    Score,       \* the scores of the events that are ingested
    MaxSaves     \* bound: saves

Default == 75          \* what the form shows of a rule that has no row
AlertThreshold == 60   \* logs.processor.ts
Unset == -1            \* no score

VARIABLES
    saved,     \* saved[k]: the row of the rule, or Unset
    initial,   \* initial[k]: what the form took to be saved
    form,      \* form[k]: what the form shows
    phase,     \* the form: "fetching", "idle", "saving"
    sent,      \* sent[k]: what the last save sent
    saves,     \* saves so far
    patches,   \* requests under way: <<number of the save, rule, value>>
    clean,     \* history: since a fetch or a save that met no other request, none failed and
               \* nobody else wrote
    alerts     \* the scores of the alerts raised

vars == <<saved, initial, form, phase, sent, saves, patches, clean, alerts>>

Patch == (1..MaxSaves) \X Rule \X (Value \cup {Default})

SettingsTypeOK ==
    /\ saved \in [Rule -> Value \cup {Default, Unset}]
    /\ initial \in [Rule -> Value \cup {Default}] /\ form \in [Rule -> Value \cup {Default}]
    /\ phase \in {"fetching", "idle", "saving"}
    /\ sent \in [Rule -> Value \cup {Default}] /\ saves \in 0..MaxSaves
    /\ patches \subseteq Patch
    /\ clean \in BOOLEAN
    /\ alerts \subseteq Score

Defaults == [k \in Rule |-> Default]
Loaded == [k \in Rule |-> IF saved[k] = Unset THEN Default ELSE saved[k]]

Init ==
    /\ saved = [k \in Rule |-> Unset]
    /\ initial = Defaults /\ form = Defaults /\ phase = "fetching"
    /\ sent = Defaults /\ saves = 0 /\ patches = {}
    /\ clean = FALSE /\ alerts = {}

(* fetchSettings on entering the tab; requests of an earlier visit may still be under way. *)
Fetched ==
    /\ phase = "fetching"
    /\ initial' = Loaded /\ form' = Loaded /\ phase' = "idle"
    /\ clean' = (patches = {})
    /\ UNCHANGED <<saved, sent, saves, patches, alerts>>

(* The form keeps its defaults. *)
FetchFailed ==
    /\ phase = "fetching"
    /\ phase' = "idle" /\ clean' = FALSE
    /\ UNCHANGED <<saved, initial, form, sent, saves, patches, alerts>>

Edit(k, v) ==
    /\ phase # "fetching" /\ form[k] # v
    /\ form' = [form EXCEPT ![k] = v]
    /\ UNCHANGED <<saved, initial, phase, sent, saves, patches, clean, alerts>>

isDirty == form # initial

Discard ==
    /\ phase = "idle" /\ isDirty
    /\ form' = initial
    /\ UNCHANGED <<saved, initial, phase, sent, saves, patches, clean, alerts>>

(* Another tab is chosen, and this one again: the form is new, its requests go on. *)
Reenter ==
    /\ phase # "fetching" /\ MaxSaves - saves > 0
    /\ phase' = "fetching" /\ initial' = Defaults /\ form' = Defaults
    /\ clean' = FALSE
    /\ UNCHANGED <<saved, sent, saves, patches, alerts>>

(* handleSave: one request for each rule, with the values of the click. *)
Save ==
    /\ phase = "idle" /\ saves < MaxSaves
    /\ saves' = saves + 1 /\ sent' = form
    /\ patches' = patches \cup {<<saves + 1, k, form[k]>> : k \in Rule}
    /\ phase' = "saving"
    /\ clean' = (patches = {})
    /\ UNCHANGED <<saved, initial, form, alerts>>

(* updatePlatformSetting: an upsert by key. *)
Upsert(p) ==
    /\ p \in patches
    /\ saved' = [saved EXCEPT ![p[2]] = p[3]]
    /\ patches' = patches \ {p}
    /\ UNCHANGED <<initial, form, phase, sent, saves, clean, alerts>>

OfThisSave == {p \in patches : p[1] = saves}

(* Promise.all ends with the first failure: the form is free again, the    *)
(* other requests go on; the rule may have been stored all the same.       *)
PatchFailed(p) ==
    /\ p \in patches
    /\ \/ saved' = [saved EXCEPT ![p[2]] = p[3]]
       \/ UNCHANGED saved
    /\ patches' = patches \ {p}
    /\ phase' = IF p \in OfThisSave /\ phase = "saving" THEN "idle" ELSE phase
    /\ clean' = FALSE
    /\ UNCHANGED <<initial, form, sent, saves, alerts>>

(* initial takes what the inputs show when the answers are there. *)
SavedAsShown ==
    /\ phase = "saving" /\ OfThisSave = {}
    /\ initial' = form /\ phase' = "idle"
    /\ UNCHANGED <<saved, form, sent, saves, patches, clean, alerts>>

(* All are answered.  initial takes the values of the click, which the     *)
(* inputs, enabled all the time, may have moved on from.                   *)
Saved ==
    /\ phase = "saving" /\ OfThisSave = {}
    /\ initial' = sent /\ phase' = "idle"
    /\ UNCHANGED <<saved, form, sent, saves, patches, clean, alerts>>

OtherAdmin(k, v) ==
    /\ saved[k] # v
    /\ saved' = [saved EXCEPT ![k] = v]
    /\ clean' = FALSE
    /\ UNCHANGED <<initial, form, phase, sent, saves, patches, alerts>>

(* process() of the log worker raises an alert for a score, whatever is saved. *)
RaiseAlert(score) ==
    /\ score >= AlertThreshold /\ score \notin alerts
    /\ alerts' = alerts \cup {score}
    /\ UNCHANGED <<saved, initial, form, phase, sent, saves, patches, clean>>

Next ==
    \/ Fetched \/ FetchFailed \/ Discard \/ Reenter \/ Save \/ Saved
    \/ \E k \in Rule, v \in Value : Edit(k, v) \/ OtherAdmin(k, v)
    \/ \E p \in patches : Upsert(p) \/ PatchFailed(p)
    \/ \E score \in Score : RaiseAlert(score)

Spec == Init /\ [][Next]_vars

-------------------------------------------------------------------------------
(* Properties *)

(* Rules saved one by one, failures of some, requests left over from a     *)
(* failed save (platform-settings.tsx handleSave): a form at rest knows    *)
(* what is stored, unless since its last fetch or save a request failed or *)
(* crossed, or somebody else wrote.                                        *)
SavedIsStored == clean /\ phase = "idle" /\ patches = {} => initial = Loaded

(* README: the slider tunes the score that triggers an alert, and the form *)
(* says of a save that it is propagated: once one has succeeded and nobody  *)
(* else wrote, an alert that is raised has at least the saved score.        *)
AlertsFollowThreshold ==
    [][clean /\ saves > 0 /\ phase = "idle" /\ patches = {} /\ saved[Threshold] # Unset =>
           \A score \in alerts' \ alerts : score >= saved[Threshold]]_vars

===============================================================================
