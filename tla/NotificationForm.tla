---------------------------- MODULE NotificationForm ----------------------------
(***************************************************************************)
(* The notification preferences of one user: the row that settings.service *)
(* keeps and the form that shows it (components/settings/                  *)
(* notification-settings.tsx), open in several tabs.  The first look-up     *)
(* creates the row, by two statements; the form starts from defaults of    *)
(* its own, which are not those of the row.                                *)
(***************************************************************************)
EXTENDS Integers, FiniteSets

CONSTANTS
    Tab,        \* the tabs the user has open
    MaxSaves    \* bound: saves

(* A channel and a severity threshold stand for the three fields. *)
Prefs == [email : BOOLEAN, threshold : {"MEDIUM", "HIGH"}]
Default == [email |-> TRUE, threshold |-> "MEDIUM"]       \* of the service
FormDefault == [email |-> FALSE, threshold |-> "MEDIUM"]  \* of the page

VARIABLES
    row,      \* the user's notificationSetting: none or one
    tab,      \* tab[t]: phase, form, initialState; history: whether its last request failed
    late,     \* saves under way of forms that were left or told of a failure
    saves,    \* saves so far
    stale     \* history: the tabs since whose last answer another form has saved

vars == <<row, tab, late, saves, stale>>

Phase == {"loading", "creating", "ready", "saving", "saved"}

NotificationTypeOK ==
    /\ row \in SUBSET Prefs /\ Cardinality(row) <= 1
    /\ tab \in [Tab -> [phase : Phase, form : Prefs, initial : Prefs, sent : Prefs,
                        failed : BOOLEAN]]
    /\ late \subseteq Prefs
    /\ saves \in 0..MaxSaves
    /\ stale \subseteq Tab

Opened == [phase |-> "loading", form |-> FormDefault, initial |-> FormDefault,
           sent |-> FormDefault, failed |-> FALSE]

Init ==
    /\ row = {}
    /\ tab = [t \in Tab |-> Opened]
    /\ late = {}
    /\ saves = 0
    /\ stale = {}

Moves(t, phase) == tab[t].phase = phase

Shows(t, p, failed) ==
    tab' = [tab EXCEPT ![t] = [phase |-> "ready", form |-> p, initial |-> p, sent |-> p,
                               failed |-> failed]]

(* GET: the row is there, or will be created. *)
Find(t) ==
    /\ Moves(t, "loading")
    /\ IF row # {} THEN \E p \in row : Shows(t, p, FALSE)
                   ELSE tab' = [tab EXCEPT ![t].phase = "creating"]
    /\ stale' = stale \ {t}
    /\ UNCHANGED <<row, late, saves>>

(* Mutant: the row is written without regard to one that is there. *)
CreateOverOld(t) ==
    /\ Moves(t, "creating")
    /\ row' = {Default}
    /\ Shows(t, Default, FALSE)
    /\ stale' = stale \ {t}
    /\ UNCHANGED <<late, saves>>

(* create: userId is unique, so that a second one fails, and the load with *)
(* it; the form keeps its own defaults and says so.                        *)
Create(t) ==
    /\ Moves(t, "creating")
    /\ row' = IF row = {} THEN {Default} ELSE row
    /\ IF row = {} THEN Shows(t, Default, FALSE) ELSE Shows(t, FormDefault, TRUE)
    /\ stale' = stale \ {t}
    /\ UNCHANGED <<late, saves>>

(* The look-up fails before the service has done anything. *)
LoadFails(t) ==
    /\ Moves(t, "loading")
    /\ Shows(t, FormDefault, TRUE)
    /\ UNCHANGED <<row, late, saves, stale>>

(* The switches stay enabled while a save is under way. *)
Edit(t, p) ==
    /\ tab[t].phase \in {"ready", "saving", "saved"}
    /\ p # tab[t].form
    /\ tab' = [tab EXCEPT ![t].form = p]
    /\ UNCHANGED <<row, late, saves, stale>>

Dirty(t) == tab[t].form # tab[t].initial

(* Offered on a dirty form that saves nothing just then.  The error        *)
(* message goes too, even that of a failed load.                           *)
Discard(t) ==
    /\ Moves(t, "ready") /\ Dirty(t)
    /\ tab' = [tab EXCEPT ![t].form = tab[t].initial]
    /\ UNCHANGED <<row, late, saves, stale>>

(* handleSave, up to its await; a clean form may be saved too. *)
Save(t) ==
    /\ Moves(t, "ready") /\ saves < MaxSaves
    /\ tab' = [tab EXCEPT ![t].phase = "saving", ![t].sent = tab[t].form]
    /\ saves' = saves + 1
    /\ UNCHANGED <<row, late, stale>>

(* PATCH: an upsert of all three fields. *)
Upsert(t) ==
    /\ Moves(t, "saving")
    /\ row' = {tab[t].sent}
    /\ tab' = [tab EXCEPT ![t].phase = "saved"]
    /\ stale' = Tab \ {t}
    /\ UNCHANGED <<late, saves>>

(* The answer has come: what was sent is the new point of departure. *)
Saved(t) ==
    /\ Moves(t, "saved")
    /\ tab' = [tab EXCEPT ![t].phase = "ready", ![t].initial = tab[t].sent, ![t].failed = FALSE]
    /\ UNCHANGED <<row, late, saves, stale>>

(* The request is refused, or its answer lost; a PATCH whose connection is  *)
(* lost on the way may still arrive.                                       *)
SaveFails(t) ==
    /\ Moves(t, "saving") \/ Moves(t, "saved")
    /\ tab' = [tab EXCEPT ![t].phase = "ready", ![t].failed = TRUE]
    /\ \/ UNCHANGED late
       \/ Moves(t, "saving") /\ late' = late \cup {tab[t].sent}
    /\ UNCHANGED <<row, saves, stale>>

(* The form is left and opened anew; what it has sent stays under way. *)
Reopen(t) ==
    /\ tab' = [tab EXCEPT ![t] = Opened]
    /\ late' = IF Moves(t, "saving") THEN late \cup {tab[t].sent} ELSE late
    /\ UNCHANGED <<row, saves, stale>>

LateUpsert(p) ==
    /\ p \in late
    /\ row' = {p}
    /\ late' = late \ {p}
    /\ stale' = Tab
    /\ UNCHANGED <<tab, saves>>

Next ==
    \/ \E t \in Tab :
          \/ Find(t) \/ Create(t) \/ LoadFails(t) \/ Discard(t) \/ Save(t)
          \/ \E p \in Prefs : Edit(t, p)
          \/ Upsert(t) \/ Saved(t) \/ SaveFails(t) \/ Reopen(t)
    \/ \E p \in Prefs : LateUpsert(p)

Spec == Init /\ [][Next]_vars

-------------------------------------------------------------------------------
(* A form at rest that is clean, whose last request succeeded and that has *)
(* not been overtaken by another form (the two statements of               *)
(* getNotificationSettings, the edits during handleSave) shows the stored  *)
(* preferences.                                                            *)
PreferencesShown ==
    \A t \in Tab :
        Moves(t, "ready") /\ ~Dirty(t) /\ ~tab[t].failed /\ t \notin stale =>
            row = {tab[t].form}

===============================================================================
