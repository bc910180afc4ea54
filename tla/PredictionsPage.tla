----------------------------- MODULE PredictionsPage -----------------------------
(***************************************************************************)
(* The forecast page (frontend app/(dashboard)/predictions/page.tsx) and   *)
(* what the backend and the ML service run a request on: the logs of a     *)
(* preset, the newest stored logs, or, when there are none, synthetic ones. *)
(* The window and preset buttons are off while the page is loading, the    *)
(* two source buttons are not, and any answer ends the loading.  A forecast *)
(* is known by what it was computed of; its scenarios, which of them is    *)
(* opened and the ticked countermeasures are left out.                     *)
(***************************************************************************)
EXTENDS Integers

CONSTANTS
    Window,   \* bound: the windows chosen, of the six offered
    Day,      \* the window the page starts with
    Preset,   \* the presets of the simulation
    Slot      \* bound: requests under way at a time

VARIABLES
    windowHours, inputMode, selectedPreset, isLoading, error,
    data,       \* the forecast shown, or None
    underway,   \* underway[s]: a request sent and not answered, or None
    crossed     \* history: the last request was sent while another was under way

vars == <<windowHours, inputMode, selectedPreset, isLoading, error, data, underway, crossed>>

None == [logs |-> "none yet"]
Nothing == "no preset"
Payload == [window : Window, logs : {"stored", "empty"} \cup Preset]
Forecast == [window : Window, logs : {"stored", "synthetic"} \cup Preset]

PredictionsTypeOK ==
    /\ windowHours \in Window
    /\ inputMode \in {"database", "simulation"}
    /\ selectedPreset \in Preset \cup {Nothing}
    /\ isLoading \in BOOLEAN /\ error \in BOOLEAN /\ crossed \in BOOLEAN
    /\ data \in Forecast \cup {None}
    /\ underway \in [Slot -> Payload \cup {None}]

Busy == \E s \in Slot : underway[s] # None

(* executePrediction.  Without the logs of a preset it asks for the stored *)
(* ones, in simulation mode for none at all.                               *)
Execute(window, mode, override) ==
    \E s \in Slot :
        /\ underway[s] = None
        /\ underway' = [underway EXCEPT ![s] =
               [window |-> window,
                logs   |-> IF override # Nothing THEN override
                           ELSE IF mode = "database" THEN "stored" ELSE "empty"]]
        /\ isLoading' = TRUE
        /\ error' = FALSE
        /\ crossed' = Busy

(* What predictions.service.ts and main.py run the forecast on. *)
Served(payload) ==
    {[window |-> payload.window, logs |-> logs] : logs \in
        CASE payload.logs = "stored" -> {"stored", "synthetic"}
          [] payload.logs = "empty"  -> {"synthetic"}
          [] OTHER                   -> {payload.logs}}

(* The first effect has run. *)
Init ==
    /\ windowHours = Day /\ inputMode = "database" /\ selectedPreset = Nothing
    /\ isLoading = TRUE /\ error = FALSE
    /\ data = None
    /\ underway \in {[s \in Slot |-> IF s = t THEN [window |-> Day, logs |-> "stored"] ELSE None] :
                       t \in Slot}
    /\ crossed = FALSE

-------------------------------------------------------------------------------
(* A change of the window makes a new executePrediction, which the effect  *)
(* runs; so does a change of the mode.                                     *)

(* Mutant: the callback does not depend on the window. *)
ChooseWindowUnnoticed(w) ==
    /\ ~isLoading
    /\ windowHours' = w
    /\ UNCHANGED <<inputMode, selectedPreset, isLoading, error, data, underway, crossed>>

ChooseWindow(w) ==
    /\ ~isLoading
    /\ w # windowHours
    /\ windowHours' = w
    /\ Execute(w, inputMode, Nothing)
    /\ UNCHANGED <<inputMode, selectedPreset, data>>

HandleInputModeChange(mode) ==
    /\ mode # inputMode
    /\ inputMode' = mode
    /\ selectedPreset' = IF mode = "database" THEN Nothing ELSE selectedPreset
    /\ Execute(windowHours, mode, Nothing)
    /\ UNCHANGED <<windowHours, data>>

HandlePresetRun(p) ==
    /\ inputMode = "simulation"
    /\ ~isLoading
    /\ selectedPreset' = p
    /\ Execute(windowHours, inputMode, p)
    /\ UNCHANGED <<windowHours, inputMode, data>>

(* The run button, and the retry button of the error banner. *)
Rerun ==
    /\ ~isLoading
    /\ Execute(windowHours, inputMode, Nothing)
    /\ UNCHANGED <<windowHours, inputMode, selectedPreset, data>>

-------------------------------------------------------------------------------
(* The answer, or the error, takes its place whatever came in between. *)

Ends(s) ==
    /\ underway[s] # None
    /\ underway' = [underway EXCEPT ![s] = None]
    /\ isLoading' = FALSE
    /\ UNCHANGED <<windowHours, inputMode, selectedPreset, crossed>>

Succeeds(s) ==
    /\ Ends(s)
    /\ data' \in Served(underway[s])
    /\ UNCHANGED error

Fails(s) ==
    /\ Ends(s)
    /\ error' = TRUE
    /\ UNCHANGED data

Next ==
    \/ \E w \in Window : ChooseWindow(w)
    \/ \E mode \in {"database", "simulation"} : HandleInputModeChange(mode)
    \/ \E p \in Preset : HandlePresetRun(p)
    \/ Rerun
    \/ \E s \in Slot : Succeeds(s) \/ Fails(s)

Spec == Init /\ [][Next]_vars

-------------------------------------------------------------------------------
(* Unless requests crossed or the banner reports an error, a page at rest  *)
(* shows the forecast of the window and the source chosen on it, and one   *)
(* of a preset only while that preset is marked.  (A marked preset does    *)
(* not mean its forecast: a new window runs without its logs.)             *)
QuietForecastIsAsked ==
    ~Busy /\ ~crossed /\ ~error =>
        /\ data.window = windowHours
        /\ data.logs = "stored" => inputMode = "database"
        /\ data.logs \in Preset => inputMode = "simulation" /\ selectedPreset = data.logs

===============================================================================
