------------------------------- MODULE PageProofs -------------------------------
(***************************************************************************)
(* Proofs about pages of the frontend: SettingsForm, PredictionsPage,      *)
(* AlertTriage, OverviewPage, AttackMap, LogsPage, LogFilters and          *)
(* ThreatsPage, for every set of what they show and every bound on their   *)
(* requests, and about the forecast that PredictionsPage shows, Forecaster *)
(* of the ML service.  The nine do not interact; each has its own          *)
(* variables here, and the names of the instances of MCTelemetry.          *)
(***************************************************************************)
EXTENDS Integers, Sequences, FiniteSets, FiniteSetTheorems, SequenceTheorems, TLAPS

CONSTANTS
    Rule, Threshold, Value, Score, MaxSaves,                   \* of SettingsForm
    Window, Day, Preset, Slot,                                 \* of PredictionsPage
    MaxAlerts, AlertLimit, MaxPending, MaxCount, DemoList,
    SeverityOf, Target,                                        \* of AlertTriage
    Log, Denied, LastDays, TypeOf, SourceOf, TimeOf,
    TypeLimit, SourceLimit, MergedLimit, ActivityLimit,
    CopyLimit, Panel, MaxAsked,                                \* of OverviewPage
    Attack, IpOf, CountryOf, Critical, OriginLimit,
    CountryLimit, Demo, Search,                                \* of AttackMap
    Chunk, Narrow, MaxFetch,                                   \* of LogsPage
    Line, DemoLine, LineSeverity, LineSource, SeverityOrder,
    Sender, Admitted, Hit, Near, Recent, PerPage, Field,
    LineRank, BaseTotal, MaxPage, MaxKinds,                    \* of LogFilters
    Entity, CategoryOf, MockEntity, Wanted, RowLimit,
    PageSize, Sort, EntityRank,                                \* of ThreatsPage
    Shape, Hours, MaxLogs                                      \* of Forecaster

VARIABLES
    saved, initial, form, formPhase, sent, saves, patches, clean, alerts,
    windowHours, inputMode, selectedPreset, isForecasting, error, forecast, underway, crossed,
    raised, status, resolved, alertsPage, answer, pending, served, mixed,
    stored, copies, data, answered, asked, settled,
    attacks, calls, map, isLoading, filter, filtered, due,
    ingested, copied, query, fetches, shown, upload, stale,
    lines, duplicates, typed, search, severities, sources, place, view, awaited,
    table, sure,
    scored, request, entities, tally, mocked, category, sought, sort, layout, pageNo,
    replaced, torn,
    count

Settings == INSTANCE SettingsForm WITH phase <- formPhase

Forecasts == INSTANCE PredictionsPage WITH isLoading <- isForecasting, data <- forecast

Alerts == INSTANCE AlertTriage WITH Limit <- AlertLimit, page <- alertsPage

Overview == INSTANCE OverviewPage

Map == INSTANCE AttackMap WITH
    Log <- Attack, stored <- attacks, asked <- calls, data <- map

Logs == INSTANCE LogsPage WITH Log <- Chunk, stored <- ingested, copies <- copied

Filters == INSTANCE LogFilters WITH
    Log <- Line, Mock <- DemoLine, SeverityOf <- LineSeverity, SourceOf <- LineSource,
    Source <- Sender, Accepted <- Admitted, Found <- Hit, Rank <- LineRank,
    stored <- lines, copies <- duplicates, due <- awaited

Threats == INSTANCE ThreatsPage WITH
    Mock <- MockEntity, Matching <- Wanted, Limit <- RowLimit, Rank <- EntityRank,
    stored <- scored, fetch <- request, summary <- tally, demo <- mocked,
    filter <- category, search <- sought, view <- layout, page <- pageNo

(* The forecaster for a list c of logs, to compare that of two lists. *)
Forecast(c) == INSTANCE Forecaster WITH Window <- Hours, count <- c

-------------------------------------------------------------------------------
(* SettingsForm.  A clean form at rest has no request under way and knows  *)
(* the rows; one that saves has under way, of every rule, the value of the *)
(* click, or that value is stored already.                                 *)
FormKnows ==
    /\ formPhase = "fetching" => ~clean
    /\ clean /\ formPhase = "idle" => patches = {} /\ initial = Settings!Loaded
    /\ clean /\ formPhase = "saving" =>
          /\ \A p \in patches : \E k \in Rule : p = <<saves, k, sent[k]>>
          /\ \A k \in Rule : <<saves, k, sent[k]>> \in patches \/ saved[k] = sent[k]

SettingsInv == Settings!SettingsTypeOK /\ FormKnows

SettingsAssumption == Value \in SUBSET Nat /\ MaxSaves \in Nat

LEMMA SettingsInit == ASSUME SettingsAssumption PROVE Settings!Init => SettingsInv
<1> SUFFICES ASSUME Settings!Init PROVE SettingsInv
  OBVIOUS
<1>1. ~clean /\ clean \in BOOLEAN
  BY DEF Settings!Init
<1>2. Settings!SettingsTypeOK
  BY <1>1 DEF Settings!Init, Settings!SettingsTypeOK, Settings!Defaults, Settings!Default,
     Settings!Unset, SettingsAssumption
<1> QED BY <1>1, <1>2 DEF SettingsInv, FormKnows

(* What a fetch shows are values of the inputs. *)
LEMMA LoadedTyped ==
  ASSUME Settings!SettingsTypeOK
  PROVE  Settings!Loaded \in [Rule -> Value \cup {Settings!Default}]
  BY DEF Settings!SettingsTypeOK, Settings!Loaded

(* A request names a rule and a value. *)
LEMMA PatchTyped ==
  ASSUME Settings!SettingsTypeOK, NEW p \in patches
  PROVE  p[2] \in Rule /\ p[3] \in Value \cup {Settings!Default}
  BY DEF Settings!SettingsTypeOK, Settings!Patch

(* Where every rule is stored as it was sent, what was sent is the rows. *)
LEMMA SentIsLoaded ==
  ASSUME SettingsAssumption, Settings!SettingsTypeOK, \A k \in Rule : saved[k] = sent[k]
  PROVE  sent = Settings!Loaded
<1>1. \A k \in Rule : sent[k] \in Value \cup {Settings!Default}
  BY DEF Settings!SettingsTypeOK
<1>2. \A k \in Rule : saved[k] # Settings!Unset
  BY <1>1 DEF Settings!Unset, Settings!Default, SettingsAssumption
<1>3. sent = [k \in Rule |-> sent[k]]
  BY DEF Settings!SettingsTypeOK
<1> QED BY <1>2, <1>3 DEF Settings!Loaded

LEMMA SettingsNext ==
  ASSUME SettingsAssumption, SettingsInv, [Settings!Next]_(Settings!vars)
  PROVE  SettingsInv'
<1>0. /\ Settings!SettingsTypeOK /\ FormKnows
  BY DEF SettingsInv
<1>1. CASE Settings!Fetched
  <2>1. clean' \in BOOLEAN
    BY <1>1 DEF Settings!Fetched
  <2>2. Settings!SettingsTypeOK'
    BY <1>0, <1>1, <2>1, LoadedTyped DEF Settings!Fetched, Settings!SettingsTypeOK
  <2>3. clean' => patches = {}
    BY <1>1 DEF Settings!Fetched
  <2>4. Settings!Loaded' = Settings!Loaded
    BY <1>1 DEF Settings!Fetched, Settings!Loaded
  <2> QED BY <1>1, <2>2, <2>3, <2>4 DEF SettingsInv, FormKnows, Settings!Fetched
<1>2. CASE Settings!FetchFailed
  <2>1. clean' \in BOOLEAN /\ ~clean'
    BY <1>2 DEF Settings!FetchFailed
  <2>2. Settings!SettingsTypeOK'
    BY <1>0, <1>2, <2>1 DEF Settings!FetchFailed, Settings!SettingsTypeOK
  <2> QED BY <2>1, <2>2 DEF SettingsInv, FormKnows
<1>3. CASE Settings!Discard
  <2>1. Settings!SettingsTypeOK'
    BY <1>0, <1>3 DEF Settings!Discard, Settings!SettingsTypeOK
  <2>2. Settings!Loaded' = Settings!Loaded
    BY <1>3 DEF Settings!Discard, Settings!Loaded
  <2> QED BY <1>0, <1>3, <2>1, <2>2 DEF SettingsInv, FormKnows, Settings!Discard
<1>4. CASE Settings!Reenter
  <2>1. clean' \in BOOLEAN /\ ~clean'
    BY <1>4 DEF Settings!Reenter
  <2>2. Settings!Defaults \in [Rule -> Value \cup {Settings!Default}]
    BY DEF Settings!Defaults
  <2>3. Settings!SettingsTypeOK'
    BY <1>0, <1>4, <2>1, <2>2 DEF Settings!Reenter, Settings!SettingsTypeOK
  <2> QED BY <2>1, <2>3 DEF SettingsInv, FormKnows
<1>5. CASE Settings!Save
  <2>1. clean' \in BOOLEAN
    BY <1>5 DEF Settings!Save
  <2>2. saves \in 0..MaxSaves /\ saves' = saves + 1 /\ saves' \in 1..MaxSaves
    BY <1>0, <1>5 DEF Settings!Save, Settings!SettingsTypeOK, SettingsAssumption
  <2>3. form \in [Rule -> Value \cup {Settings!Default}] /\ sent' = form
    BY <1>0, <1>5 DEF Settings!Save, Settings!SettingsTypeOK
  <2>4. patches' = patches \cup {<<saves', k, form[k]>> : k \in Rule}
    BY <1>5, <2>2 DEF Settings!Save
  <2>5. patches' \subseteq Settings!Patch
    BY <1>0, <2>2, <2>3, <2>4 DEF Settings!SettingsTypeOK, Settings!Patch
  <2>6. Settings!SettingsTypeOK'
    BY <1>0, <1>5, <2>1, <2>2, <2>3, <2>5, SettingsAssumption DEF Settings!Save, Settings!SettingsTypeOK
  <2>7. clean' => patches = {}
    BY <1>5 DEF Settings!Save
  <2>8. formPhase' = "saving"
    BY <1>5 DEF Settings!Save
  <2> QED BY <2>3, <2>4, <2>6, <2>7, <2>8 DEF SettingsInv, FormKnows
<1>6. CASE Settings!Saved
  <2>1. Settings!SettingsTypeOK'
    BY <1>0, <1>6 DEF Settings!Saved, Settings!SettingsTypeOK
  <2>2. formPhase = "saving" /\ formPhase' = "idle" /\ initial' = sent /\ patches' = patches
        /\ \A p \in patches : p[1] # saves
    BY <1>6 DEF Settings!Saved, Settings!OfThisSave
  <2>3. clean' = clean
    BY <1>6 DEF Settings!Saved
  <2>4. Settings!Loaded' = Settings!Loaded
    BY <1>6 DEF Settings!Saved, Settings!Loaded
  <2>5. ASSUME clean PROVE patches = {} /\ sent = Settings!Loaded
    <3>1. \A p \in patches : p[1] = saves
      BY <1>0, <2>2, <2>5 DEF FormKnows
    <3>2. patches = {}
      BY <2>2, <3>1
    <3>3. \A k \in Rule : saved[k] = sent[k]
      BY <1>0, <2>2, <2>5, <3>2 DEF FormKnows
    <3> QED BY <1>0, <3>2, <3>3, SentIsLoaded
  <2> QED BY <2>1, <2>2, <2>3, <2>4, <2>5 DEF SettingsInv, FormKnows
<1>7. ASSUME NEW k \in Rule, NEW v \in Value, Settings!Edit(k, v) PROVE SettingsInv'
  <2>1. Settings!SettingsTypeOK'
    BY <1>0, <1>7 DEF Settings!Edit, Settings!SettingsTypeOK
  <2>2. Settings!Loaded' = Settings!Loaded
    BY <1>7 DEF Settings!Edit, Settings!Loaded
  <2> QED BY <1>0, <1>7, <2>1, <2>2 DEF SettingsInv, FormKnows, Settings!Edit
<1>8. ASSUME NEW k \in Rule, NEW v \in Value, Settings!OtherAdmin(k, v) PROVE SettingsInv'
  <2>1. clean' \in BOOLEAN /\ ~clean'
    BY <1>8 DEF Settings!OtherAdmin
  <2>2. Settings!SettingsTypeOK'
    BY <1>0, <1>8, <2>1 DEF Settings!OtherAdmin, Settings!SettingsTypeOK
  <2> QED BY <2>1, <2>2 DEF SettingsInv, FormKnows
<1>9. ASSUME NEW p \in patches, Settings!Upsert(p) PROVE SettingsInv'
  <2>1. /\ saved' = [saved EXCEPT ![p[2]] = p[3]]
        /\ patches' = patches \ {p}
        /\ UNCHANGED <<initial, form, formPhase, sent, saves, alerts>>
    BY <1>9 DEF Settings!Upsert
  <2>2. clean' = clean
    BY <1>9 DEF Settings!Upsert
  <2>3. Settings!SettingsTypeOK'
    BY <1>0, <2>1, <2>2, PatchTyped DEF Settings!SettingsTypeOK
  <2>4. ASSUME clean, formPhase = "saving"
        PROVE  /\ \A q \in patches' : \E k \in Rule : q = <<saves, k, sent[k]>>
               /\ \A k \in Rule : <<saves, k, sent[k]>> \in patches' \/ saved'[k] = sent[k]
    <3>1. PICK k \in Rule : p = <<saves, k, sent[k]>>
      BY <1>0, <1>9, <2>4 DEF FormKnows
    <3>2. saved' = [saved EXCEPT ![k] = sent[k]]
      BY <2>1, <3>1
    <3>3. saved'[k] = sent[k] /\ \A j \in Rule : j # k => saved'[j] = saved[j]
      BY <1>0, <3>2 DEF Settings!SettingsTypeOK
    <3>4. \A j \in Rule : j # k => <<saves, j, sent[j]>> # p
      BY <3>1
    <3> QED BY <1>0, <2>1, <2>4, <3>3, <3>4 DEF FormKnows
  <2> QED BY <1>0, <1>9, <2>1, <2>2, <2>3, <2>4 DEF SettingsInv, FormKnows
<1>10. ASSUME NEW p \in patches, Settings!PatchFailed(p) PROVE SettingsInv'
  <2>1. clean' \in BOOLEAN /\ ~clean'
    BY <1>10 DEF Settings!PatchFailed
  <2>2. Settings!SettingsTypeOK'
    BY <1>0, <1>10, <2>1, PatchTyped DEF Settings!PatchFailed, Settings!SettingsTypeOK
  <2> QED BY <2>1, <2>2 DEF SettingsInv, FormKnows
<1>11. ASSUME NEW score \in Score, Settings!RaiseAlert(score) PROVE SettingsInv'
  <2>1. Settings!SettingsTypeOK'
    BY <1>0, <1>11 DEF Settings!RaiseAlert, Settings!SettingsTypeOK
  <2>2. Settings!Loaded' = Settings!Loaded
    BY <1>11 DEF Settings!RaiseAlert, Settings!Loaded
  <2> QED BY <1>0, <1>11, <2>1, <2>2 DEF SettingsInv, FormKnows, Settings!RaiseAlert
<1>12. CASE UNCHANGED Settings!vars
  <2>1. Settings!SettingsTypeOK'
    BY <1>0, <1>12 DEF Settings!vars, Settings!SettingsTypeOK
  <2>2. Settings!Loaded' = Settings!Loaded
    BY <1>12 DEF Settings!vars, Settings!Loaded
  <2> QED BY <1>0, <1>12, <2>1, <2>2 DEF SettingsInv, FormKnows, Settings!vars
<1> QED BY <1>1, <1>2, <1>3, <1>4, <1>5, <1>6, <1>7, <1>8, <1>9, <1>10, <1>11, <1>12
        DEF Settings!Next

(* A form at rest. *)
LEMMA SettingsShown == SettingsInv => Settings!SavedIsStored
  BY DEF SettingsInv, FormKnows, Settings!SavedIsStored

(* A form at rest knows what is stored, unless since its last fetch or     *)
(* save a request failed or crossed, or somebody else wrote                *)
(* (platform-settings.tsx handleSave).                                     *)
THEOREM RulesAreKnown ==
  ASSUME SettingsAssumption PROVE Settings!Spec => []Settings!SavedIsStored
  BY SettingsInit, SettingsNext, SettingsShown, PTL DEF Settings!Spec

-------------------------------------------------------------------------------
(* PredictionsPage.  What a request, or the forecast of its answer, was    *)
(* computed of is what the page has chosen.                                *)
Chosen(x) ==
    /\ x.window = windowHours
    /\ x.logs = "stored" => inputMode = "database"
    /\ x.logs \in Preset => inputMode = "simulation" /\ selectedPreset = x.logs

(* As long as no requests crossed there is one at most, of what is chosen. *)
OneRequest ==
    ~crossed =>
        /\ \A s, t \in Slot : underway[s] # Forecasts!None /\ underway[t] # Forecasts!None
                                => s = t
        /\ \A s \in Slot : underway[s] # Forecasts!None => Chosen(underway[s])

ForecastsInv ==
    /\ Forecasts!PredictionsTypeOK
    /\ OneRequest
    /\ ~crossed /\ ~error /\ ~Forecasts!Busy => Chosen(forecast)

(* The names of presets are not those of the other sources. *)
ForecastsAssumption ==
    /\ Day \in Window
    /\ \A p \in Preset : p \notin {"stored", "synthetic", "empty", "none yet", "no preset"}

(* The first request is of what the page starts with. *)
LEMMA ForecastsInit == ASSUME ForecastsAssumption PROVE Forecasts!Init => ForecastsInv
<1> SUFFICES ASSUME Forecasts!Init PROVE ForecastsInv
  OBVIOUS
<1>1. PICK t \in Slot :
        underway = [s \in Slot |-> IF s = t THEN [window |-> Day, logs |-> "stored"]
                                   ELSE Forecasts!None]
  BY DEF Forecasts!Init
<1>2. [window |-> Day, logs |-> "stored"] \in Forecasts!Payload
  BY DEF Forecasts!Payload, ForecastsAssumption
<1>3. /\ isForecasting \in BOOLEAN /\ error \in BOOLEAN /\ crossed \in BOOLEAN
  BY DEF Forecasts!Init
<1>4. Forecasts!PredictionsTypeOK
  BY <1>1, <1>2, <1>3 DEF Forecasts!Init, Forecasts!PredictionsTypeOK, ForecastsAssumption
<1>5. \A s \in Slot : underway[s] # Forecasts!None =>
         s = t /\ underway[s] = [window |-> Day, logs |-> "stored"]
  BY <1>1
<1>6. underway[t] = [window |-> Day, logs |-> "stored"]
  BY <1>1
<1>7. underway[t] # Forecasts!None
  <2>1. underway[t].logs = "stored" /\ Forecasts!None.logs = "none yet"
    BY <1>6 DEF Forecasts!None
  <2> QED BY <2>1
<1>8. OneRequest
  <2>1. windowHours = Day /\ inputMode = "database" /\ "stored" \notin Preset
    BY DEF Forecasts!Init, ForecastsAssumption
  <2>2. \A s \in Slot : underway[s] # Forecasts!None =>
           underway[s].window = Day /\ underway[s].logs = "stored"
    BY <1>5
  <2> QED BY <1>5, <2>1, <2>2 DEF OneRequest, Chosen
<1> QED BY <1>4, <1>7, <1>8 DEF ForecastsInv, Forecasts!Busy

(* What a request that is sent leaves, whatever has been chosen. *)
LEMMA RequestSent ==
  ASSUME ForecastsAssumption, ForecastsInv,
         NEW window \in Window, NEW mode \in {"database", "simulation"},
         NEW override \in Preset \cup {Forecasts!Nothing},
         Forecasts!Execute(window, mode, override),
         windowHours' = window, inputMode' = mode, forecast' = forecast,
         selectedPreset' \in Preset \cup {Forecasts!Nothing},
         override \in Preset => mode = "simulation" /\ selectedPreset' = override
  PROVE  ForecastsInv'
<1> DEFINE payload == [window |-> window,
                       logs |-> IF override # Forecasts!Nothing THEN override
                                ELSE IF mode = "database" THEN "stored" ELSE "empty"]
<1>0. PICK s \in Slot : underway[s] = Forecasts!None
                        /\ underway' = [underway EXCEPT ![s] = payload]
  BY DEF Forecasts!Execute
<1>1. payload \in Forecasts!Payload
  BY DEF Forecasts!Payload, Forecasts!Nothing
<1>2. /\ isForecasting' \in BOOLEAN /\ error' \in BOOLEAN /\ crossed' \in BOOLEAN
  <2>1. isForecasting' \in BOOLEAN
    BY DEF Forecasts!Execute
  <2>2. error' \in BOOLEAN
    BY DEF Forecasts!Execute
  <2>3. crossed' \in BOOLEAN
    BY DEF Forecasts!Execute, Forecasts!Busy
  <2> QED BY <2>1, <2>2, <2>3
<1>3. Forecasts!PredictionsTypeOK
  BY DEF ForecastsInv
<1>4. Forecasts!PredictionsTypeOK'
  BY <1>0, <1>1, <1>2, <1>3 DEF Forecasts!PredictionsTypeOK
<1>5. /\ underway'[s] = payload
      /\ \A t \in Slot : t # s => underway'[t] = underway[t]
  BY <1>0, <1>3 DEF Forecasts!PredictionsTypeOK
<1>6. payload # Forecasts!None
  BY DEF Forecasts!None, Forecasts!Nothing, ForecastsAssumption
<1>7. ~crossed' => \A t \in Slot : underway[t] = Forecasts!None
  BY DEF Forecasts!Execute, Forecasts!Busy
<1>8. /\ payload.window = windowHours'
      /\ payload.logs = "stored" => inputMode' = "database"
      /\ payload.logs \in Preset => inputMode' = "simulation" /\ selectedPreset' = payload.logs
  BY DEF Forecasts!Nothing, ForecastsAssumption
<1>9. OneRequest'
  BY <1>5, <1>7, <1>8 DEF OneRequest, Chosen
<1>10. Forecasts!Busy'
  BY <1>5, <1>6 DEF Forecasts!Busy
<1> QED BY <1>4, <1>9, <1>10 DEF ForecastsInv

(* An answer is of the logs that were asked for, or of synthetic ones. *)
LEMMA RequestAnswered ==
  ASSUME ForecastsAssumption, NEW payload \in Forecasts!Payload,
         NEW x \in Forecasts!Served(payload)
  PROVE  /\ x \in Forecasts!Forecast
         /\ Chosen(payload) => Chosen(x)
<1>1. /\ payload.window \in Window /\ payload.logs \in {"stored", "empty"} \cup Preset
  BY DEF Forecasts!Payload
<1>2. PICK l : /\ x = [window |-> payload.window, logs |-> l]
               /\ l \in CASE payload.logs = "stored" -> {"stored", "synthetic"}
                          [] payload.logs = "empty"  -> {"synthetic"}
                          [] OTHER                   -> {payload.logs}
  BY DEF Forecasts!Served
<1>3. (l = payload.logs /\ l # "empty") \/ l = "synthetic"
  BY <1>2
<1>4. x \in Forecasts!Forecast
  BY <1>1, <1>2, <1>3 DEF Forecasts!Forecast
<1>5. x.window = payload.window /\ x.logs = l
  BY <1>2
<1> QED BY <1>3, <1>4, <1>5 DEF Chosen, ForecastsAssumption

LEMMA ForecastsNext ==
  ASSUME ForecastsAssumption, ForecastsInv, [Forecasts!Next]_(Forecasts!vars)
  PROVE  ForecastsInv'
<1>0. Forecasts!PredictionsTypeOK /\ OneRequest
  BY DEF ForecastsInv
<1>1. ASSUME NEW w \in Window, Forecasts!ChooseWindow(w) PROVE ForecastsInv'
  BY <1>0, <1>1, RequestSent DEF Forecasts!ChooseWindow, Forecasts!PredictionsTypeOK, Forecasts!Nothing,
     ForecastsAssumption
<1>2. ASSUME NEW mode \in {"database", "simulation"}, Forecasts!HandleInputModeChange(mode)
      PROVE  ForecastsInv'
  BY <1>0, <1>2, RequestSent DEF Forecasts!HandleInputModeChange, Forecasts!PredictionsTypeOK,
     Forecasts!Nothing, ForecastsAssumption
<1>3. ASSUME NEW p \in Preset, Forecasts!HandlePresetRun(p) PROVE ForecastsInv'
  BY <1>0, <1>3, RequestSent DEF Forecasts!HandlePresetRun, Forecasts!PredictionsTypeOK
<1>4. CASE Forecasts!Rerun
  BY <1>0, <1>4, RequestSent DEF Forecasts!Rerun, Forecasts!PredictionsTypeOK, Forecasts!Nothing,
     ForecastsAssumption
<1>5. ASSUME NEW s \in Slot, Forecasts!Ends(s)
      PROVE  /\ underway' \in [Slot -> Forecasts!Payload \cup {Forecasts!None}]
             /\ OneRequest'
             /\ ~crossed => ~Forecasts!Busy' /\ Chosen(underway[s])
             /\ underway[s] \in Forecasts!Payload
  <2>1. /\ underway[s] # Forecasts!None
        /\ underway' = [underway EXCEPT ![s] = Forecasts!None]
        /\ UNCHANGED <<windowHours, inputMode, selectedPreset>>
    BY <1>5 DEF Forecasts!Ends
  <2>2. crossed' = crossed
    BY <1>5 DEF Forecasts!Ends
  <2>3. underway \in [Slot -> Forecasts!Payload \cup {Forecasts!None}]
    BY <1>0 DEF Forecasts!PredictionsTypeOK
  <2>4. \A t \in Slot : underway'[t] # Forecasts!None => t # s /\ underway'[t] = underway[t]
    BY <2>1, <2>3
  <2>5. OneRequest'
    BY <1>0, <2>1, <2>2, <2>4 DEF OneRequest, Chosen
  <2>6. ~crossed => ~Forecasts!Busy' /\ Chosen(underway[s])
    BY <1>0, <2>1, <2>4 DEF OneRequest, Forecasts!Busy
  <2> QED BY <2>1, <2>3, <2>5, <2>6
<1>6. ASSUME NEW s \in Slot, Forecasts!Succeeds(s) PROVE ForecastsInv'
  <2>1. Forecasts!Ends(s) /\ forecast' \in Forecasts!Served(underway[s]) /\ error' = error
    BY <1>6 DEF Forecasts!Succeeds
  <2>2. isForecasting' \in BOOLEAN /\ crossed' = crossed
    BY <2>1 DEF Forecasts!Ends
  <2>3. UNCHANGED <<windowHours, inputMode, selectedPreset>>
    BY <2>1 DEF Forecasts!Ends
  <2>4. forecast' \in Forecasts!Forecast /\ (~crossed => Chosen(forecast'))
    BY <1>5, <2>1, RequestAnswered
  <2>5. Forecasts!PredictionsTypeOK'
    BY <1>0, <1>5, <2>1, <2>2, <2>3, <2>4 DEF Forecasts!PredictionsTypeOK
  <2>6. ~crossed' => Chosen(forecast)'
    BY <2>2, <2>3, <2>4 DEF Chosen
  <2> QED BY <1>5, <2>1, <2>5, <2>6 DEF ForecastsInv
<1>7. ASSUME NEW s \in Slot, Forecasts!Fails(s) PROVE ForecastsInv'
  <2>1. Forecasts!Ends(s) /\ forecast' = forecast
    BY <1>7 DEF Forecasts!Fails
  <2>2. isForecasting' \in BOOLEAN /\ crossed' = crossed
    BY <2>1 DEF Forecasts!Ends
  <2>3. error' \in BOOLEAN /\ error'
    BY <1>7 DEF Forecasts!Fails
  <2>4. UNCHANGED <<windowHours, inputMode, selectedPreset>>
    BY <2>1 DEF Forecasts!Ends
  <2>5. Forecasts!PredictionsTypeOK'
    BY <1>0, <1>5, <2>1, <2>2, <2>3, <2>4 DEF Forecasts!PredictionsTypeOK
  <2> QED BY <1>5, <2>1, <2>3, <2>5 DEF ForecastsInv
<1>8. CASE UNCHANGED Forecasts!vars
  BY <1>8 DEF Forecasts!vars, ForecastsInv, Forecasts!PredictionsTypeOK, OneRequest, Chosen,
              Forecasts!Busy
<1> QED BY <1>1, <1>2, <1>3, <1>4, <1>6, <1>7, <1>8 DEF Forecasts!Next

(* A page at rest. *)
LEMMA ForecastsShown == ForecastsInv => Forecasts!QuietForecastIsAsked
  BY DEF ForecastsInv, Chosen, Forecasts!QuietForecastIsAsked

(* Unless requests crossed or the banner reports an error, a page at rest  *)
(* shows the forecast of the window and the source chosen on it            *)
(* (predictions/page.tsx executePrediction).                               *)
THEOREM ForecastIsAsked ==
  ASSUME ForecastsAssumption PROVE Forecasts!Spec => []Forecasts!QuietForecastIsAsked
  BY ForecastsInit, ForecastsNext, ForecastsShown, PTL DEF Forecasts!Spec

-------------------------------------------------------------------------------
(* AlertTriage.  The lists of a live page, of the answer on its way and of *)
(* the snapshots are of rows, which are never deleted.                     *)
ListsAreOfRows ==
    /\ ~alertsPage.demo => DOMAIN alertsPage.list \subseteq 1..raised
    /\ answer.phase = "sent" => DOMAIN answer.list \subseteq 1..raised
    /\ \A k \in Alerts!Slot :
          pending[k] # Alerts!Free => DOMAIN pending[k].list \subseteq 1..raised

(* As long as nothing happened during an action there is one at most, on a *)
(* live page, and the page or else its snapshot is what was served.        *)
OneAction ==
    ~mixed =>
        /\ \A j, k \in Alerts!Slot :
              pending[j] # Alerts!Free /\ pending[k] # Alerts!Free => j = k
        /\ alertsPage.demo => ~Alerts!InFlight
        /\ ~alertsPage.demo /\ ~Alerts!InFlight =>
              alertsPage.list = served /\ alertsPage.counts = Alerts!Tally(served)
        /\ \A k \in Alerts!Slot : pending[k] # Alerts!Free =>
              pending[k].list = served /\ pending[k].counts = Alerts!Tally(served)

AlertsInv == Alerts!TypeOK /\ ListsAreOfRows /\ OneAction

AlertsAssumption ==
    /\ MaxAlerts \in Nat /\ MaxPending \in Nat
    /\ IsFiniteSet(Alerts!Demo) /\ DemoList \in [Alerts!Demo -> Alerts!Status]
    /\ Target \in SUBSET Alerts!Status

(* A list is a function of the alerts listed. *)
LEMMA ListShape ==
  ASSUME NEW S, NEW list
  PROVE  list \in Alerts!Lists(S)
           <=> DOMAIN list \in SUBSET S /\ list \in [DOMAIN list -> Alerts!Status]
<1>1. ASSUME list \in Alerts!Lists(S)
      PROVE  DOMAIN list \in SUBSET S /\ list \in [DOMAIN list -> Alerts!Status]
  <2>1. PICK T \in SUBSET S : list \in [T -> Alerts!Status]
    BY <1>1 DEF Alerts!Lists
  <2> QED BY <2>1
<1>2. ASSUME DOMAIN list \in SUBSET S, list \in [DOMAIN list -> Alerts!Status]
      PROVE  list \in Alerts!Lists(S)
  BY <1>2 DEF Alerts!Lists
<1> QED BY <1>1, <1>2

(* There is one cardinality. *)
LEMMA SameCardinality == \A S : Alerts!Cardinality(S) = Cardinality(S)
  BY DEF Alerts!Cardinality, Cardinality

(* The counters of a list of finitely many alerts are numbers. *)
LEMMA TallyTyped ==
  ASSUME NEW list, IsFiniteSet(DOMAIN list)
  PROVE  Alerts!Tally(list) \in Alerts!Counters
<1> DEFINE n(s) == Cardinality({a \in DOMAIN list : list[a] = s})
<1>1. ASSUME NEW s \in Alerts!Status
      PROVE  n(s) \in Nat
  <2>1. IsFiniteSet({a \in DOMAIN list : list[a] = s})
    BY FS_Subset
  <2> QED BY <2>1, FS_CardinalityType
<1>2. Alerts!Tally(list) = [s \in Alerts!Status |-> n(s)]
  BY SameCardinality DEF Alerts!Tally
<1> HIDE DEF n
<1> QED BY <1>1, <1>2 DEF Alerts!Counters

(* Rows, and so the alerts of a list of rows, are finitely many. *)
LEMMA RowsFinite ==
  ASSUME AlertsAssumption, NEW S \in SUBSET Alerts!Id
  PROVE  IsFiniteSet(S)
<1>1. IsFiniteSet(1..MaxAlerts)
  BY FS_Interval DEF AlertsAssumption
<1> QED BY <1>1, FS_Subset DEF Alerts!Id

LEMMA AlertsInitInv == ASSUME AlertsAssumption PROVE Alerts!Init => AlertsInv
<1> SUFFICES ASSUME Alerts!Init PROVE AlertsInv
  OBVIOUS
<1>1. \A S : [a \in {} |-> "NEW"] \in Alerts!Lists(S)
  BY ListShape
<1>2. DemoList \in Alerts!Lists(Alerts!Demo)
  BY ListShape DEF AlertsAssumption
<1>3. Alerts!Tally(DemoList) \in Alerts!Counters
  BY TallyTyped DEF AlertsAssumption, Alerts!Demo
<1>4. alertsPage = [list |-> DemoList, counts |-> Alerts!Tally(DemoList), demo |-> TRUE]
  BY DEF Alerts!Init
<1>5. mixed \in BOOLEAN
  BY DEF Alerts!Init
<1>6. /\ raised \in 0..MaxAlerts /\ status \in [1..raised -> Alerts!Status]
      /\ resolved \subseteq 1..raised
  BY DEF Alerts!Init, AlertsAssumption
<1>7. alertsPage \in [list : Alerts!Lists(Alerts!Id) \cup Alerts!Lists(Alerts!Demo),
                      counts : Alerts!Counters, demo : BOOLEAN]
  BY <1>2, <1>3, <1>4
<1>8. Alerts!TypeOK
  BY <1>1, <1>5, <1>6, <1>7 DEF Alerts!Init, Alerts!TypeOK
<1>9. alertsPage.demo
  BY <1>4
<1>10. \A k \in Alerts!Slot : pending[k] = Alerts!Free
  BY DEF Alerts!Init
<1>11. answer.phase = "asked"
  BY DEF Alerts!Init
<1> QED BY <1>8, <1>9, <1>10, <1>11 DEF AlertsInv, ListsAreOfRows, OneAction, Alerts!InFlight

-------------------------------------------------------------------------------
(* A page is its list, its counters and its flag. *)
LEMMA PageShape ==
  ASSUME Alerts!TypeOK
  PROVE  /\ alertsPage = [list |-> alertsPage.list, counts |-> alertsPage.counts,
                          demo |-> alertsPage.demo]
         /\ alertsPage.list \in Alerts!Lists(Alerts!Id) \cup Alerts!Lists(Alerts!Demo)
         /\ alertsPage.counts \in Alerts!Counters
         /\ alertsPage.demo \in BOOLEAN
  BY DEF Alerts!TypeOK

(* A button that some filter shows is on an alert of the list. *)
LEMMA OfferedListed ==
  ASSUME NEW id, NEW to, Alerts!Offered(id, to)
  PROVE  id \in DOMAIN alertsPage.list /\ to \in Alerts!Status
<1>1. to \in Alerts!Status
  BY DEF Alerts!Offered, Alerts!RowButtons, Alerts!CardButtons, Alerts!Status
<1>2. PICK f \in Alerts!Filters :
        id \in Alerts!QueueTable(f) \/ id \in Alerts!IncidentsGrid(f)
  BY DEF Alerts!Offered
<1>3. id \in Alerts!FilteredAlerts(f)
  BY <1>2 DEF Alerts!QueueTable, Alerts!IncidentsGrid, Alerts!ActiveIncidents
<1> QED BY <1>1, <1>3 DEF Alerts!FilteredAlerts

(* What the edit of an action leaves. *)
LEMMA EditedShape ==
  ASSUME Alerts!TypeOK, NEW id \in DOMAIN alertsPage.list, NEW to \in Alerts!Status
  PROVE  /\ Alerts!Edited(id, to) \in
               [list : Alerts!Lists(Alerts!Id) \cup Alerts!Lists(Alerts!Demo),
                counts : Alerts!Counters, demo : BOOLEAN]
         /\ DOMAIN Alerts!Edited(id, to).list = DOMAIN alertsPage.list
         /\ Alerts!Edited(id, to).demo = alertsPage.demo
<1> DEFINE list == [alertsPage.list EXCEPT ![id] = to]
           old == alertsPage.list[id]
           less == [alertsPage.counts EXCEPT ![old] =
                      IF alertsPage.counts[old] > 0 THEN alertsPage.counts[old] - 1 ELSE 0]
           counts == [less EXCEPT ![to] = alertsPage.counts[to] + 1]
<1>0. Alerts!Edited(id, to) = [alertsPage EXCEPT !.list = list, !.counts = counts]
  BY DEF Alerts!Edited
<1>1. Alerts!Edited(id, to) = [list |-> list, counts |-> counts, demo |-> alertsPage.demo]
  <2> HIDE DEF list, counts
  <2> QED BY <1>0, PageShape
<1>2. \A S : alertsPage.list \in Alerts!Lists(S) => list \in Alerts!Lists(S)
  BY ListShape
<1>3. list \in Alerts!Lists(Alerts!Id) \cup Alerts!Lists(Alerts!Demo)
  BY <1>2, PageShape
<1>4. alertsPage.counts \in [Alerts!Status -> Nat] /\ alertsPage.counts[to] \in Nat
  BY PageShape DEF Alerts!Counters
<1>5. less \in [Alerts!Status -> Nat]
  <2>1. old \in Alerts!Status
    BY ListShape, PageShape
  <2>2. alertsPage.counts[old] \in Nat
    BY <1>4, <2>1
  <2>3. (IF alertsPage.counts[old] > 0 THEN alertsPage.counts[old] - 1 ELSE 0) \in Nat
    BY <2>2
  <2> QED BY <1>4, <2>3
<1>6. counts \in Alerts!Counters
  BY <1>4, <1>5 DEF Alerts!Counters
<1> HIDE DEF list, counts
<1>7. DOMAIN list = DOMAIN alertsPage.list
  BY DEF list
<1> QED BY <1>1, <1>3, <1>6, <1>7, PageShape

(* A step of the backend: the page is as it was, and rows only come.       *)
LEMMA BackendKeeps ==
  ASSUME AlertsAssumption, AlertsInv,
         \/ Alerts!Raise \/ \E a \in Alerts!Id, s \in Target \cup {"NEW"} : Alerts!Update(a, s)
         \/ Alerts!Serve \/ Alerts!Sync
  PROVE  AlertsInv'
<1>0. Alerts!TypeOK /\ ListsAreOfRows /\ OneAction /\ MaxAlerts \in Nat /\ raised \in 0..MaxAlerts
  BY DEF AlertsInv, Alerts!TypeOK, AlertsAssumption
<1>1. CASE Alerts!Raise
  <2>1. /\ raised' = raised + 1 /\ raised' \in 0..MaxAlerts
        /\ UNCHANGED <<resolved, alertsPage, answer, pending, served>>
    BY <1>0, <1>1 DEF Alerts!Raise
  <2>2. mixed' = mixed
    BY <1>1 DEF Alerts!Raise
  <2>3. 1..raised \subseteq 1..raised'
    BY <1>0, <2>1
  <2>4. status' \in [1..raised' -> Alerts!Status]
    <3>1. \A a \in 1..raised' : a = raised' \/ a \in 1..raised
      BY <1>0, <2>1
    <3>2. \A a \in 1..raised : status[a] \in Alerts!Status
      BY <1>0 DEF Alerts!TypeOK
    <3>3. status' = [a \in 1..raised' |-> IF a = raised' THEN "NEW" ELSE status[a]]
      BY <1>1 DEF Alerts!Raise
    <3> QED BY <3>1, <3>2, <3>3 DEF Alerts!Status
  <2>5. Alerts!TypeOK'
    BY <1>0, <2>1, <2>2, <2>3, <2>4 DEF Alerts!TypeOK
  <2>6. ListsAreOfRows'
    BY <1>0, <2>1, <2>3 DEF ListsAreOfRows
  <2>7. OneAction'
    BY <1>0, <2>1, <2>2 DEF OneAction, Alerts!InFlight
  <2> QED BY <2>5, <2>6, <2>7 DEF AlertsInv
<1>2. ASSUME NEW a \in Alerts!Id, NEW s \in Target \cup {"NEW"}, Alerts!Update(a, s)
      PROVE  AlertsInv'
  <2>1. /\ a \in 1..raised /\ s \in Alerts!Status
        /\ status' = [status EXCEPT ![a] = s]
        /\ resolved' \subseteq resolved \cup {a}
        /\ UNCHANGED <<raised, alertsPage, answer, pending, served>>
    BY <1>2 DEF Alerts!Update, AlertsAssumption, Alerts!Status
  <2>2. mixed' = mixed
    BY <1>2 DEF Alerts!Update
  <2>3. Alerts!TypeOK'
    BY <1>0, <2>1, <2>2 DEF Alerts!TypeOK
  <2>4. ListsAreOfRows'
    BY <1>0, <2>1 DEF ListsAreOfRows
  <2>5. OneAction'
    BY <1>0, <2>1, <2>2 DEF OneAction, Alerts!InFlight
  <2> QED BY <2>3, <2>4, <2>5 DEF AlertsInv
<1>3. CASE Alerts!Serve
  <2> DEFINE found == Alerts!FindAll(Alerts!Status, 1, AlertLimit)
             list == [a \in found |-> status[a]]
  <2>1. /\ answer' = [phase |-> "sent", list |-> list]
        /\ UNCHANGED <<raised, status, resolved, alertsPage, pending, served>>
    BY <1>3 DEF Alerts!Serve, Alerts!rows
  <2>2. mixed' = mixed
    BY <1>3 DEF Alerts!Serve
  <2>3. found \subseteq 1..raised
    BY DEF Alerts!FindAll
  <2> HIDE DEF found
  <2>4. DOMAIN list = found /\ list \in [found -> Alerts!Status]
    BY <1>0, <2>3 DEF Alerts!TypeOK
  <2> HIDE DEF list
  <2>5. 1..raised \subseteq Alerts!Id
    BY <1>0 DEF Alerts!Id
  <2>6. list \in Alerts!Lists(Alerts!Id)
    BY <2>3, <2>4, <2>5, ListShape
  <2>7. Alerts!TypeOK'
    BY <1>0, <2>1, <2>2, <2>6 DEF Alerts!TypeOK
  <2>8. ListsAreOfRows'
    BY <1>0, <2>1, <2>3, <2>4 DEF ListsAreOfRows
  <2>9. OneAction'
    BY <1>0, <2>1, <2>2 DEF OneAction, Alerts!InFlight
  <2> QED BY <2>7, <2>8, <2>9 DEF AlertsInv
<1>4. CASE Alerts!Sync
  <2>1. /\ answer' = [phase |-> "asked"]
        /\ UNCHANGED <<raised, status, resolved, alertsPage, pending, served>>
    BY <1>4 DEF Alerts!Sync, Alerts!rows
  <2>2. mixed' = mixed
    BY <1>4 DEF Alerts!Sync
  <2>3. Alerts!TypeOK'
    BY <1>0, <2>1, <2>2 DEF Alerts!TypeOK
  <2>4. ListsAreOfRows'
    BY <1>0, <2>1 DEF ListsAreOfRows
  <2>5. OneAction'
    BY <1>0, <2>1, <2>2 DEF OneAction, Alerts!InFlight
  <2> QED BY <2>3, <2>4, <2>5 DEF AlertsInv
<1> QED BY <1>1, <1>2, <1>3, <1>4

(* The list comes, or is not to be had. *)
LEMMA ListKeeps ==
  ASSUME AlertsAssumption, AlertsInv, Alerts!Land \/ Alerts!FetchFails
  PROVE  AlertsInv'
<1>0. Alerts!TypeOK /\ ListsAreOfRows /\ OneAction
  BY DEF AlertsInv
<1>1. /\ UNCHANGED <<raised, status, resolved, pending>>
      /\ answer' = Alerts!Free
  BY DEF Alerts!Land, Alerts!FetchFails, Alerts!rows
<1>2. mixed' = Alerts!InFlight
  BY DEF Alerts!Land, Alerts!FetchFails
<1>3. mixed' \in BOOLEAN
  BY <1>2 DEF Alerts!InFlight
<1>4. Alerts!InFlight' <=> Alerts!InFlight
  BY <1>1 DEF Alerts!InFlight
<1>5. answer'.phase # "sent"
  BY <1>1 DEF Alerts!Free
<1>6. CASE Alerts!Land /\ DOMAIN answer.list # {}
  <2>1. /\ alertsPage' = [list |-> answer.list, counts |-> Alerts!Tally(answer.list),
                          demo |-> FALSE]
        /\ served' = answer.list /\ answer.phase = "sent"
    BY <1>6 DEF Alerts!Land
  <2>2. answer.list \in Alerts!Lists(Alerts!Id) /\ DOMAIN answer.list \subseteq 1..raised
    BY <1>0, <2>1 DEF Alerts!TypeOK, Alerts!Free, ListsAreOfRows
  <2>3. Alerts!Tally(answer.list) \in Alerts!Counters
    BY <2>2, ListShape, RowsFinite, TallyTyped
  <2>4. Alerts!TypeOK'
    <3>1. alertsPage' \in [list : Alerts!Lists(Alerts!Id) \cup Alerts!Lists(Alerts!Demo),
                           counts : Alerts!Counters, demo : BOOLEAN]
      BY <2>1, <2>2, <2>3
    <3> QED BY <1>0, <1>1, <1>3, <2>1, <2>2, <3>1 DEF Alerts!TypeOK
  <2>5. ListsAreOfRows'
    BY <1>0, <1>1, <1>5, <2>1, <2>2 DEF ListsAreOfRows
  <2>6. ~alertsPage'.demo /\ alertsPage'.list = served'
        /\ alertsPage'.counts = Alerts!Tally(served')
    BY <2>1
  <2>7. OneAction'
    <3>1. mixed' \/ \A k \in Alerts!Slot : pending'[k] = Alerts!Free
      BY <1>1, <1>2 DEF Alerts!InFlight
    <3> QED BY <2>6, <3>1 DEF OneAction, Alerts!Tally
  <2> QED BY <2>4, <2>5, <2>7 DEF AlertsInv
<1>7. CASE ~(Alerts!Land /\ DOMAIN answer.list # {})
  <2>1. /\ alertsPage' = [alertsPage EXCEPT !.list = DemoList, !.demo = TRUE]
        /\ served' = served
    BY <1>7 DEF Alerts!Land, Alerts!FetchFails
  <2>2. alertsPage' = [list |-> DemoList, counts |-> alertsPage.counts, demo |-> TRUE]
    BY <1>0, <2>1, PageShape
  <2>3. DemoList \in Alerts!Lists(Alerts!Demo)
    BY ListShape DEF AlertsAssumption
  <2>4. Alerts!TypeOK'
    <3>1. alertsPage' \in [list : Alerts!Lists(Alerts!Id) \cup Alerts!Lists(Alerts!Demo),
                           counts : Alerts!Counters, demo : BOOLEAN]
      BY <1>0, <2>2, <2>3, PageShape
    <3> QED BY <1>0, <1>1, <1>3, <2>1, <3>1 DEF Alerts!TypeOK
  <2>5. alertsPage'.demo
    BY <2>2
  <2>6. ListsAreOfRows'
    BY <1>0, <1>1, <1>5, <2>5 DEF ListsAreOfRows
  <2>7. OneAction'
    <3>1. mixed' \/ \A k \in Alerts!Slot : pending'[k] = Alerts!Free
      BY <1>1, <1>2 DEF Alerts!InFlight
    <3> QED BY <1>4, <1>2, <2>5, <3>1 DEF OneAction
  <2> QED BY <2>4, <2>6, <2>7 DEF AlertsInv
<1> QED BY <1>6, <1>7

(* An action, and its end. *)
LEMMA ActionKeeps ==
  ASSUME AlertsAssumption, AlertsInv,
         \/ \E k \in Alerts!Slot, id \in Alerts!Id \cup Alerts!Demo, to \in Target :
               Alerts!Act(k, id, to)
         \/ \E id \in Alerts!Id \cup Alerts!Demo, to \in Target : Alerts!ActOnDemo(id, to)
         \/ \E k \in Alerts!Slot : Alerts!Refused(k)
  PROVE  AlertsInv'
<1>0. Alerts!TypeOK /\ ListsAreOfRows /\ OneAction
  BY DEF AlertsInv
<1>1. ASSUME NEW k \in Alerts!Slot, NEW id \in Alerts!Id \cup Alerts!Demo, NEW to \in Target,
             Alerts!Act(k, id, to)
      PROVE  AlertsInv'
  <2> DEFINE act == [phase |-> "sent", id |-> id, to |-> to, list |-> alertsPage.list,
                      counts |-> alertsPage.counts]
  <2>1. /\ ~alertsPage.demo /\ Alerts!Offered(id, to) /\ pending[k] = Alerts!Free
        /\ pending' = [pending EXCEPT ![k] = act]
        /\ alertsPage' = Alerts!Edited(id, to)
        /\ UNCHANGED <<raised, status, resolved, answer, served>>
    BY <1>1 DEF Alerts!Act, Alerts!rows
  <2>2. mixed' = (mixed \/ Alerts!InFlight)
    BY <1>1 DEF Alerts!Act
  <2>3. mixed' \in BOOLEAN
    BY <2>2
  <2>4. /\ id \in DOMAIN alertsPage.list /\ to \in Alerts!Status
        /\ DOMAIN alertsPage.list \subseteq 1..raised
    BY <1>0, <2>1, OfferedListed DEF ListsAreOfRows
  <2>5. /\ alertsPage' \in [list : Alerts!Lists(Alerts!Id) \cup Alerts!Lists(Alerts!Demo),
                            counts : Alerts!Counters, demo : BOOLEAN]
        /\ DOMAIN alertsPage'.list = DOMAIN alertsPage.list
        /\ alertsPage'.demo = alertsPage.demo
    BY <1>0, <2>1, <2>4, EditedShape
  <2>6. alertsPage.list \in Alerts!Lists(Alerts!Id) /\ id \in Alerts!Id
    <3>1. 1..raised \subseteq Alerts!Id
      BY <1>0 DEF Alerts!TypeOK, Alerts!Id, AlertsAssumption
    <3>2. alertsPage.list \in [DOMAIN alertsPage.list -> Alerts!Status]
      BY <1>0, PageShape, ListShape
    <3> QED BY <2>4, <3>1, <3>2, ListShape
  <2>7. act \in [phase : {"sent"}, id : Alerts!Id, to : Target, list : Alerts!Lists(Alerts!Id),
                  counts : Alerts!Counters]
    BY <1>0, <2>6, PageShape
  <2>8. /\ pending'[k] = act /\ \A j \in Alerts!Slot : j # k => pending'[j] = pending[j]
    BY <1>0, <2>1 DEF Alerts!TypeOK
  <2>9. /\ pending'[k].list = alertsPage.list /\ pending'[k].counts = alertsPage.counts
        /\ pending'[k].phase = "sent"
    BY <2>8
  <2>10. pending'[k] # Alerts!Free
    BY <2>9 DEF Alerts!Free
  <2>11. Alerts!TypeOK'
    BY <1>0, <2>1, <2>3, <2>5, <2>7 DEF Alerts!TypeOK
  <2> HIDE DEF act
  <2>12. ListsAreOfRows'
    BY <1>0, <2>1, <2>4, <2>5, <2>8, <2>9 DEF ListsAreOfRows
  <2>13. OneAction'
    <3> SUFFICES ASSUME ~mixed' PROVE OneAction'
      BY DEF OneAction
    <3>1. ~mixed /\ ~Alerts!InFlight
      BY <2>2
    <3>2. \A j \in Alerts!Slot : pending[j] = Alerts!Free
      BY <3>1 DEF Alerts!InFlight
    <3>3. alertsPage.list = served /\ alertsPage.counts = Alerts!Tally(served)
      BY <1>0, <2>1, <3>1 DEF OneAction
    <3>4. Alerts!Tally(served)' = Alerts!Tally(served)
      BY <2>1 DEF Alerts!Tally
    <3>5. Alerts!InFlight'
      BY <2>10 DEF Alerts!InFlight
    <3>6. \A j \in Alerts!Slot : pending'[j] # Alerts!Free => j = k
      BY <2>8, <3>2
    <3> QED BY <2>1, <2>5, <2>9, <3>3, <3>4, <3>5, <3>6 DEF OneAction
  <2> QED BY <2>11, <2>12, <2>13 DEF AlertsInv
<1>2. ASSUME NEW id \in Alerts!Id \cup Alerts!Demo, NEW to \in Target, Alerts!ActOnDemo(id, to)
      PROVE  AlertsInv'
  <2>1. /\ alertsPage.demo /\ Alerts!Offered(id, to) /\ alertsPage' = Alerts!Edited(id, to)
        /\ UNCHANGED <<raised, status, resolved, answer, pending, served>>
    BY <1>2 DEF Alerts!ActOnDemo, Alerts!rows
  <2>2. mixed' = mixed
    BY <1>2 DEF Alerts!ActOnDemo
  <2>3. /\ alertsPage' \in [list : Alerts!Lists(Alerts!Id) \cup Alerts!Lists(Alerts!Demo),
                            counts : Alerts!Counters, demo : BOOLEAN]
        /\ alertsPage'.demo = alertsPage.demo
    BY <1>0, <2>1, OfferedListed, EditedShape
  <2>4. Alerts!TypeOK'
    BY <1>0, <2>1, <2>2, <2>3 DEF Alerts!TypeOK
  <2>5. ListsAreOfRows'
    BY <1>0, <2>1, <2>3 DEF ListsAreOfRows
  <2>6. OneAction'
    BY <1>0, <2>1, <2>2, <2>3 DEF OneAction, Alerts!InFlight
  <2> QED BY <2>4, <2>5, <2>6 DEF AlertsInv
<1>3. ASSUME NEW k \in Alerts!Slot, Alerts!Refused(k) PROVE AlertsInv'
  <2>1. /\ pending[k] # Alerts!Free
        /\ alertsPage' = [alertsPage EXCEPT !.list = pending[k].list,
                                            !.counts = pending[k].counts]
        /\ pending' = [pending EXCEPT ![k] = Alerts!Free]
        /\ UNCHANGED <<raised, status, resolved, answer, served>>
    BY <1>3 DEF Alerts!Refused, Alerts!rows
  <2>2. mixed' = mixed
    BY <1>3 DEF Alerts!Refused
  <2>3. alertsPage' = [list |-> pending[k].list, counts |-> pending[k].counts,
                       demo |-> alertsPage.demo]
    BY <1>0, <2>1, PageShape
  <2>4. /\ pending[k].list \in Alerts!Lists(Alerts!Id) /\ pending[k].counts \in Alerts!Counters
        /\ DOMAIN pending[k].list \subseteq 1..raised
    BY <1>0, <2>1 DEF Alerts!TypeOK, ListsAreOfRows
  <2>5. alertsPage' \in [list : Alerts!Lists(Alerts!Id) \cup Alerts!Lists(Alerts!Demo),
                         counts : Alerts!Counters, demo : BOOLEAN]
    BY <1>0, <2>3, <2>4, PageShape
  <2>6. Alerts!TypeOK'
    BY <1>0, <2>1, <2>2, <2>5 DEF Alerts!TypeOK
  <2>7. \A j \in Alerts!Slot : pending'[j] # Alerts!Free => j # k /\ pending'[j] = pending[j]
    BY <1>0, <2>1 DEF Alerts!TypeOK
  <2>8. /\ alertsPage'.list = pending[k].list /\ alertsPage'.counts = pending[k].counts
        /\ alertsPage'.demo = alertsPage.demo
    BY <2>3
  <2>9. ListsAreOfRows'
    BY <1>0, <2>1, <2>4, <2>7, <2>8 DEF ListsAreOfRows
  <2>10. OneAction'
    <3> SUFFICES ASSUME ~mixed PROVE OneAction'
      BY <2>2 DEF OneAction
    <3>1. \A j \in Alerts!Slot : pending'[j] = Alerts!Free
      BY <1>0, <2>1, <2>7 DEF OneAction
    <3>2. pending[k].list = served /\ pending[k].counts = Alerts!Tally(served)
      BY <1>0, <2>1 DEF OneAction
    <3>3. Alerts!Tally(served)' = Alerts!Tally(served)
      BY <2>1 DEF Alerts!Tally
    <3> QED BY <2>1, <2>8, <3>1, <3>2, <3>3 DEF OneAction, Alerts!InFlight
  <2> QED BY <2>6, <2>9, <2>10 DEF AlertsInv
<1> QED BY <1>1, <1>2, <1>3

LEMMA AlertsNext ==
  ASSUME AlertsAssumption, AlertsInv, [Alerts!Next]_(Alerts!vars)
  PROVE  AlertsInv'
<1>1. CASE UNCHANGED Alerts!vars
  BY <1>1 DEF Alerts!vars, AlertsInv, Alerts!TypeOK, ListsAreOfRows, OneAction, Alerts!InFlight
<1> QED BY <1>1, BackendKeeps, ListKeeps, ActionKeeps DEF Alerts!Next

(* The click of the capsule: the severity changes, and the status is ALL. *)
LEMMA Refiltered ==
  ASSUME NEW found, NEW s, NEW f, f = [severity |-> "ALL", status |-> "NEW", found |-> found]
  PROVE  [f EXCEPT !.severity = s, !.status = "ALL"]
           = [severity |-> s, status |-> "ALL", found |-> found]
<1> DEFINE g == [f EXCEPT !.severity = s]
<1>1. g = [severity |-> s, status |-> "NEW", found |-> found]
  OBVIOUS
<1>2. [f EXCEPT !.severity = s, !.status = "ALL"] = [g EXCEPT !.status = "ALL"]
  BY Zenon
<1> HIDE DEF g
<1> QED BY <1>1, <1>2

(* At rest the tiles and the capsule count what a click on them lists. *)
LEMMA AlertsShown == AlertsInv => Alerts!QuietPageIsServed /\ Alerts!LivePageListsRows
<1> SUFFICES ASSUME AlertsInv PROVE Alerts!QuietPageIsServed /\ Alerts!LivePageListsRows
  OBVIOUS
<1>1. Alerts!LivePageListsRows
  BY DEF AlertsInv, ListsAreOfRows, Alerts!LivePageListsRows
<1> SUFFICES ASSUME ~alertsPage.demo, ~Alerts!InFlight, ~mixed
             PROVE  Alerts!QuietPageIsServed
  BY <1>1 DEF Alerts!QuietPageIsServed
<1>2. alertsPage.list = served /\ alertsPage.counts = Alerts!Tally(served)
  BY DEF AlertsInv, OneAction
<1>3. ASSUME NEW s \in Alerts!Status
      PROVE  Alerts!Tile(s).count = Alerts!Cardinality(Alerts!FilteredAlerts(Alerts!Tile(s).click))
  <2>1. Alerts!FilteredAlerts(Alerts!Tile(s).click) = {a \in DOMAIN served : served[a] = s}
    BY <1>2 DEF Alerts!FilteredAlerts, Alerts!Tile, Alerts!Status
  <2>2. Alerts!Tile(s).count = Alerts!Tally(served)[s]
    BY <1>2 DEF Alerts!Tile
  <2> QED BY <2>1, <2>2 DEF Alerts!Tally
<1>4. ASSUME NEW s \in Alerts!SeverityCapsule
      PROVE  Alerts!SeverityCount(s) = Alerts!Cardinality(Alerts!FilteredAlerts(
               [Alerts!Tile("NEW").click EXCEPT !.severity = s, !.status = "ALL"]))
  <2>1. [Alerts!Tile("NEW").click EXCEPT !.severity = s, !.status = "ALL"]
          = [severity |-> s, status |-> "ALL", found |-> DOMAIN alertsPage.list]
    <3>1. Alerts!Tile("NEW").click
            = [severity |-> "ALL", status |-> "NEW", found |-> DOMAIN alertsPage.list]
      BY DEF Alerts!Tile
    <3> QED BY <3>1, Refiltered
  <2>2. Alerts!FilteredAlerts([severity |-> s, status |-> "ALL", found |-> DOMAIN alertsPage.list])
          = {a \in DOMAIN alertsPage.list : s \in {"ALL", SeverityOf[a]}}
    BY DEF Alerts!FilteredAlerts
  <2> QED BY <2>1, <2>2 DEF Alerts!SeverityCount
<1> QED BY <1>2, <1>3, <1>4 DEF Alerts!QuietPageIsServed

(* In every reachable state. *)
THEOREM AlertsAreServed ==
  ASSUME AlertsAssumption
  PROVE  Alerts!Spec => [](Alerts!QuietPageIsServed /\ Alerts!LivePageListsRows)
<1>1. Alerts!Init => AlertsInv
  BY AlertsInitInv
<1>2. AlertsInv /\ [Alerts!Next]_(Alerts!vars) => AlertsInv'
  BY AlertsNext
<1> QED BY <1>1, <1>2, AlertsShown, PTL DEF Alerts!Spec

-------------------------------------------------------------------------------
(* One answer less. *)
LEMMA OneLess ==
  ASSUME NEW S, NEW s \in Seq(S), NEW i \in 1..Len(s)
  PROVE  /\ Overview!RemoveAt(s, i) \in Seq(S)
         /\ Len(Overview!RemoveAt(s, i)) = Len(s) - 1
         /\ \A j \in 1..(Len(s) - 1) :
               Overview!RemoveAt(s, i)[j] = s[IF j < i THEN j ELSE j + 1]
<1> DEFINE a == SubSeq(s, 1, i - 1)
           b == SubSeq(s, i + 1, Len(s))
<1>1. a \in Seq(S) /\ Len(a) = i - 1 /\ \A j \in 1..(i - 1) : a[j] = s[j]
  OBVIOUS
<1>2. b \in Seq(S) /\ Len(b) = Len(s) - i /\ \A j \in 1..(Len(s) - i) : b[j] = s[j + i]
  OBVIOUS
<1>3. Overview!RemoveAt(s, i) = a \o b
  BY DEF Overview!RemoveAt
<1> HIDE DEF a, b
<1>4. a \o b \in Seq(S) /\ Len(a \o b) = Len(s) - 1
  <2>1. a \o b \in Seq(S) /\ Len(a \o b) = Len(a) + Len(b)
    BY <1>1, <1>2, ConcatProperties
  <2>2. Len(s) \in Nat /\ (i - 1) + (Len(s) - i) = Len(s) - 1
    OBVIOUS
  <2> QED BY <1>1, <1>2, <2>1, <2>2
<1>5. ASSUME NEW j \in 1..(Len(s) - 1)
      PROVE  (a \o b)[j] = s[IF j < i THEN j ELSE j + 1]
  <2>1. CASE j < i
    <3>1. (a \o b)[j] = a[j]
      BY <1>1, <1>2, <2>1
    <3> QED BY <1>1, <2>1, <3>1
  <2>2. CASE ~(j < i)
    <3>1. (a \o b)[j] = b[j - (i - 1)]
      BY <1>1, <1>2, <2>2
    <3>2. j - (i - 1) \in 1..(Len(s) - i)
      BY <2>2
    <3>3. b[j - (i - 1)] = s[j - (i - 1) + i]
      BY <1>2, <3>2
    <3>4. j - (i - 1) + i = j + 1
      OBVIOUS
    <3> QED BY <2>2, <3>1, <3>3, <3>4
  <2> QED BY <2>1, <2>2
<1> QED BY <1>3, <1>4, <1>5

(* OverviewPage.  As long as nothing failed or was stored since the panels *)
(* were asked, every answer under way is one to the logs there are, and so *)
(* is what a panel shows that awaits none.                                 *)
Requests == [phase : {"sent", "done"}, logs : SUBSET Log]

SettledIsStored ==
    settled => \A p \in Panel :
        /\ asked[p] = <<>> => data[p] \in Overview!Answers(p)
        /\ \A i \in 1..Len(asked[p]) :
              asked[p][i].phase = "done" => asked[p][i].logs \in Overview!Answers(p)

OverviewInv ==
    /\ Overview!OverviewTypeOK
    /\ asked \in [Panel -> Seq(Requests)]
    /\ SettledIsStored

OverviewAssumption ==
    /\ Denied \subseteq Log /\ IsFiniteSet(Log)
    /\ TypeLimit \in Nat /\ SourceLimit \in Nat /\ MergedLimit \in 0..SourceLimit
    /\ "stats" \in Panel /\ Panel \subseteq Overview!AllPanels /\ MaxAsked \in Nat \ {0}

(* Every answer is of stored logs. *)
LEMMA AnswersAreStored ==
  ASSUME OverviewAssumption, NEW p \in Panel, NEW logs \in Overview!Answers(p)
  PROVE  logs \subseteq stored
<1>1. p \in Overview!AllPanels
  BY DEF OverviewAssumption
<1>2. CASE p \in {"stats", "severity", "trend"}
  BY <1>2 DEF Overview!Answers
<1>3. CASE p = "frequency" \/ p = "sources"
  BY <1>3 DEF Overview!Answers, Overview!Within, Overview!Attacks
<1>4. CASE p = "activity"
  BY <1>4 DEF Overview!Answers, Overview!Newest
<1> QED BY <1>1, <1>2, <1>3, <1>4 DEF Overview!AllPanels

LEMMA OverviewInit == ASSUME OverviewAssumption PROVE Overview!Init => OverviewInv
<1> SUFFICES ASSUME Overview!Init PROVE OverviewInv
  OBVIOUS
<1>1. Overview!Sent \in Requests /\ Overview!Sent.phase = "sent"
  BY DEF Requests, Overview!Sent
<1>2. asked \in [Panel -> Seq(Requests)]
      /\ \A p \in Panel : Len(asked[p]) = 1 /\ asked[p][1] = Overview!Sent
  <2> HIDE DEF Overview!Sent
  <2> QED BY <1>1 DEF Overview!Init
<1>3. settled \in BOOLEAN
  BY DEF Overview!Init
<1>4. Overview!OverviewTypeOK
  BY <1>2, <1>3 DEF Overview!Init, Overview!OverviewTypeOK, OverviewAssumption, Requests
<1>5. SettledIsStored
  <2>1. \A p \in Panel : \A i \in 1..Len(asked[p]) : asked[p][i].phase # "done"
    BY <1>1, <1>2
  <2>2. \A p \in Panel : asked[p] # <<>>
    BY <1>2
  <2> QED BY <2>1, <2>2 DEF SettledIsStored
<1> QED BY <1>2, <1>4, <1>5 DEF OverviewInv

LEMMA OverviewNext ==
  ASSUME OverviewAssumption, OverviewInv, [Overview!Next]_(Overview!vars)
  PROVE  OverviewInv'
<1>0. /\ asked \in [Panel -> Seq(Requests)] /\ MaxAsked \in Nat \ {0}
      /\ stored \subseteq Log /\ copies \subseteq Log
      /\ data \in [Panel -> SUBSET Log] /\ answered \subseteq Panel
      /\ \A p \in Panel : Len(asked[p]) <= MaxAsked
  BY DEF OverviewInv, Overview!OverviewTypeOK, OverviewAssumption
<1>00. settled \in BOOLEAN /\ SettledIsStored
  BY DEF OverviewInv, Overview!OverviewTypeOK
(* The answers are the same as long as nothing is stored. *)
<1>A. ASSUME stored' = stored, NEW p \in Panel
      PROVE  Overview!Answers(p)' = Overview!Answers(p)
  BY <1>A DEF Overview!Answers, Overview!Attacks, Overview!Leading, Overview!Within,
     Overview!Newest
(* What is left to show when the requests of one panel have changed. *)
<1>1. ASSUME asked' \in [Panel -> Seq(Requests)],
             \A p \in Panel : Len(asked'[p]) <= MaxAsked,
             stored' \subseteq Log, copies' \subseteq Log,
             data' \in [Panel -> SUBSET Log], answered' \subseteq Panel,
             settled' \in BOOLEAN, SettledIsStored'
      PROVE  OverviewInv'
  BY <1>1 DEF OverviewInv, Overview!OverviewTypeOK, Requests
<1>2. CASE Overview!HandleRefreshAll
  <2>1. /\ asked' = [p \in Panel |-> Append(asked[p], Overview!Sent)]
        /\ \A p \in Panel : Len(asked[p]) < MaxAsked
        /\ UNCHANGED <<stored, copies, data, answered>>
    BY <1>2 DEF Overview!HandleRefreshAll
  <2>2. settled' = (settled \/ Overview!AtRest)
    BY <1>2 DEF Overview!HandleRefreshAll
  <2>3. settled' \in BOOLEAN
    BY <2>2 DEF Overview!AtRest
  <2>4. Overview!Sent \in Requests /\ Overview!Sent.phase = "sent"
    BY DEF Requests, Overview!Sent
  <2> HIDE DEF Overview!Sent
  <2>5. \A p \in Panel :
           /\ Append(asked[p], Overview!Sent) \in Seq(Requests)
           /\ Len(Append(asked[p], Overview!Sent)) = Len(asked[p]) + 1
           /\ \A i \in 1..Len(asked[p]) : Append(asked[p], Overview!Sent)[i] = asked[p][i]
           /\ Append(asked[p], Overview!Sent)[Len(asked[p]) + 1] = Overview!Sent
    BY <1>0, <2>4
  <2>6. /\ asked' \in [Panel -> Seq(Requests)]
        /\ \A p \in Panel : Len(asked'[p]) <= MaxAsked
    BY <1>0, <2>1, <2>5
  <2>7. SettledIsStored'
    <3> SUFFICES ASSUME settled', NEW p \in Panel
                 PROVE  /\ asked'[p] # <<>>
                        /\ \A i \in 1..Len(asked'[p]) :
                              asked'[p][i].phase = "done" =>
                                  asked'[p][i].logs \in Overview!Answers(p)
      BY <2>1, <1>A DEF SettledIsStored
    <3>1. asked'[p] = Append(asked[p], Overview!Sent) /\ Len(asked[p]) \in Nat
      BY <1>0, <2>1
    <3>2. asked'[p] # <<>>
      BY <2>5, <3>1
    <3>3. ASSUME NEW i \in 1..Len(asked'[p]), asked'[p][i].phase = "done"
          PROVE  asked'[p][i].logs \in Overview!Answers(p)
      <4>1. i \in 1..Len(asked[p]) /\ asked'[p][i] = asked[p][i]
        BY <2>4, <2>5, <3>1, <3>3
      <4>2. settled
        <5>1. asked[p] # <<>>
          BY <4>1
        <5> QED BY <2>2, <5>1 DEF Overview!AtRest
      <4> QED BY <1>00, <3>3, <4>1, <4>2 DEF SettledIsStored
    <3> QED BY <3>2, <3>3
  <2> QED BY <1>0, <1>1, <2>1, <2>3, <2>6, <2>7
<1>3. ASSUME NEW p \in Panel, NEW i \in 1..Len(asked[p]), Overview!Serve(p, i)
      PROVE  OverviewInv'
  <2>1. PICK logs \in Overview!Answers(p) :
           asked' = [asked EXCEPT ![p] = [asked[p] EXCEPT ![i] = [phase |-> "done", logs |-> logs]]]
    BY <1>3 DEF Overview!Serve
  <2>2. UNCHANGED <<stored, copies, data, answered, settled>>
    BY <1>3 DEF Overview!Serve
  <2> DEFINE done == [phase |-> "done", logs |-> logs]
  <2>3. done \in Requests /\ done.logs = logs
    BY <1>0, AnswersAreStored DEF Requests
  <2>4. asked' = [asked EXCEPT ![p] = [asked[p] EXCEPT ![i] = done]]
    BY <2>1
  <2> HIDE DEF done
  <2>5. /\ asked' \in [Panel -> Seq(Requests)]
        /\ \A q \in Panel : Len(asked'[q]) = Len(asked[q])
        /\ asked'[p][i] = done
        /\ \A q \in Panel : \A j \in 1..Len(asked[q]) :
              q # p \/ j # i => asked'[q][j] = asked[q][j]
    BY <1>0, <2>3, <2>4
  <2>6. SettledIsStored'
    <3> SUFFICES ASSUME settled, NEW q \in Panel
                 PROVE  /\ asked'[q] = <<>> => data[q] \in Overview!Answers(q)
                        /\ \A j \in 1..Len(asked'[q]) :
                              asked'[q][j].phase = "done" =>
                                  asked'[q][j].logs \in Overview!Answers(q)
      BY <2>2, <1>A DEF SettledIsStored
    <3>1. asked'[q] = <<>> => asked[q] = <<>>
      BY <1>0, <2>5
    <3>2. \A j \in 1..Len(asked[q]) :
             asked'[q][j] = asked[q][j] \/ (q = p /\ asked'[q][j].logs \in Overview!Answers(p))
      BY <2>3, <2>5
    <3> QED BY <1>00, <2>5, <3>1, <3>2 DEF SettledIsStored
  <2> QED BY <1>0, <1>00, <1>1, <2>2, <2>5, <2>6
<1>4. ASSUME NEW p \in Panel, NEW i \in 1..Len(asked[p]),
             Overview!Land(p, i) \/ Overview!Fail(p, i)
      PROVE  OverviewInv'
  <2> DEFINE rest == Overview!RemoveAt(asked[p], i)
  <2>1. /\ asked' = [asked EXCEPT ![p] = rest]
        /\ UNCHANGED <<stored, copies>>
    BY <1>4 DEF Overview!Land, Overview!Fail
  <2>2. /\ rest \in Seq(Requests) /\ Len(rest) = Len(asked[p]) - 1
        /\ \A j \in 1..(Len(asked[p]) - 1) : rest[j] = asked[p][IF j < i THEN j ELSE j + 1]
    BY <1>0, OneLess
  <2> HIDE DEF rest
  <2>3. /\ asked' \in [Panel -> Seq(Requests)]
        /\ asked'[p] = rest
        /\ \A q \in Panel : q # p => asked'[q] = asked[q]
    BY <1>0, <2>1, <2>2
  <2>4. \A q \in Panel : Len(asked'[q]) <= MaxAsked
    <3>1. Len(asked[p]) \in Nat /\ Len(asked[p]) <= MaxAsked
      BY <1>0
    <3>2. Len(asked'[p]) <= MaxAsked
      BY <1>0, <2>2, <2>3, <3>1
    <3> QED BY <1>0, <2>3, <3>2
  <2>5. CASE Overview!Land(p, i)
    <3>1. /\ asked[p][i].phase = "done"
          /\ data' = [data EXCEPT ![p] = asked[p][i].logs]
          /\ answered' \subseteq Panel
      BY <1>0, <2>5 DEF Overview!Land
    <3>2. settled' = settled
      BY <2>5 DEF Overview!Land
    <3>3. asked[p][i].logs \in SUBSET Log
      <4>1. asked[p][i] \in Requests
        BY <1>0
      <4> QED BY <4>1 DEF Requests
    <3>4. SettledIsStored'
      <4> SUFFICES ASSUME settled, NEW q \in Panel
                   PROVE  /\ asked'[q] = <<>> => data'[q] \in Overview!Answers(q)
                          /\ \A j \in 1..Len(asked'[q]) :
                                asked'[q][j].phase = "done" =>
                                    asked'[q][j].logs \in Overview!Answers(q)
        BY <2>1, <3>2, <1>A DEF SettledIsStored
      <4>1. CASE q # p
        <5>1. data'[q] = data[q] /\ asked'[q] = asked[q]
          BY <1>0, <2>3, <3>1, <4>1
        <5> QED BY <1>00, <5>1 DEF SettledIsStored
      <4>2. CASE q = p
        <5>1. data'[p] \in Overview!Answers(p)
          BY <1>0, <1>00, <3>1 DEF SettledIsStored
        <5>2. ASSUME NEW j \in 1..Len(rest)
              PROVE  \E k \in 1..Len(asked[p]) : rest[j] = asked[p][k]
          <6>1. Len(asked[p]) \in Nat
            BY <1>0
          <6>2. j \in 1..(Len(asked[p]) - 1) /\ (IF j < i THEN j ELSE j + 1) \in 1..Len(asked[p])
            BY <2>2, <6>1
          <6> QED BY <2>2, <6>2
        <5> QED BY <1>00, <2>3, <4>2, <5>1, <5>2 DEF SettledIsStored
      <4> QED BY <4>1, <4>2
    <3> QED BY <1>0, <1>00, <1>1, <2>1, <2>3, <2>4, <3>1, <3>2, <3>3, <3>4
  <2>6. CASE Overview!Fail(p, i)
    <3>1. data' = data /\ answered' = answered
      BY <2>6 DEF Overview!Fail
    <3>2. ~settled' /\ settled' \in BOOLEAN
      BY <2>6 DEF Overview!Fail
    <3> QED BY <1>0, <1>1, <2>1, <2>3, <2>4, <3>1, <3>2 DEF SettledIsStored
  <2> QED BY <1>4, <2>5, <2>6
<1>5. ASSUME NEW l \in Log, Overview!Upload(l)
      PROVE  OverviewInv'
  <2>1. stored' \subseteq Log /\ UNCHANGED <<copies, data, answered, asked>>
    BY <1>0, <1>5 DEF Overview!Upload
  <2>2. ~settled' /\ settled' \in BOOLEAN
    BY <1>5 DEF Overview!Upload
  <2> QED BY <1>0, <1>1, <2>1, <2>2 DEF SettledIsStored
<1>6. CASE Overview!ClearUploadedLogs \/ \E l \in Log : Overview!Copy(l)
  <2>1. copies' \subseteq Log /\ UNCHANGED <<stored, data, answered, asked>>
    BY <1>0, <1>6 DEF Overview!ClearUploadedLogs, Overview!Copy
  <2>2. settled' = settled
    BY <1>6 DEF Overview!ClearUploadedLogs, Overview!Copy
  <2>3. SettledIsStored'
    BY <1>00, <2>1, <2>2, <1>A DEF SettledIsStored
  <2> QED BY <1>0, <1>00, <1>1, <2>1, <2>2, <2>3
<1>7. CASE UNCHANGED Overview!vars
  <2>1. UNCHANGED <<stored, copies, data, answered, asked, settled>>
    BY <1>7 DEF Overview!vars
  <2>2. SettledIsStored'
    BY <1>00, <2>1, <1>A DEF SettledIsStored
  <2> QED BY <1>0, <1>00, <1>1, <2>1, <2>2
<1> QED BY <1>2, <1>3, <1>4, <1>5, <1>6, <1>7 DEF Overview!Next

(* What finitely many logs are mapped to is finite. *)
LEMMA KeysFinite ==
  ASSUME NEW S, IsFiniteSet(S), NEW key
  PROVE  /\ IsFiniteSet({key[l] : l \in S})
         /\ Cardinality({key[l] : l \in S}) <= Cardinality(S)
<1> DEFINE f == [l \in S |-> key[l]]
<1>1. f \in Surjection(S, {key[l] : l \in S})
  BY DEF Surjection
<1> HIDE DEF f
<1> QED BY <1>1, FS_Surjection

LEMMA OverviewCardinality == \A S : Overview!Cardinality(S) = Cardinality(S)
  BY DEF Overview!Cardinality, Cardinality

(* A limit that the groups keep to cuts nothing off. *)
LEMMA AllLead ==
  ASSUME NEW of, NEW logs, NEW more, IsFiniteSet(logs \cup more), NEW limit \in Nat,
         Overview!Groups(of, logs \cup more) <= limit,
         NEW top \in Overview!Leading(of, logs, more, limit)
  PROVE  /\ Overview!Within(of, top, logs) = logs
         /\ Overview!Within(of, top, more) = more
<1> DEFINE group == {of[l] : l \in logs \cup more}
<1>1. IsFiniteSet(group)
  BY KeysFinite
<1>2. /\ top \in SUBSET group
      /\ top # group => Cardinality(top) = limit
  BY OverviewCardinality DEF Overview!Leading
<1>3. Cardinality(group) <= limit
  BY OverviewCardinality DEF Overview!Groups
<1>4. top = group
  <2> HIDE DEF group
  <2>1. /\ IsFiniteSet(top) /\ Cardinality(top) <= Cardinality(group)
        /\ Cardinality(group) = Cardinality(top) => group = top
    BY <1>1, <1>2, FS_Subset
  <2>2. Cardinality(group) \in Nat /\ Cardinality(top) \in Nat
    BY <1>1, <2>1, FS_CardinalityType
  <2> QED BY <1>2, <1>3, <2>1, <2>2
<1>5. \A l \in logs \cup more : of[l] \in top
  BY <1>4
<1> QED BY <1>5 DEF Overview!Within

(* The groups of finitely many logs can be counted, and fewer logs have    *)
(* fewer of them.                                                          *)
LEMMA FewerGroups ==
  ASSUME NEW of, NEW logs, NEW more, IsFiniteSet(logs \cup more)
  PROVE  /\ Overview!Groups(of, logs \cup more) \in Nat
         /\ Overview!Groups(of, logs \cup {}) \in Nat
         /\ Overview!Groups(of, logs \cup {}) <= Overview!Groups(of, logs \cup more)
<1> DEFINE group == {of[l] : l \in logs \cup more}
           less == {of[l] : l \in logs \cup {}}
<1>1. IsFiniteSet(group)
  BY KeysFinite
<1>2. less \in SUBSET group
  OBVIOUS
<1>3. /\ Overview!Groups(of, logs \cup more) = Cardinality(group)
      /\ Overview!Groups(of, logs \cup {}) = Cardinality(less)
  BY OverviewCardinality DEF Overview!Groups
<1> HIDE DEF group, less
<1>4. IsFiniteSet(less) /\ Cardinality(less) <= Cardinality(group)
  BY <1>1, <1>2, FS_Subset
<1>5. Cardinality(less) \in Nat /\ Cardinality(group) \in Nat
  BY <1>1, <1>4, FS_CardinalityType
<1> QED BY <1>3, <1>4, <1>5

(* Nothing is shown oftener than counted, and what no limit cuts as often. *)
LEMMA OverviewShown == ASSUME OverviewAssumption, OverviewInv PROVE Overview!PanelsAgree
<1> DEFINE Both(p, l) == Overview!Once(l, data["stats"])
                         + (IF Overview!Synchronised(p) THEN Overview!Once(l, copies) ELSE 0)
<1> SUFFICES ASSUME Overview!AtRest, settled,
                    NEW p \in Panel, NEW v \in Overview!Views(p), NEW l \in Log
             PROVE  /\ Overview!Shown(v, l)
                          <= Overview!Once(l, data["stats"]) + Overview!Once(l, copies)
                    /\ l \in Overview!Whole(p) => Overview!Shown(v, l) = Both(p, l)
  BY DEF Overview!PanelsAgree, Overview!Live
<1>1. /\ stored \subseteq Log /\ copies \subseteq Log /\ IsFiniteSet(Log)
      /\ p \in Overview!AllPanels
  BY DEF OverviewInv, Overview!OverviewTypeOK, OverviewAssumption
<1>2. \A q \in Panel : data[q] \in Overview!Answers(q)
  BY DEF OverviewInv, SettledIsStored, Overview!AtRest
<1>3. data["stats"] = stored
  BY <1>2 DEF Overview!Answers, OverviewAssumption
<1>4. data[p] \subseteq stored
  BY <1>2, AnswersAreStored
<1>5. v.answer \subseteq data[p] /\ v.copies \subseteq Overview!Taken(p)
  <2>1. CASE p = "sources" /\ Overview!Taken(p) # {}
    BY <2>1 DEF Overview!Views, Overview!Within
  <2>2. CASE p = "activity"
    BY <2>2 DEF Overview!Views, Overview!Newest
  <2>3. CASE p # "activity" /\ ~(p = "sources" /\ Overview!Taken(p) # {})
    BY <2>3 DEF Overview!Views
  <2> QED BY <2>1, <2>2, <2>3
<1>6. Overview!Taken(p) \subseteq copies
  BY DEF Overview!Taken
<1>7. Overview!Shown(v, l) <= Overview!Once(l, data["stats"]) + Overview!Once(l, copies)
  BY <1>3, <1>4, <1>5, <1>6 DEF Overview!Shown, Overview!Once
(* What is shown whole is the answer and what it takes of the copies. *)
<1>8. ASSUME l \in v.answer <=> l \in stored, l \in v.copies <=> l \in Overview!Taken(p)
      PROVE  Overview!Shown(v, l) = Both(p, l)
  BY <1>3, <1>8 DEF Overview!Shown, Overview!Once, Overview!Taken
<1>9. ASSUME l \in Overview!Whole(p)
      PROVE  /\ l \in v.answer <=> l \in stored
             /\ l \in v.copies <=> l \in Overview!Taken(p)
  <2>1. CASE p \in {"stats", "severity", "trend"}
    <3>1. v.answer = data[p] /\ v.copies = Overview!Taken(p)
      BY <2>1 DEF Overview!Views
    <3>2. l \in data[p] <=> l \in stored
      BY <1>2, <1>9, <2>1 DEF Overview!Answers, Overview!Whole
    <3> QED BY <3>1, <3>2
  <2>2. IsFiniteSet(stored \cap Denied) /\ IsFiniteSet((stored \cap Denied) \cup copies)
    BY <1>1, FS_Subset
  <2>3. CASE p = "frequency"
    <3>1. l \in Denied /\ Overview!Groups(TypeOf, stored \cap Denied) <= TypeLimit
      BY <1>3, <1>9, <2>3 DEF Overview!Whole
    <3>2. PICK top \in Overview!Leading(TypeOf, stored \cap Denied, {}, TypeLimit) :
             data[p] = Overview!Within(TypeOf, top, stored \cap Denied)
      BY <1>2, <2>3 DEF Overview!Answers, Overview!Attacks
    <3>3. data[p] = stored \cap Denied
      <4>1. (stored \cap Denied) \cup {} = stored \cap Denied
        OBVIOUS
      <4>2. IsFiniteSet((stored \cap Denied) \cup {})
            /\ Overview!Groups(TypeOf, (stored \cap Denied) \cup {}) <= TypeLimit
        BY <2>2, <3>1, <4>1
      <4>3. TypeLimit \in Nat
        BY DEF OverviewAssumption
      <4> QED BY <3>2, <4>2, <4>3, AllLead
    <3>4. v.answer = data[p] /\ v.copies = Overview!Taken(p)
      BY <2>3 DEF Overview!Views
    <3> QED BY <3>1, <3>3, <3>4
  <2>4. CASE p = "sources"
    <3> DEFINE hits == stored \cap Denied
    <3>0. IsFiniteSet(hits \cup copies)
      BY <2>2
    <3>1. l \in Denied /\ Overview!Groups(SourceOf, hits \cup copies) <= MergedLimit
      BY <1>3, <1>9, <2>4 DEF Overview!Whole
    <3>2. MergedLimit \in Nat /\ SourceLimit \in Nat /\ MergedLimit <= SourceLimit
      BY DEF OverviewAssumption
    <3>3. PICK top \in Overview!Leading(SourceOf, hits, {}, SourceLimit) :
             data[p] = Overview!Within(SourceOf, top, hits)
      BY <1>2, <2>4 DEF Overview!Answers, Overview!Attacks
    <3>4. Overview!Groups(SourceOf, hits \cup {}) <= SourceLimit
      <4> HIDE DEF hits
      <4> QED BY <3>0, <3>1, <3>2, FewerGroups
    <3>5. data[p] = hits
      <4>1. IsFiniteSet(hits \cup {})
        <5>1. hits \cup {} = hits
          OBVIOUS
        <5> QED BY <2>2, <5>1
      <4> HIDE DEF hits
      <4> QED BY <3>2, <3>3, <3>4, <4>1, AllLead
    <3>6. v.answer = hits /\ v.copies = Overview!Taken(p)
      <4>1. CASE Overview!Taken(p) = {}
        BY <2>4, <3>5, <4>1 DEF Overview!Views
      <4>2. CASE Overview!Taken(p) # {}
        <5>1. Overview!Taken(p) = copies
          BY <4>2 DEF Overview!Taken
        <5>2. PICK lead \in Overview!Leading(SourceOf, data[p], copies, MergedLimit) :
                 v = [answer |-> Overview!Within(SourceOf, lead, data[p]),
                      copies |-> Overview!Within(SourceOf, lead, copies)]
          BY <2>4, <4>2, <5>1 DEF Overview!Views
        <5>3. /\ Overview!Within(SourceOf, lead, hits) = hits
              /\ Overview!Within(SourceOf, lead, copies) = copies
          <6> HIDE DEF hits
          <6> QED BY <3>0, <3>1, <3>2, <3>5, <5>2, AllLead
        <5> QED BY <3>5, <5>1, <5>2, <5>3
      <4> QED BY <4>1, <4>2
    <3> QED BY <3>1, <3>6
  <2>5. CASE p = "activity"
    BY <1>9, <2>5 DEF Overview!Whole
  <2> QED BY <1>1, <2>1, <2>3, <2>4, <2>5 DEF Overview!AllPanels
<1> QED BY <1>7, <1>8, <1>9

(* The panels of a live overview at rest fit together, for every set of    *)
(* logs and every limit: none shows a log oftener than the numbers count   *)
(* it, and what its limits leave whole it shows as often                   *)
(* (dashboard.service.ts, telemetry-store.ts).                             *)
THEOREM PanelsCountAlike == ASSUME OverviewAssumption PROVE Overview!Spec => []Overview!PanelsAgree
  BY OverviewInit, OverviewNext, OverviewShown, PTL DEF Overview!Spec

-------------------------------------------------------------------------------
(* AttackMap.  What an answer has read so far fits the logs there are: its *)
(* origins are logs of distinct addresses, a list of countries that is not *)
(* cut off names those of the origins, and the numbers cover the origins.  *)
Covering(logs) ==
    {r \in Map!Answers :
        /\ r.phase # "origins" =>
              /\ r.origins \subseteq logs
              /\ Cardinality(r.origins) = Cardinality({IpOf[l] : l \in r.origins})
        /\ r.phase \in {"summary", "done"} /\ Cardinality(r.countries) < CountryLimit =>
              \A l \in r.origins : CountryOf[l] \in r.countries
        /\ r.phase = "done" => /\ Cardinality(r.origins) <= r.total
                               /\ Cardinality(r.origins \cap Critical) <= r.critical}

(* A panel whose effect has run has told the page what it selects. *)
PanelToldPage ==
    Map!Open /\ ~due =>
        filtered = IF filter = Map!NoFilter THEN Map!NoFilter
                   ELSE Map!OriginsOf(map) \cap filter

MapInv ==
    /\ Map!MapTypeOK
    /\ calls \in Seq(Covering(attacks))
    /\ map # Map!NoData => map \in Covering(attacks) /\ map.phase = "done"
    /\ PanelToldPage

MapAssumption ==
    /\ IsFiniteSet(Attack) /\ Critical \subseteq Attack /\ "none" \notin Attack \cup Demo
    /\ OriginLimit \in Nat /\ CountryLimit \in Nat /\ MaxAsked \in Nat \ {0}

LEMMA MapCardinality == \A S : Map!Cardinality(S) = Cardinality(S)
  BY DEF Map!Cardinality, Cardinality

(* Logs only come: what fits them goes on to fit. *)
LEMMA CoveringGrows ==
  ASSUME NEW L, NEW M, L \subseteq M
  PROVE  Covering(L) \subseteq Covering(M) /\ Seq(Covering(L)) \subseteq Seq(Covering(M))
<1>1. Covering(L) \subseteq Covering(M)
  BY DEF Covering
<1> QED BY <1>1

(* The fields of an answer that a reading sets. *)
LEMMA ReadShape ==
  ASSUME NEW r \in Map!Answers, NEW x, NEW n
  PROVE  /\ [r EXCEPT !.phase = "countries", !.origins = x]
              = [phase |-> "countries", origins |-> x, countries |-> r.countries,
                 total |-> r.total, critical |-> r.critical]
         /\ [r EXCEPT !.phase = "summary", !.countries = x]
              = [phase |-> "summary", origins |-> r.origins, countries |-> x,
                 total |-> r.total, critical |-> r.critical]
         /\ [r EXCEPT !.phase = "done", !.total = x, !.critical = n]
              = [phase |-> "done", origins |-> r.origins, countries |-> r.countries,
                 total |-> x, critical |-> n]
<1> DEFINE a(phase) == [r EXCEPT !.phase = phase]
           b == [a("done") EXCEPT !.total = x]
<1>1. \A phase : a(phase) = [phase |-> phase, origins |-> r.origins, countries |-> r.countries,
                             total |-> r.total, critical |-> r.critical]
  BY DEF Map!Answers
<1>2. [r EXCEPT !.phase = "countries", !.origins = x] = [a("countries") EXCEPT !.origins = x]
  BY Zenon
<1>3. [r EXCEPT !.phase = "summary", !.countries = x] = [a("summary") EXCEPT !.countries = x]
  BY Zenon
<1>4. [r EXCEPT !.phase = "done", !.total = x, !.critical = n] = [b EXCEPT !.critical = n]
  BY Zenon
<1> HIDE DEF a
<1>5. b = [phase |-> "done", origins |-> r.origins, countries |-> r.countries,
           total |-> x, critical |-> r.critical]
  BY <1>1
<1> HIDE DEF b
<1> QED BY <1>1, <1>2, <1>3, <1>4, <1>5

(* The origins: one log of each address, all of them stored. *)
LEMMA OriginsFit ==
  ASSUME MapAssumption, Map!MapTypeOK, NEW r \in Map!Answers,
         NEW ips \in Map!Top(IpOf, OriginLimit), NEW R \in Map!Origins(ips)
  PROVE  [r EXCEPT !.phase = "countries", !.origins = R] \in Covering(attacks)
<1>1. R \subseteq attacks /\ R \subseteq Attack
  BY DEF Map!Origins, Map!MapTypeOK
<1>2. {IpOf[l] : l \in R} = ips /\ Cardinality(R) = Cardinality(ips)
  BY MapCardinality DEF Map!Origins
<1> DEFINE s == [phase |-> "countries", origins |-> R, countries |-> r.countries,
                 total |-> r.total, critical |-> r.critical]
<1>3. s \in Map!Answers
  BY <1>1 DEF Map!Answers
<1>4. s.phase = "countries" /\ s.origins = R
  OBVIOUS
<1>5. [r EXCEPT !.phase = "countries", !.origins = R] = s
  BY ReadShape
<1> HIDE DEF s
<1> QED BY <1>1, <1>2, <1>3, <1>4, <1>5 DEF Covering

(* The countries: all there are, unless they are cut off. *)
LEMMA CountriesFit ==
  ASSUME MapAssumption, Map!MapTypeOK, NEW r \in Covering(attacks), r.phase = "countries",
         NEW T \in Map!Top(CountryOf, CountryLimit)
  PROVE  [r EXCEPT !.phase = "summary", !.countries = T] \in Covering(attacks)
<1> DEFINE keys == {CountryOf[l] : l \in attacks}
           s == [phase |-> "summary", origins |-> r.origins, countries |-> T,
                 total |-> r.total, critical |-> r.critical]
<1>0. r \in Map!Answers /\ r.origins \subseteq attacks
      /\ Cardinality(r.origins) = Cardinality({IpOf[l] : l \in r.origins})
  BY DEF Covering
<1>1. attacks \subseteq Attack /\ IsFiniteSet(attacks)
  BY FS_Subset DEF Map!MapTypeOK, MapAssumption
<1>2. IsFiniteSet(keys)
  BY <1>1, KeysFinite
<1>3. T \subseteq keys
      /\ Cardinality(T) = IF Cardinality(keys) < CountryLimit THEN Cardinality(keys)
                          ELSE CountryLimit
  BY MapCardinality DEF Map!Top
<1>4. Cardinality(T) < CountryLimit => \A l \in r.origins : CountryOf[l] \in T
  <2> SUFFICES ASSUME Cardinality(T) < CountryLimit PROVE keys \subseteq T
    BY <1>0
  <2>1. CountryLimit \in Nat /\ Cardinality(keys) \in Nat
    BY <1>2, FS_CardinalityType DEF MapAssumption
  <2> HIDE DEF keys
  <2>2. Cardinality(T) = Cardinality(keys)
    BY <1>3, <2>1
  <2> QED BY <1>2, <1>3, <2>2, FS_Subset
<1>5. s \in Map!Answers
  BY <1>0, <1>1, <1>3 DEF Map!Answers
<1>6. s.phase = "summary" /\ s.origins = r.origins /\ s.countries = T
  OBVIOUS
<1>7. [r EXCEPT !.phase = "summary", !.countries = T] = s
  BY <1>0, ReadShape
<1> HIDE DEF s
<1> QED BY <1>0, <1>4, <1>5, <1>6, <1>7 DEF Covering

(* The numbers: of all the logs there are. *)
LEMMA SummaryFits ==
  ASSUME MapAssumption, Map!MapTypeOK, NEW r \in Covering(attacks), r.phase = "summary"
  PROVE  [r EXCEPT !.phase = "done", !.total = Map!Cardinality({IpOf[l] : l \in attacks}),
                   !.critical = Map!Cardinality(attacks \cap Critical)] \in Covering(attacks)
<1> DEFINE total == Cardinality({IpOf[l] : l \in attacks})
           critical == Cardinality(attacks \cap Critical)
           s == [phase |-> "done", origins |-> r.origins, countries |-> r.countries,
                 total |-> total, critical |-> critical]
<1>0. r \in Map!Answers /\ r.origins \subseteq attacks
      /\ Cardinality(r.origins) = Cardinality({IpOf[l] : l \in r.origins})
  BY DEF Covering
<1>00. Cardinality(r.countries) < CountryLimit => \A l \in r.origins : CountryOf[l] \in r.countries
  BY DEF Covering
<1>1. attacks \subseteq Attack /\ IsFiniteSet(attacks)
      /\ Cardinality(attacks) <= Cardinality(Attack)
  BY FS_Subset DEF Map!MapTypeOK, MapAssumption
<1>2. /\ IsFiniteSet({IpOf[l] : l \in attacks}) /\ total <= Cardinality(attacks)
  BY <1>1, KeysFinite
<1>3. total \in 0..Cardinality(Attack)
  <2>1. /\ Cardinality(attacks) \in Nat /\ Cardinality(Attack) \in Nat /\ total \in Nat
    BY <1>1, <1>2, FS_CardinalityType DEF MapAssumption
  <2> HIDE DEF total
  <2> QED BY <1>1, <1>2, <2>1
<1>4. IsFiniteSet(Critical) /\ Cardinality(Critical) \in Nat
  BY FS_Subset, FS_CardinalityType DEF MapAssumption
<1>5. /\ critical \in 0..Cardinality(Critical) /\ IsFiniteSet(attacks \cap Critical)
  <2>1. IsFiniteSet(attacks \cap Critical) /\ critical <= Cardinality(Critical)
    BY <1>4, FS_Subset
  <2>2. critical \in Nat
    BY <2>1, FS_CardinalityType
  <2> HIDE DEF critical
  <2> QED BY <1>4, <2>1, <2>2
<1>6. Cardinality(r.origins) <= total
  <2>1. {IpOf[l] : l \in r.origins} \subseteq {IpOf[l] : l \in attacks}
    BY <1>0
  <2>2. Cardinality({IpOf[l] : l \in r.origins}) <= total
    BY <1>2, <2>1, FS_Subset
  <2> QED BY <1>0, <2>2
<1>7. Cardinality(r.origins \cap Critical) <= critical
  <2>1. r.origins \cap Critical \subseteq attacks \cap Critical
    BY <1>0
  <2> QED BY <1>5, <2>1, FS_Subset
<1>8. [r EXCEPT !.phase = "done", !.total = Map!Cardinality({IpOf[l] : l \in attacks}),
                !.critical = Map!Cardinality(attacks \cap Critical)] = s
  <2>1. Map!Cardinality({IpOf[l] : l \in attacks}) = total
        /\ Map!Cardinality(attacks \cap Critical) = critical
    BY MapCardinality
  <2> HIDE DEF total, critical
  <2> QED BY <1>0, <2>1, ReadShape
<1> HIDE DEF total, critical
<1>9. s \in Map!Answers
  BY <1>0, <1>3, <1>5, MapCardinality DEF Map!Answers
<1>10. /\ s.phase = "done" /\ s.origins = r.origins /\ s.countries = r.countries
       /\ s.total = total /\ s.critical = critical
  OBVIOUS
<1> HIDE DEF s
<1> QED BY <1>0, <1>00, <1>6, <1>7, <1>8, <1>9, <1>10 DEF Covering

LEMMA MapInit == ASSUME MapAssumption PROVE Map!Init => MapInv
<1> SUFFICES ASSUME Map!Init PROVE MapInv
  OBVIOUS
<1>1. Map!Sent \in Covering(attacks)
  <2>1. Cardinality(Attack) \in Nat /\ Cardinality(Critical) \in Nat
    BY FS_Subset, FS_CardinalityType DEF MapAssumption
  <2>2. Map!Sent \in Map!Answers
    BY <2>1, MapCardinality DEF Map!Sent, Map!Answers
  <2> QED BY <2>2 DEF Covering, Map!Sent
<1>2. calls \in Seq(Covering(attacks)) /\ Len(calls) = 1
  <2>1. calls = <<Map!Sent>>
    BY DEF Map!Init
  <2> QED BY <1>1, <2>1
<1>3. calls \in Seq(Map!Answers)
  <2>1. Covering(attacks) \subseteq Map!Answers
    BY DEF Covering
  <2> QED BY <1>2, <2>1
<1>4. isLoading /\ isLoading \in BOOLEAN
  BY DEF Map!Init
<1>5. due \in BOOLEAN
  BY DEF Map!Init
<1>6. Map!MapTypeOK
  <2>1. Len(calls) <= MaxAsked
    BY <1>2 DEF MapAssumption
  <2>2. /\ attacks \subseteq Attack /\ map = Map!NoData
        /\ filter = Map!NoFilter /\ filtered = Map!NoFilter
    BY DEF Map!Init
  <2> QED BY <1>3, <1>4, <1>5, <2>1, <2>2 DEF Map!MapTypeOK
<1>7. PanelToldPage
  BY <1>4 DEF PanelToldPage, Map!Open
<1> QED BY <1>2, <1>6, <1>7 DEF MapInv, Map!Init

(* A step of getGeoAttacks, or of the ingest. *)
LEMMA ReadingKeeps ==
  ASSUME MapAssumption, MapInv,
         \/ \E i \in 1..Len(calls) :
               Map!ReadOrigins(i) \/ Map!ReadCountries(i) \/ Map!ReadSummary(i)
         \/ \E l \in Attack : Map!Ingest(l)
  PROVE  MapInv'
<1>0. /\ Map!MapTypeOK /\ calls \in Seq(Covering(attacks))
      /\ Covering(attacks) \subseteq Map!Answers
  BY DEF MapInv, Covering
<1>1. UNCHANGED <<map, filter, filtered>>
  BY DEF Map!ReadOrigins, Map!ReadCountries, Map!ReadSummary, Map!Ingest, Map!page
<1>2. isLoading' = isLoading
  BY DEF Map!ReadOrigins, Map!ReadCountries, Map!ReadSummary, Map!Ingest, Map!page
<1>3. due' = due
  BY DEF Map!ReadOrigins, Map!ReadCountries, Map!ReadSummary, Map!Ingest, Map!page
<1>4. PanelToldPage'
  BY <1>1, <1>2, <1>3 DEF MapInv, PanelToldPage, Map!Open, Map!HasOrigins, Map!OriginsOf
<1>5. ASSUME NEW i \in 1..Len(calls), NEW r \in Covering(attacks),
             calls' = [calls EXCEPT ![i] = r], attacks' = attacks
      PROVE  MapInv'
  <2>1. calls' \in Seq(Covering(attacks)) /\ Len(calls') = Len(calls)
    BY <1>0, <1>5
  <2>2. calls' \in Seq(Map!Answers)
    BY <1>0, <2>1
  <2>3. Map!MapTypeOK'
    BY <1>0, <1>1, <1>2, <1>3, <1>5, <2>1, <2>2 DEF Map!MapTypeOK
  <2>4. Covering(attacks') = Covering(attacks)
    BY <1>5
  <2> QED BY <1>1, <1>4, <2>1, <2>3, <2>4 DEF MapInv
<1>6. ASSUME NEW i \in 1..Len(calls), Map!ReadOrigins(i)
      PROVE  MapInv'
  <2>0. attacks' = attacks
    BY <1>6 DEF Map!ReadOrigins
  <2>1. calls[i] \in Map!Answers
    BY <1>0
  <2>2. PICK ips \in Map!Top(IpOf, OriginLimit) : \E R \in Map!Origins(ips) :
          calls' = [calls EXCEPT ![i] = [calls[i] EXCEPT !.phase = "countries", !.origins = R]]
    BY <1>6 DEF Map!ReadOrigins
  <2>3. PICK R \in Map!Origins(ips) :
          calls' = [calls EXCEPT ![i] = [calls[i] EXCEPT !.phase = "countries", !.origins = R]]
    BY <2>2
  <2>4. [calls[i] EXCEPT !.phase = "countries", !.origins = R] \in Covering(attacks)
    BY <1>0, <2>1, OriginsFit
  <2> QED BY <1>5, <2>0, <2>3, <2>4
<1>7. ASSUME NEW i \in 1..Len(calls), Map!ReadCountries(i)
      PROVE  MapInv'
  <2>0. calls[i].phase = "countries" /\ attacks' = attacks
    BY <1>7 DEF Map!ReadCountries
  <2>1. calls[i] \in Covering(attacks)
    BY <1>0
  <2>2. PICK T \in Map!Top(CountryOf, CountryLimit) :
          calls' = [calls EXCEPT ![i] = [calls[i] EXCEPT !.phase = "summary", !.countries = T]]
    BY <1>7 DEF Map!ReadCountries
  <2>3. [calls[i] EXCEPT !.phase = "summary", !.countries = T] \in Covering(attacks)
    BY <1>0, <2>0, <2>1, CountriesFit
  <2> QED BY <1>5, <2>0, <2>2, <2>3
<1>8. ASSUME NEW i \in 1..Len(calls), Map!ReadSummary(i)
      PROVE  MapInv'
  <2> DEFINE r == [calls[i] EXCEPT !.phase = "done",
                                   !.total = Map!Cardinality({IpOf[l] : l \in attacks}),
                                   !.critical = Map!Cardinality(attacks \cap Critical)]
  <2>0. calls[i].phase = "summary" /\ attacks' = attacks
    BY <1>8 DEF Map!ReadSummary
  <2>1. calls[i] \in Covering(attacks)
    BY <1>0
  <2>2. calls' = [calls EXCEPT ![i] = r]
    BY <1>8 DEF Map!ReadSummary
  <2>3. r \in Covering(attacks)
    BY <1>0, <2>0, <2>1, SummaryFits
  <2> HIDE DEF r
  <2> QED BY <1>5, <2>0, <2>2, <2>3
<1>9. ASSUME NEW l \in Attack, Map!Ingest(l)
      PROVE  MapInv'
  <2>1. attacks' = attacks \cup {l} /\ calls' = calls
    BY <1>9 DEF Map!Ingest
  <2>2. /\ calls' \in Seq(Covering(attacks'))
        /\ Covering(attacks) \subseteq Covering(attacks')
    BY <1>0, <2>1, CoveringGrows
  <2>3. Map!MapTypeOK'
    BY <1>0, <1>1, <1>2, <1>3, <2>1 DEF Map!MapTypeOK
  <2> QED BY <1>1, <1>4, <2>2, <2>3 DEF MapInv
<1> QED BY <1>6, <1>7, <1>8, <1>9

(* A step of the page. *)
LEMMA MapPageKeeps ==
  ASSUME MapAssumption, MapInv,
         \/ Map!HandleRefresh \/ Map!OnFilterChange
         \/ \E i \in 1..Len(calls) : Map!Land(i) \/ Map!Fail(i)
         \/ \E s \in Search \cup {Map!NoFilter} : Map!Choose(s)
  PROVE  MapInv'
<1>0. /\ Map!MapTypeOK /\ calls \in Seq(Covering(attacks)) /\ Len(calls) <= MaxAsked
      /\ Covering(attacks) \subseteq Map!Answers /\ MaxAsked \in Nat \ {0}
      /\ map # Map!NoData => map \in Covering(attacks) /\ map.phase = "done"
  BY DEF MapInv, Covering, MapAssumption, Map!MapTypeOK
<1>00. PanelToldPage /\ isLoading \in BOOLEAN /\ due \in BOOLEAN
  BY DEF MapInv, Map!MapTypeOK
<1>1. attacks' = attacks /\ Covering(attacks') = Covering(attacks)
  BY DEF Map!HandleRefresh, Map!OnFilterChange, Map!Land, Map!Fail, Map!Choose
(* What is left to show of each step. *)
<1>2. ASSUME calls' \in Seq(Covering(attacks)), Len(calls') <= MaxAsked,
             map' # Map!NoData => map' \in Covering(attacks) /\ map'.phase = "done",
             isLoading' \in BOOLEAN, due' \in BOOLEAN,
             filter' \in Search \cup {Map!NoFilter},
             filtered' \in {Map!NoFilter} \cup SUBSET (Attack \cup Demo),
             PanelToldPage'
      PROVE  MapInv'
  <2>1. calls' \in Seq(Map!Answers)
    BY <1>0, <1>2
  <2>2. map' \in Map!Answers \cup {Map!NoData}
    BY <1>0, <1>2
  <2>3. Map!NoData' = Map!NoData /\ Map!NoFilter' = Map!NoFilter
    BY DEF Map!NoData, Map!NoFilter
  <2>4. Map!MapTypeOK'
    BY <1>0, <1>1, <1>2, <2>1, <2>2, <2>3 DEF Map!MapTypeOK
  <2> QED BY <1>1, <1>2, <2>3, <2>4 DEF MapInv
<1>3. CASE Map!HandleRefresh
  <2>1. /\ calls' = Append(calls, Map!Sent) /\ Len(calls) < MaxAsked
        /\ map' = map /\ filter' = Map!NoFilter /\ filtered' = filtered
    BY <1>3 DEF Map!HandleRefresh
  <2>2. isLoading' /\ isLoading' \in BOOLEAN
    BY <1>3 DEF Map!HandleRefresh
  <2>3. due' \in BOOLEAN
    BY <1>3 DEF Map!HandleRefresh
  <2>4. Map!Sent \in Covering(attacks)
    <3>1. Cardinality(Attack) \in Nat /\ Cardinality(Critical) \in Nat
      BY FS_Subset, FS_CardinalityType DEF MapAssumption
    <3>2. Map!Sent \in Map!Answers
      BY <3>1, MapCardinality DEF Map!Sent, Map!Answers
    <3> QED BY <3>2 DEF Covering, Map!Sent
  <2>5. calls' \in Seq(Covering(attacks)) /\ Len(calls') <= MaxAsked
    <3> HIDE DEF Map!Sent
    <3> QED BY <1>0, <2>1, <2>4
  <2>6. PanelToldPage'
    BY <2>2 DEF PanelToldPage, Map!Open
  <2> QED BY <1>0, <1>2, <2>1, <2>2, <2>3, <2>5, <2>6 DEF Map!MapTypeOK
<1>4. CASE Map!OnFilterChange
  <2>1. /\ filtered' = IF filter = Map!NoFilter THEN Map!NoFilter
                       ELSE Map!OriginsOf(map) \cap filter
        /\ UNCHANGED <<calls, map, filter>>
    BY <1>4 DEF Map!OnFilterChange
  <2>2. due' \in BOOLEAN /\ isLoading' = isLoading
    BY <1>4 DEF Map!OnFilterChange
  <2>3. Map!OriginsOf(map) \subseteq Attack \cup Demo
    BY <1>0 DEF Map!OriginsOf, Map!Answers
  <2>4. filtered' \in {Map!NoFilter} \cup SUBSET (Attack \cup Demo)
    <3> DEFINE selected == Map!OriginsOf(map) \cap filter
    <3>1. selected \in SUBSET (Attack \cup Demo)
      BY <2>3
    <3>2. filtered' \in {selected, Map!NoFilter}
      BY <2>1
    <3> HIDE DEF selected
    <3> QED BY <3>1, <3>2
  <2>5. PanelToldPage'
    BY <2>1 DEF PanelToldPage, Map!OriginsOf
  <2> QED BY <1>0, <1>00, <1>2, <2>1, <2>2, <2>4, <2>5 DEF Map!MapTypeOK
<1>5. ASSUME NEW i \in 1..Len(calls), Map!Land(i) \/ Map!Fail(i)
      PROVE  MapInv'
  <2>1. calls' = Map!RemoveAt(calls, i) /\ filtered' = filtered
    BY <1>5 DEF Map!Land, Map!Fail
  <2>2. calls' \in Seq(Covering(attacks)) /\ Len(calls') <= MaxAsked
    <3>1. Map!RemoveAt(calls, i) = Overview!RemoveAt(calls, i)
      BY DEF Map!RemoveAt, Overview!RemoveAt
    <3>2. Map!RemoveAt(calls, i) \in Seq(Covering(attacks))
          /\ Len(Map!RemoveAt(calls, i)) = Len(calls) - 1
      BY <1>0, <3>1, OneLess
    <3>3. Len(calls) \in Nat
      BY <1>0
    <3> QED BY <1>0, <2>1, <3>2, <3>3
  <2>3. Map!Render(map')
    BY <1>5 DEF Map!Land, Map!Fail
  <2>4. map' # Map!NoData => map' \in Covering(attacks) /\ map'.phase = "done"
    <3>1. calls[i] \in Covering(attacks)
      BY <1>0
    <3> QED BY <1>0, <1>5, <3>1 DEF Map!Land, Map!Fail
  <2>5. ~isLoading' /\ isLoading' \in BOOLEAN
    BY <2>3 DEF Map!Render
  <2>6. due' = (Map!HasOrigins(map') /\ (due \/ ~Map!Open \/ map' # map))
    BY <2>3 DEF Map!Render
  <2>7. due' \in BOOLEAN
    BY <2>6
  <2>8. filter' = IF Map!Open /\ Map!HasOrigins(map') THEN filter ELSE Map!NoFilter
    BY <2>3 DEF Map!Render
  <2>9. PanelToldPage'
    <3> SUFFICES ASSUME Map!HasOrigins(map'), ~due' PROVE PanelToldPage'
      BY DEF PanelToldPage, Map!Open, Map!HasOrigins, Map!OriginsOf
    <3>1. ~due /\ Map!Open /\ map' = map
      BY <2>6
    <3>2. filter' = filter
      BY <2>8, <3>1
    <3>3. filtered = IF filter = Map!NoFilter THEN Map!NoFilter
                     ELSE Map!OriginsOf(map) \cap filter
      BY <1>00, <3>1 DEF PanelToldPage
    <3> QED BY <2>1, <3>1, <3>2, <3>3 DEF PanelToldPage, Map!OriginsOf
  <2>10. filter' \in Search \cup {Map!NoFilter}
    BY <1>0, <2>8 DEF Map!MapTypeOK
  <2> QED BY <1>0, <1>2, <2>1, <2>2, <2>4, <2>5, <2>7, <2>9, <2>10 DEF Map!MapTypeOK
<1>6. ASSUME NEW s \in Search \cup {Map!NoFilter}, Map!Choose(s)
      PROVE  MapInv'
  <2>1. filter' = s /\ UNCHANGED <<calls, map, filtered>>
    BY <1>6 DEF Map!Choose
  <2>2. due' /\ due' \in BOOLEAN
    BY <1>6 DEF Map!Choose
  <2>3. isLoading' = isLoading
    BY <1>6 DEF Map!Choose
  <2>4. PanelToldPage'
    BY <2>2 DEF PanelToldPage
  <2> QED BY <1>0, <1>00, <1>2, <2>1, <2>2, <2>3, <2>4 DEF Map!MapTypeOK
<1> QED BY <1>3, <1>4, <1>5, <1>6

LEMMA MapNext ==
  ASSUME MapAssumption, MapInv, [Map!Next]_(Map!vars)
  PROVE  MapInv'
<1>1. CASE UNCHANGED Map!vars
  BY <1>1 DEF Map!vars, MapInv, Map!MapTypeOK, PanelToldPage, Map!Open, Map!HasOrigins,
     Map!OriginsOf
<1> QED BY <1>1, ReadingKeeps, MapPageKeeps DEF Map!Next

(* The map shows what the panel selects, and its numbers cover it. *)
LEMMA MapShown ==
  ASSUME MapAssumption, MapInv
  PROVE  Map!MarkersFitPanel /\ Map!NumbersCoverMap
<1>1. Map!MarkersFitPanel
  <2> SUFFICES ASSUME Map!Open, ~due PROVE Map!Markers = Map!Selected
    BY DEF Map!MarkersFitPanel
  <2>1. filtered = IF filter = Map!NoFilter THEN Map!NoFilter
                   ELSE Map!OriginsOf(map) \cap filter
    BY DEF MapInv, PanelToldPage
  <2>2. Map!OriginsOf(map) \cap filter # Map!NoFilter
    <3>1. "none" \notin Map!OriginsOf(map)
      BY DEF MapInv, MapAssumption, Map!MapTypeOK, Map!OriginsOf, Map!Answers
    <3> QED BY <3>1 DEF Map!NoFilter
  <2> QED BY <2>1, <2>2 DEF Map!Markers, Map!Selected
<1>2. Map!NumbersCoverMap
  <2> SUFFICES ASSUME map # Map!NoData PROVE Map!NumbersCoverMap
    BY DEF Map!NumbersCoverMap
  <2>1. map \in Covering(attacks) /\ map.phase = "done"
    BY DEF MapInv
  <2> QED BY <2>1, MapCardinality DEF Covering, Map!NumbersCoverMap, Map!Listed
<1> QED BY <1>1, <1>2

(* The markers of the attack map are those of the panel beside it, and its *)
(* numbers cover them (geo-map/page.tsx).                                  *)
THEOREM MapFitsPanel ==
  ASSUME MapAssumption PROVE Map!Spec => [](Map!MarkersFitPanel /\ Map!NumbersCoverMap)
  BY MapInit, MapNext, MapShown, PTL DEF Map!Spec

-------------------------------------------------------------------------------
(* LogsPage.  What the table shows fits the query and the copies.          *)
TableFits ==
    /\ shown.query = query
    /\ shown.demo \/ query # "narrowed" =>
          Logs!SynchronizedLogs(query) \X {"copy"} \subseteq shown.rows

(* An overtaken fetch has only overtaken ones before it.  Either the       *)
(* newest fetch is of the query and still to come, or its answer is shown, *)
(* unless that of an older one has come since.                             *)
NewestFits ==
    /\ \A i, j \in 1..Len(fetches) : i < j /\ fetches[j].late => fetches[i].late
    /\ IF fetches # <<>> /\ ~fetches[Len(fetches)].late
       THEN fetches[Len(fetches)].query = query
       ELSE ~stale => TableFits

LogsInv == Logs!LogsTypeOK /\ NewestFits

LogsAssumption == Narrow \subseteq Chunk /\ MaxFetch \in Nat \ {0}

LEMMA AskedIsFresh ==
  ASSUME NEW q \in Logs!Query
  PROVE  Logs!Ask(q) \in Logs!Fetches /\ Logs!Ask(q).query = q /\ ~Logs!Ask(q).late
  BY DEF Logs!Ask, Logs!Fetches

LEMMA LogsInit == ASSUME LogsAssumption PROVE Logs!Init => LogsInv
<1> SUFFICES ASSUME Logs!Init PROVE LogsInv
  OBVIOUS
<1>1. "open" \in Logs!Query
  BY DEF Logs!Query
<1> DEFINE f == Logs!Ask("open")
<1>2. f \in Logs!Fetches /\ f.query = "open" /\ ~f.late
  BY <1>1, AskedIsFresh
<1>3. fetches = <<f>> /\ query = "open"
  BY DEF Logs!Init
<1> HIDE DEF f
<1>4. /\ fetches \in Seq(Logs!Fetches) /\ Len(fetches) = 1 /\ fetches[1] = f
      /\ fetches # <<>>
  BY <1>2, <1>3
<1>5. NewestFits
  BY <1>2, <1>3, <1>4 DEF NewestFits
<1>6. shown \in [query : Logs!Query, rows : SUBSET Logs!Row, demo : BOOLEAN]
  BY <1>1 DEF Logs!Init
<1>7. upload.list \in Seq(Chunk) /\ upload.sent \in 0..Len(upload.list)
  BY DEF Logs!Init, Logs!NoUpload
<1>8. stale \in BOOLEAN
  BY DEF Logs!Init
<1>9. Len(fetches) <= MaxFetch
  BY <1>4 DEF LogsAssumption
<1> QED BY <1>1, <1>3, <1>4, <1>5, <1>6, <1>7, <1>8, <1>9 DEF LogsInv, Logs!LogsTypeOK, Logs!Init

(* The page asks n times more. *)
LEMMA AskingKeeps ==
  ASSUME LogsAssumption, LogsInv, query' \in Logs!Query, NEW n \in 1..2,
         fetches' = Logs!AskedAgain(query', n), Logs!CanAsk(n)
  PROVE  NewestFits' /\ fetches' \in Seq(Logs!Fetches) /\ Len(fetches') <= MaxFetch
<1> DEFINE new == [i \in 1..n |-> Logs!Ask(query')]
<1>0. fetches \in Seq(Logs!Fetches) /\ Len(fetches) \in Nat /\ MaxFetch \in Nat
      /\ Len(fetches) + n <= MaxFetch
  BY DEF LogsInv, Logs!LogsTypeOK, LogsAssumption, Logs!CanAsk
<1>1. /\ Logs!Ask(query') \in Logs!Fetches /\ Logs!Ask(query').query = query'
      /\ ~Logs!Ask(query').late
  BY AskedIsFresh
<1>2. new \in Seq(Logs!Fetches) /\ Len(new) = n /\ \A i \in 1..n : new[i] = Logs!Ask(query')
  <2> HIDE DEF Logs!Ask
  <2> QED BY <1>1
<1>3. fetches' = fetches \o new
  BY DEF Logs!AskedAgain
<1> HIDE DEF new
<1>4. /\ fetches' \in Seq(Logs!Fetches) /\ Len(fetches') = Len(fetches) + n
      /\ \A i \in 1..(Len(fetches) + n) :
            fetches'[i] = IF i <= Len(fetches) THEN fetches[i] ELSE new[i - Len(fetches)]
  BY <1>0, <1>2, <1>3, ConcatProperties
<1>5. /\ \A i \in 1..Len(fetches) : fetches'[i] = fetches[i]
      /\ \A i \in 1..Len(fetches') : i > Len(fetches) => fetches'[i] = Logs!Ask(query')
  <2>1. ASSUME NEW i \in 1..Len(fetches') PROVE i > Len(fetches) => fetches'[i] = Logs!Ask(query')
    <3> SUFFICES ASSUME i > Len(fetches) PROVE fetches'[i] = Logs!Ask(query')
      OBVIOUS
    <3>1. fetches'[i] = new[i - Len(fetches)] /\ i - Len(fetches) \in 1..n
      BY <1>0, <1>4
    <3> QED BY <1>2, <3>1
  <2> QED BY <1>0, <1>4, <2>1
<1>6. Len(fetches') \in 1..Len(fetches') /\ Len(fetches') > Len(fetches) /\ fetches' # <<>>
  BY <1>0, <1>4
<1>7. fetches'[Len(fetches')] = Logs!Ask(query')
  BY <1>5, <1>6
<1>8. ASSUME NEW i \in 1..Len(fetches'), NEW j \in 1..Len(fetches'), i < j, fetches'[j].late
      PROVE  fetches'[i].late
  <2>1. i \in 1..Len(fetches) /\ j \in 1..Len(fetches)
    BY <1>0, <1>1, <1>4, <1>5, <1>8
  <2> QED BY <1>5, <1>8, <2>1 DEF LogsInv, NewestFits
<1>9. NewestFits'
  BY <1>1, <1>6, <1>7, <1>8 DEF NewestFits
<1> QED BY <1>0, <1>4, <1>9

(* The backend answers, or does not. *)
LEMMA AnsweringKeeps ==
  ASSUME LogsAssumption, LogsInv, NEW i \in 1..Len(fetches), Logs!Answer(i)
  PROVE  LogsInv'
<1>0. fetches \in Seq(Logs!Fetches) /\ fetches[i] \in Logs!Fetches
  BY DEF LogsInv, Logs!LogsTypeOK
<1>1. UNCHANGED <<ingested, copied, query, shown, upload>>
  BY DEF Logs!Answer
<1>2. stale' = stale
  BY DEF Logs!Answer
<1>3. PICK f \in Logs!Fetches : /\ fetches' = [fetches EXCEPT ![i] = f]
                                /\ f.query = fetches[i].query /\ f.late = fetches[i].late
  <2> DEFINE rows == Logs!Matching(fetches[i].query)
             done == [phase |-> "done", query |-> fetches[i].query, rows |-> rows,
                      late |-> fetches[i].late]
             failed == [phase |-> "failed", query |-> fetches[i].query,
                        rows |-> fetches[i].rows, late |-> fetches[i].late]
  <2>1. rows \in SUBSET Chunk
    BY DEF Logs!Matching, LogsInv, Logs!LogsTypeOK
  <2> HIDE DEF rows
  <2>2. done \in Logs!Fetches /\ failed \in Logs!Fetches
    BY <1>0, <2>1 DEF Logs!Fetches
  <2>3. [fetches[i] EXCEPT !.phase = "failed"] = failed
    BY <1>0 DEF Logs!Fetches
  <2>4. [fetches[i] EXCEPT !.phase = "done", !.rows = rows] = done
    <3> DEFINE g == [fetches[i] EXCEPT !.phase = "done"]
    <3>1. g = [phase |-> "done", query |-> fetches[i].query, rows |-> fetches[i].rows,
               late |-> fetches[i].late]
      BY <1>0 DEF Logs!Fetches
    <3>2. [fetches[i] EXCEPT !.phase = "done", !.rows = rows] = [g EXCEPT !.rows = rows]
      BY Zenon
    <3> HIDE DEF g
    <3> QED BY <3>1, <3>2
  <2>5. \/ fetches' = [fetches EXCEPT ![i] = [fetches[i] EXCEPT !.phase = "done", !.rows = rows]]
        \/ fetches' = [fetches EXCEPT ![i] = [fetches[i] EXCEPT !.phase = "failed"]]
    BY DEF Logs!Answer, rows
  <2>6. /\ done.query = fetches[i].query /\ done.late = fetches[i].late
        /\ failed.query = fetches[i].query /\ failed.late = fetches[i].late
    OBVIOUS
  <2> HIDE DEF done, failed
  <2> QED BY <2>2, <2>3, <2>4, <2>5, <2>6
<1>4. /\ fetches' \in Seq(Logs!Fetches) /\ Len(fetches') = Len(fetches)
      /\ \A j \in 1..Len(fetches) : /\ fetches'[j].query = fetches[j].query
                                    /\ fetches'[j].late = fetches[j].late
  BY <1>0, <1>3
<1>5. Logs!LogsTypeOK'
  BY <1>1, <1>2, <1>4 DEF LogsInv, Logs!LogsTypeOK
<1>6. fetches # <<>> /\ fetches' # <<>> /\ Len(fetches) \in 1..Len(fetches)
  BY <1>0, <1>4
<1>7. TableFits' <=> TableFits
  BY <1>1 DEF TableFits, Logs!SynchronizedLogs
<1>8. NewestFits'
  <2>1. \A k, j \in 1..Len(fetches') : k < j /\ fetches'[j].late => fetches'[k].late
    BY <1>4 DEF LogsInv, NewestFits
  <2>2. IF fetches # <<>> /\ ~fetches[Len(fetches)].late
        THEN fetches[Len(fetches)].query = query
        ELSE ~stale => TableFits
    BY DEF LogsInv, NewestFits
  <2>3. CASE fetches[Len(fetches)].late
    <3>1. ~stale' => TableFits'
      BY <1>2, <1>7, <2>2, <2>3
    <3>2. fetches'[Len(fetches')].late
      BY <1>4, <1>6, <2>3
    <3> QED BY <2>1, <3>1, <3>2 DEF NewestFits
  <2>4. CASE ~fetches[Len(fetches)].late
    <3>1. fetches'[Len(fetches')].query = query' /\ ~fetches'[Len(fetches')].late
      BY <1>1, <1>4, <1>6, <2>2, <2>4
    <3> QED BY <1>6, <2>1, <3>1 DEF NewestFits
  <2> QED BY <2>3, <2>4
<1> QED BY <1>5, <1>8 DEF LogsInv

(* One fetch less, and those before it are overtaken. *)
LEMMA Overtaken ==
  ASSUME fetches \in Seq(Logs!Fetches), NEW i \in 1..Len(fetches), Logs!Land(i)
  PROVE  /\ fetches' \in Seq(Logs!Fetches) /\ Len(fetches') = Len(fetches) - 1
         /\ \A j \in 1..(i - 1) : fetches'[j].late
         /\ \A j \in i..(Len(fetches) - 1) : fetches'[j] = fetches[j + 1]
<1> DEFINE a == [j \in 1..(i - 1) |-> [fetches[j] EXCEPT !.late = TRUE]]
           b == SubSeq(fetches, i + 1, Len(fetches))
<1>1. \A j \in 1..(i - 1) : /\ [fetches[j] EXCEPT !.late = TRUE] \in Logs!Fetches
                            /\ [fetches[j] EXCEPT !.late = TRUE].late
  <2> SUFFICES ASSUME NEW f \in Logs!Fetches
               PROVE  [f EXCEPT !.late = TRUE] \in Logs!Fetches /\ [f EXCEPT !.late = TRUE].late
    OBVIOUS
  <2> QED BY DEF Logs!Fetches
<1>2. a \in Seq(Logs!Fetches) /\ Len(a) = i - 1 /\ \A j \in 1..(i - 1) : a[j].late
  <2> DEFINE h(j) == [fetches[j] EXCEPT !.late = TRUE]
  <2>1. \A j \in 1..(i - 1) : h(j) \in Logs!Fetches /\ h(j).late
    BY <1>1
  <2>2. a = [j \in 1..(i - 1) |-> h(j)] /\ i - 1 \in Nat
    OBVIOUS
  <2> HIDE DEF h, a
  <2> QED BY <2>1, <2>2
<1>3. b \in Seq(Logs!Fetches) /\ Len(b) = Len(fetches) - i
      /\ \A j \in 1..(Len(fetches) - i) : b[j] = fetches[j + i]
  OBVIOUS
<1>4. fetches' = a \o b
  BY DEF Logs!Land
<1> HIDE DEF a, b
<1>5. /\ a \o b \in Seq(Logs!Fetches) /\ Len(a \o b) = Len(a) + Len(b)
      /\ \A j \in 1..(Len(a) + Len(b)) :
            (a \o b)[j] = IF j <= Len(a) THEN a[j] ELSE b[j - Len(a)]
  BY <1>2, <1>3, ConcatProperties
<1>6. Len(fetches) \in Nat /\ i \in 1..Len(fetches)
  OBVIOUS
<1>7. Len(fetches') = Len(fetches) - 1
  BY <1>2, <1>3, <1>4, <1>5, <1>6
<1>8. ASSUME NEW j \in 1..(i - 1) PROVE fetches'[j].late
  <2>1. j \in 1..(Len(a) + Len(b)) /\ j <= Len(a)
    BY <1>2, <1>3, <1>6
  <2>2. fetches'[j] = a[j]
    BY <1>4, <1>5, <2>1
  <2> QED BY <1>2, <2>2
<1>9. ASSUME NEW j \in i..(Len(fetches) - 1) PROVE fetches'[j] = fetches[j + 1]
  <2>1. /\ j \in 1..(Len(a) + Len(b)) /\ ~(j <= Len(a)) /\ j - Len(a) = j - i + 1
        /\ j - i + 1 \in 1..(Len(fetches) - i) /\ j - i + 1 + i = j + 1
    BY <1>2, <1>3, <1>6
  <2>2. fetches'[j] = b[j - i + 1]
    BY <1>4, <1>5, <2>1
  <2> QED BY <1>3, <2>1, <2>2
<1> QED BY <1>4, <1>5, <1>7, <1>8, <1>9

LEMMA LandingKeeps ==
  ASSUME LogsAssumption, LogsInv, NEW i \in 1..Len(fetches), Logs!Land(i)
  PROVE  LogsInv'
<1>0. /\ fetches \in Seq(Logs!Fetches) /\ fetches[i] \in Logs!Fetches
      /\ Len(fetches) \in Nat /\ Len(fetches) <= MaxFetch /\ MaxFetch \in Nat
      /\ copied \subseteq Chunk /\ fetches # <<>>
  BY DEF LogsInv, Logs!LogsTypeOK, LogsAssumption
<1>1. UNCHANGED <<ingested, copied, query, upload>>
  BY DEF Logs!Land
<1>2. stale' = fetches[i].late
  BY DEF Logs!Land
<1>3. stale' \in BOOLEAN
  BY <1>0, <1>2 DEF Logs!Fetches
<1>4. shown' = [query |-> fetches[i].query, rows |-> Logs!Displayed(fetches[i]),
                demo |-> fetches[i].phase = "failed"]
  BY DEF Logs!Land
<1>5. Logs!Displayed(fetches[i]) \in SUBSET Logs!Row
  <2>1. fetches[i].rows \in SUBSET Chunk
    BY <1>0 DEF Logs!Fetches
  <2> QED BY <1>0, <2>1 DEF Logs!Displayed, Logs!SynchronizedLogs, Logs!Row
<1>6. shown' \in [query : Logs!Query, rows : SUBSET Logs!Row, demo : BOOLEAN]
  BY <1>0, <1>4, <1>5 DEF Logs!Fetches
<1>7. /\ fetches' \in Seq(Logs!Fetches) /\ Len(fetches') = Len(fetches) - 1
      /\ \A j \in 1..(i - 1) : fetches'[j].late
      /\ \A j \in i..(Len(fetches) - 1) : fetches'[j] = fetches[j + 1]
  BY <1>0, Overtaken
<1>8. Logs!LogsTypeOK'
  BY <1>0, <1>1, <1>3, <1>6, <1>7 DEF LogsInv, Logs!LogsTypeOK
<1>9. /\ \A k, j \in 1..Len(fetches) : k < j /\ fetches[j].late => fetches[k].late
      /\ IF ~fetches[Len(fetches)].late
         THEN fetches[Len(fetches)].query = query
         ELSE ~stale => TableFits
  BY <1>0 DEF LogsInv, NewestFits
<1>10. ASSUME NEW k \in 1..Len(fetches'), NEW j \in 1..Len(fetches'), k < j, fetches'[j].late
       PROVE  fetches'[k].late
  <2>1. CASE k \in 1..(i - 1)
    BY <1>7, <2>1
  <2>2. CASE k \notin 1..(i - 1)
    <3>1. /\ k \in i..(Len(fetches) - 1) /\ j \in i..(Len(fetches) - 1)
          /\ k + 1 \in 1..Len(fetches) /\ j + 1 \in 1..Len(fetches) /\ k + 1 < j + 1
      BY <1>0, <1>7, <1>10, <2>2
    <3>2. fetches'[k] = fetches[k + 1] /\ fetches'[j] = fetches[j + 1]
      BY <1>7, <3>1
    <3>3. fetches[j + 1].late
      BY <1>10, <3>2
    <3> QED BY <1>9, <3>1, <3>2, <3>3
  <2> QED BY <2>1, <2>2
(* The newest of all lands: the table fits. *)
<1>11. ASSUME ~fetches[i].late, i = Len(fetches) PROVE NewestFits'
  <2>1. fetches[i].query = query
    BY <1>9, <1>11
  <2>2. shown'.query = query' /\ shown'.rows = Logs!Displayed(fetches[i])
        /\ (shown'.demo <=> fetches[i].phase = "failed")
    BY <1>1, <1>4, <2>1
  <2>3. shown'.demo \/ query # "narrowed" =>
          Logs!SynchronizedLogs(query) \X {"copy"} \subseteq Logs!Displayed(fetches[i])
    <3>1. CASE fetches[i].phase = "failed"
      BY <2>1, <3>1 DEF Logs!Displayed
    <3>2. CASE fetches[i].phase # "failed" /\ query = "narrowed"
      BY <2>2, <3>2
    <3>3. CASE fetches[i].phase # "failed" /\ query # "narrowed"
      <4>1. copied \X {"copy"} \subseteq Logs!Displayed(fetches[i])
        BY <2>1, <3>3 DEF Logs!Displayed
      <4>2. Logs!SynchronizedLogs(query) \subseteq copied
        BY DEF Logs!SynchronizedLogs
      <4> QED BY <4>1, <4>2
    <3> QED BY <3>1, <3>2, <3>3
  <2>4. TableFits'
    BY <1>1, <2>2, <2>3 DEF TableFits, Logs!SynchronizedLogs
  <2>5. fetches' # <<>> => Len(fetches') \in 1..(i - 1)
    BY <1>0, <1>7, <1>11
  <2> QED BY <1>7, <1>10, <2>4, <2>5 DEF NewestFits
(* An older one does, and the newest is still to come. *)
<1>12. ASSUME i # Len(fetches), ~fetches[Len(fetches)].late PROVE NewestFits'
  <2>1. Len(fetches') \in i..(Len(fetches) - 1) /\ Len(fetches') + 1 = Len(fetches)
        /\ fetches' # <<>>
    BY <1>0, <1>7, <1>12
  <2>2. fetches'[Len(fetches')] = fetches[Len(fetches)]
    BY <1>7, <2>1
  <2> QED BY <1>1, <1>9, <1>10, <1>12, <2>1, <2>2 DEF NewestFits
(* The newest has landed before: this one is overtaken, and so are all. *)
<1>13. ASSUME fetches[Len(fetches)].late PROVE NewestFits'
  <2>1. Len(fetches) \in 1..Len(fetches) /\ (i = Len(fetches) \/ i < Len(fetches))
    BY <1>0
  <2>2. fetches[i].late
    BY <1>9, <1>13, <2>1
  <2>3. fetches' = <<>> \/ fetches'[Len(fetches')].late
    <3> SUFFICES ASSUME fetches' # <<>> PROVE fetches'[Len(fetches')].late
      OBVIOUS
    <3>1. Len(fetches') \in 1..(i - 1) \/ (/\ Len(fetches') \in i..(Len(fetches) - 1)
                                           /\ Len(fetches') + 1 = Len(fetches))
      BY <1>0, <1>7
    <3> QED BY <1>7, <1>13, <3>1
  <2> QED BY <1>2, <1>10, <2>2, <2>3 DEF NewestFits
<1>14. NewestFits'
  BY <1>9, <1>11, <1>12, <1>13
<1> QED BY <1>8, <1>14 DEF LogsInv

(* The uploads: where the copies change, the page asks again. *)
LEMMA UploadingKeeps ==
  ASSUME LogsAssumption, LogsInv,
         \/ Logs!ChunkStored \/ Logs!Ingest \/ \E list \in Logs!Lists : Logs!Submit(list)
         \/ \E l \in Chunk : Logs!OtherTab(l) \/ Logs!Arrive(l)
  PROVE  LogsInv'
<1>0. /\ ingested \subseteq Chunk /\ copied \subseteq Chunk /\ query \in Logs!Query
      /\ fetches \in Seq(Logs!Fetches) /\ Len(fetches) <= MaxFetch
      /\ shown \in [query : Logs!Query, rows : SUBSET Logs!Row, demo : BOOLEAN]
      /\ upload.list \in Seq(Chunk) /\ upload.sent \in 0..Len(upload.list)
  BY DEF LogsInv, Logs!LogsTypeOK
<1>00. stale \in BOOLEAN
  BY DEF LogsInv, Logs!LogsTypeOK
<1>1. query' = query /\ shown' = shown
  BY DEF Logs!ChunkStored, Logs!Ingest, Logs!Submit, Logs!OtherTab, Logs!Arrive
<1>2. stale' = stale
  BY DEF Logs!ChunkStored, Logs!Ingest, Logs!Submit, Logs!OtherTab, Logs!Arrive
<1>3. ingested' \subseteq Chunk /\ copied' \subseteq Chunk
  BY <1>0 DEF Logs!ChunkStored, Logs!Ingest, Logs!Submit, Logs!OtherTab, Logs!Arrive
<1>4. upload'.list \in Seq(Chunk) /\ upload'.sent \in 0..Len(upload'.list)
  <2>1. CASE Logs!Ingest
    BY <2>1 DEF Logs!Ingest, Logs!NoUpload
  <2>2. ASSUME NEW list \in Logs!Lists, Logs!Submit(list)
        PROVE  upload'.list \in Seq(Chunk) /\ upload'.sent \in 0..Len(upload'.list)
    <3>1. PICK n \in 1..2 : list \in [1..n -> Chunk]
      BY DEF Logs!Lists
    <3>2. list \in Seq(Chunk)
      BY <3>1
    <3> QED BY <2>2, <3>2 DEF Logs!Submit
  <2>3. CASE Logs!ChunkStored
    <3>1. upload.sent < Len(upload.list) /\ upload' = [upload EXCEPT !.sent = upload.sent + 1]
      BY <2>3 DEF Logs!ChunkStored
    <3>2. upload'.list = upload.list /\ upload'.sent = upload.sent + 1
      BY <3>1 DEF LogsInv
    <3> QED BY <1>0, <3>1, <3>2
  <2>4. CASE upload' = upload
    BY <1>0, <2>4
  <2> QED BY <2>1, <2>2, <2>3, <2>4 DEF Logs!OtherTab, Logs!Arrive
<1>5. NewestFits' /\ fetches' \in Seq(Logs!Fetches) /\ Len(fetches') <= MaxFetch
  <2>1. CASE UNCHANGED <<copied, fetches>>
    <3>1. TableFits' <=> TableFits
      BY <1>1, <2>1 DEF TableFits, Logs!SynchronizedLogs
    <3> QED BY <1>0, <1>1, <1>2, <2>1, <3>1 DEF LogsInv, NewestFits
  <2>2. CASE \E n \in 1..2 : fetches' = Logs!AskedAgain(query', n) /\ Logs!CanAsk(n)
    BY <1>0, <1>1, <2>2, AskingKeeps
  <2>3. 1 \in 1..2 /\ 2 \in 1..2
    OBVIOUS
  <2> QED BY <1>1, <2>1, <2>2, <2>3
          DEF Logs!ChunkStored, Logs!Ingest, Logs!Submit, Logs!OtherTab, Logs!Arrive
<1>6. Logs!LogsTypeOK'
  BY <1>0, <1>00, <1>1, <1>2, <1>3, <1>4, <1>5 DEF Logs!LogsTypeOK
<1> QED BY <1>5, <1>6 DEF LogsInv

LEMMA LogsNext ==
  ASSUME LogsAssumption, LogsInv, [Logs!Next]_(Logs!vars)
  PROVE  LogsInv'
<1>1. ASSUME Logs!Sync \/ \E q \in Logs!Query : Logs!ChangeQuery(q)
      PROVE  LogsInv'
  <2>1. /\ UNCHANGED <<ingested, copied, shown, upload>>
        /\ query' \in Logs!Query /\ fetches' = Logs!AskedAgain(query', 1)
    BY <1>1 DEF Logs!Sync, Logs!ChangeQuery, LogsInv, Logs!LogsTypeOK
  <2>2. stale' = stale
    BY <1>1 DEF Logs!Sync, Logs!ChangeQuery
  <2>3. Logs!CanAsk(1)
    BY <1>1 DEF Logs!Sync, Logs!ChangeQuery, Logs!CanAsk, LogsAssumption
  <2>4. NewestFits' /\ fetches' \in Seq(Logs!Fetches) /\ Len(fetches') <= MaxFetch
    BY <2>1, <2>3, AskingKeeps
  <2> QED BY <2>1, <2>2, <2>4 DEF LogsInv, Logs!LogsTypeOK
<1>2. ASSUME NEW i \in DOMAIN fetches, Logs!Answer(i) \/ Logs!Land(i)
      PROVE  LogsInv'
  <2>1. i \in 1..Len(fetches)
    BY DEF LogsInv, Logs!LogsTypeOK
  <2> QED BY <1>2, <2>1, AnsweringKeeps, LandingKeeps
<1>3. CASE UNCHANGED Logs!vars
  BY <1>3 DEF Logs!vars, LogsInv, Logs!LogsTypeOK, NewestFits, TableFits, Logs!SynchronizedLogs
<1> QED BY <1>1, <1>2, <1>3, UploadingKeeps DEF Logs!Next

(* A page at rest shows what it is set to show. *)
LEMMA LogsShown == LogsInv => Logs!QuietShowsQuery
  BY DEF LogsInv, NewestFits, TableFits, Logs!QuietShowsQuery

(* The table of logs at rest is the answer to its query, unless the last   *)
(* answer had been overtaken (logs/page.tsx fetchLogs).                    *)
THEOREM QueryIsShown == ASSUME LogsAssumption PROVE Logs!Spec => []Logs!QuietShowsQuery
  BY LogsInit, LogsNext, LogsShown, PTL DEF Logs!Spec

-------------------------------------------------------------------------------
(* Places in an order without ties count from zero without a gap.          *)
Before(S, f, x) == {y \in S : f[y] < f[x]}

LEMMA Places ==
  ASSUME NEW S, IsFiniteSet(S), NEW f, \A x \in S : f[x] \in Int,
         \A x, y \in S : f[x] = f[y] => x = y
  PROVE  /\ Cardinality(S) \in Nat
         /\ \A x \in S : /\ IsFiniteSet(Before(S, f, x))
                         /\ Cardinality(Before(S, f, x)) \in 0..(Cardinality(S) - 1)
         /\ \A x, y \in S :
               Cardinality(Before(S, f, x)) = Cardinality(Before(S, f, y)) => x = y
         /\ \A i \in 0..(Cardinality(S) - 1) :
               \E x \in S : Cardinality(Before(S, f, x)) = i
<1> DEFINE k == Cardinality(S)
           r == [x \in S |-> Cardinality(Before(S, f, x))]
<1>1. k \in Nat
  BY FS_CardinalityType
<1>2. ASSUME NEW x \in S
      PROVE  IsFiniteSet(Before(S, f, x)) /\ Cardinality(Before(S, f, x)) \in 0..(k - 1)
  <2>1. IsFiniteSet(S \ {x}) /\ Cardinality(S \ {x}) = k - 1
    BY FS_RemoveElement
  <2>2. Before(S, f, x) \subseteq S \ {x}
    BY DEF Before
  <2>3. IsFiniteSet(Before(S, f, x)) /\ Cardinality(Before(S, f, x)) <= k - 1
    BY <2>1, <2>2, FS_Subset
  <2>4. Cardinality(Before(S, f, x)) \in Nat
    BY <2>3, FS_CardinalityType
  <2> QED BY <1>1, <2>3, <2>4
<1>3. r \in [S -> 0..(k - 1)]
  BY <1>2
<1>4. ASSUME NEW x \in S, NEW y \in S, f[x] < f[y] PROVE r[x] # r[y]
  <2>1. x \in Before(S, f, y) /\ x \notin Before(S, f, x)
    BY <1>4 DEF Before
  <2>2. Before(S, f, x) \subseteq Before(S, f, y)
    <3> SUFFICES ASSUME NEW z \in Before(S, f, x) PROVE f[z] < f[y]
      BY DEF Before
    <3>1. z \in S /\ f[z] \in Int /\ f[x] \in Int /\ f[y] \in Int /\ f[z] < f[x]
      BY DEF Before
    <3> QED BY <1>4, <3>1
  <2>3. Cardinality(Before(S, f, x)) # Cardinality(Before(S, f, y))
    BY <1>2, <2>1, <2>2, FS_Subset
  <2> QED BY <2>3
<1> HIDE DEF r
<1>5. \A x, y \in S : r[x] = r[y] => x = y
  <2> SUFFICES ASSUME NEW x \in S, NEW y \in S, r[x] = r[y], x # y PROVE FALSE
    OBVIOUS
  <2>1. f[x] \in Int /\ f[y] \in Int /\ f[x] # f[y]
    OBVIOUS
  <2>2. f[x] < f[y] \/ f[y] < f[x]
    BY <2>1
  <2> QED BY <1>4, <2>2
<1>6. r \in Injection(S, 0..(k - 1))
  BY <1>3, <1>5 DEF Injection, IsInjective
<1>7. IsFiniteSet(0..(k - 1)) /\ Cardinality(0..(k - 1)) = k
  BY <1>1, FS_Interval
<1>8. r \in Surjection(S, 0..(k - 1))
  BY <1>6, <1>7, FS_Injection
<1>9. \A i \in 0..(k - 1) : \E x \in S : r[x] = i
  BY <1>8 DEF Surjection
<1>10. \A x \in S : r[x] = Cardinality(Before(S, f, x))
  BY DEF r
<1> QED BY <1>1, <1>2, <1>5, <1>9, <1>10

(* A page that is there begins within the list. *)
LEMMA PageStarts ==
  ASSUME NEW n \in Nat, NEW q \in Nat \ {0}, NEW p \in Nat, p > 1, p <= (n + q - 1) \div q
  PROVE  (p - 1) * q < n
<1> DEFINE d == (n + q - 1) \div q
<1>1. d \in Int /\ d * q <= n + q - 1
  OBVIOUS
<1> HIDE DEF d
<1>2. p * q <= d * q
  BY <1>1 DEF d
<1>3. p * q <= n + q - 1
  BY <1>1, <1>2
<1>4. (p - 1) * q = p * q - q
  OBVIOUS
<1>5. p * q \in Int
  OBVIOUS
<1> QED BY <1>3, <1>4, <1>5

-------------------------------------------------------------------------------
(* LogFilters.  A page with an answer shows the one to what is asked for:  *)
(* whatever changes what is asked for asks again.                          *)
AnswerStands ==
    ~awaited =>
        /\ \A e \in table.rows : e[2] = "copy" \/ Filters!Passes(e[1])
        /\ ~table.demo => /\ table.rows = Filters!Displayed
                          /\ table.total = Filters!Cardinality(Filters!Matching) + Len(duplicates)

(* A page turned to when it was there begins within the logs that match.   *)
PageIsThere ==
    sure => \/ view.page = 1
            \/ /\ typed = search
               /\ (view.page - 1) * view.perPage
                    < Filters!Cardinality(Filters!Matching) + Len(duplicates)

FiltersInv == Filters!FiltersTypeOK /\ AnswerStands /\ PageIsThere

FiltersAssumption ==
    /\ IsFiniteSet(Line) /\ IsFiniteSet(DemoLine)
    /\ PerPage \subseteq Nat \ {0} /\ BaseTotal \in Nat /\ MaxPage \in Nat \ {0}
    /\ Len(SeverityOrder) \in Nat /\ DOMAIN SeverityOrder = 1..Len(SeverityOrder)
    /\ \A f \in Field : /\ \A l \in Line : LineRank[f][l] \in Int
                        /\ \A l, m \in Line : LineRank[f][l] = LineRank[f][m] => l = m

LEMMA FiltersCardinality == \A S : Filters!Cardinality(S) = Cardinality(S)
  BY DEF Filters!Cardinality, Cardinality

Views == [page : 1..MaxPage, perPage : PerPage, by : Field, order : {"asc", "desc"}]

LEMMA CopiesShape ==
  ASSUME FiltersAssumption, Filters!FiltersTypeOK
  PROVE  /\ Len(duplicates) \in Nat
         /\ \A n : /\ Filters!FirstOf(n) \subseteq Line /\ IsFiniteSet(Filters!FirstOf(n))
                   /\ duplicates = <<>> => Filters!FirstOf(n) = {}
<1>1. PICK n \in 0..Filters!Cardinality(Line) : duplicates \in [1..n -> Line]
  BY DEF Filters!FiltersTypeOK, Filters!Copies
<1>2. duplicates \in Seq(Line)
  BY <1>1
<1>3. Len(duplicates) \in Nat /\ \A i \in 1..Len(duplicates) : duplicates[i] \in Line
  BY <1>2
<1>4. \A m : Filters!FirstOf(m) \subseteq Line
  BY <1>3 DEF Filters!FirstOf
<1>5. \A m : IsFiniteSet(Filters!FirstOf(m))
  BY <1>4, FS_Subset DEF FiltersAssumption
<1>6. ASSUME duplicates = <<>>, NEW m PROVE Filters!FirstOf(m) = {}
  BY <1>6 DEF Filters!FirstOf
<1> QED BY <1>3, <1>4, <1>5, <1>6

(* The logs that match are finitely many. *)
LEMMA MatchingShape ==
  ASSUME FiltersAssumption, Filters!FiltersTypeOK
  PROVE  /\ Filters!Matching \subseteq Line /\ IsFiniteSet(Filters!Matching)
         /\ Filters!Cardinality(Filters!Matching) \in Nat
         /\ Filters!Cardinality(Filters!Matching) + Len(duplicates) \in Nat
<1>1. Filters!Matching \subseteq Line
  BY DEF Filters!Matching, Filters!FiltersTypeOK
<1>2. IsFiniteSet(Filters!Matching)
  BY <1>1, FS_Subset DEF FiltersAssumption
<1>3. Filters!Cardinality(Filters!Matching) \in Nat
  BY <1>2, FS_CardinalityType, FiltersCardinality
<1> QED BY <1>1, <1>2, <1>3, CopiesShape

(* What a page of the list of matching logs holds, and that it holds one   *)
(* if it begins within the list.                                           *)
LEMMA SliceHasRow ==
  ASSUME FiltersAssumption, Filters!FiltersTypeOK, duplicates = <<>>,
         (view.page - 1) * view.perPage < Filters!Cardinality(Filters!Matching)
  PROVE  Filters!Displayed # {}
<1> DEFINE M == Filters!Matching
           S == M \X {"row"}
           up == [e \in S |-> LineRank[view.by][e[1]]]
           down == [e \in S |-> 0 - LineRank[view.by][e[1]]]
           f == IF view.order = "asc" THEN up ELSE down
           skip == (view.page - 1) * view.perPage
           before(e) == {d \in S : IF view.order = "asc"
                                   THEN LineRank[view.by][d[1]] < LineRank[view.by][e[1]]
                                   ELSE LineRank[view.by][d[1]] > LineRank[view.by][e[1]]}
<1>1. M \subseteq Line /\ IsFiniteSet(M) /\ Filters!Cardinality(M) = Cardinality(M)
  BY MatchingShape, FiltersCardinality
<1>2. IsFiniteSet(S) /\ Cardinality(S) = Cardinality(M)
  <2>1. IsFiniteSet({"row"}) /\ Cardinality({"row"}) = 1
    BY FS_Singleton
  <2>2. IsFiniteSet(S) /\ Cardinality(S) = Cardinality(M) * 1
    BY <1>1, <2>1, FS_Product
  <2>3. Cardinality(M) \in Nat
    BY <1>1, FS_CardinalityType
  <2> QED BY <2>2, <2>3
<1>3. /\ view.page \in 1..MaxPage /\ view.perPage \in PerPage /\ view.by \in Field
      /\ view.page \in Nat /\ view.perPage \in Nat \ {0} /\ skip \in Nat
  <2>1. view.page \in 1..MaxPage /\ view.perPage \in PerPage /\ view.by \in Field
    BY DEF Filters!FiltersTypeOK
  <2>2. view.perPage \in Nat \ {0}
    BY <2>1 DEF FiltersAssumption
  <2>3. view.page \in Nat /\ view.page >= 1
    BY <2>1 DEF FiltersAssumption
  <2>4. skip \in Nat
    BY <2>2, <2>3
  <2> QED BY <2>1, <2>2, <2>3, <2>4
<1>4. \A e \in S : /\ e[1] \in Line /\ LineRank[view.by][e[1]] \in Int
                   /\ e = <<e[1], "row">>
  BY <1>1, <1>3 DEF FiltersAssumption
<1>5. \A e \in S : f[e] \in Int
  BY <1>4
<1>6. \A d, e \in S : f[d] = f[e] => d = e
  <2> SUFFICES ASSUME NEW d \in S, NEW e \in S, f[d] = f[e] PROVE d = e
    OBVIOUS
  <2>1. LineRank[view.by][d[1]] = LineRank[view.by][e[1]]
    BY <1>4
  <2>2. d[1] = e[1]
    BY <1>3, <1>4, <2>1 DEF FiltersAssumption
  <2> QED BY <1>4, <2>2
<1>7. \A e \in S : Before(S, f, e) = before(e)
  <2> SUFFICES ASSUME NEW e \in S, NEW d \in S
               PROVE  f[d] < f[e] <=> d \in before(e)
    BY DEF Before
  <2>1. LineRank[view.by][d[1]] \in Int /\ LineRank[view.by][e[1]] \in Int
    BY <1>4
  <2> QED BY <2>1
<1>8. Cardinality(S) \in Nat /\ skip \in 0..(Cardinality(S) - 1)
  <2>1. Cardinality(S) \in Nat
    BY <1>2, FS_CardinalityType
  <2>2. skip < Cardinality(S)
    BY <1>1, <1>2
  <2> HIDE DEF S, skip
  <2> QED BY <1>3, <2>1, <2>2
<1> HIDE DEF f, S
<1>9. PICK e \in S : Cardinality(Before(S, f, e)) = skip
  BY <1>2, <1>5, <1>6, <1>8, Places
<1>10. Filters!Cardinality(before(e)) = skip
  BY <1>7, <1>9, FiltersCardinality
<1>11. e \in Filters!Slice(S)
  <2>1. skip \in skip..(skip + view.perPage - 1)
    <3> HIDE DEF skip
    <3> QED BY <1>3
  <2> QED BY <1>9, <1>10, <2>1 DEF Filters!Slice
<1>12. CASE view.page = 1 /\ ~search /\ severities = {} /\ sources = {}
  <2> DEFINE rows == Filters!Slice(S)
             rank == Filters!Cardinality({d \in rows : IF view.order = "asc"
                                THEN LineRank[view.by][d[1]] < LineRank[view.by][e[1]]
                                ELSE LineRank[view.by][d[1]] > LineRank[view.by][e[1]]})
             newest == Filters!FirstOf(view.perPage) \X {"copy"}
  <2>1. newest = {} /\ Filters!Cardinality(newest) = 0
    BY CopiesShape, FiltersCardinality, FS_EmptySet
  <2>2. skip = 0
    BY <1>3, <1>12
  <2>3. before(e) = {}
    BY <1>2, <1>7, <1>9, <2>2, FS_EmptySet, FS_Subset DEF Before
  <2>4. rows \subseteq S
    BY DEF Filters!Slice
  <2>5. {d \in rows : IF view.order = "asc"
                      THEN LineRank[view.by][d[1]] < LineRank[view.by][e[1]]
                      ELSE LineRank[view.by][d[1]] > LineRank[view.by][e[1]]} = {}
    BY <2>3, <2>4
  <2>6. rank = 0
    BY <2>5, FiltersCardinality, FS_EmptySet
  <2>7. rank < view.perPage - Filters!Cardinality(newest)
    BY <1>3, <2>1, <2>6
  <2>8. e \in Filters!Displayed
    BY <1>11, <1>12, <2>7 DEF Filters!Displayed, S
  <2> QED BY <2>8
<1>13. CASE ~(view.page = 1 /\ ~search /\ severities = {} /\ sources = {})
  BY <1>11, <1>13 DEF Filters!Displayed, S
<1> QED BY <1>12, <1>13

-------------------------------------------------------------------------------
LEMMA FiltersInit == ASSUME FiltersAssumption PROVE Filters!Init => FiltersInv
<1> SUFFICES ASSUME Filters!Init PROVE FiltersInv
  OBVIOUS
<1>1. TRUE \in BOOLEAN /\ FALSE \in BOOLEAN
  OBVIOUS
<1>2. /\ lines \in SUBSET Line /\ duplicates \in Filters!Copies
      /\ typed = FALSE /\ search = FALSE /\ severities = {} /\ sources = {} /\ place = {}
      /\ awaited = TRUE /\ sure = TRUE
      /\ table = [rows |-> DemoLine \X {"mock"}, total |-> Filters!Cardinality(DemoLine),
                  demo |-> TRUE]
  BY DEF Filters!Init
<1>3. PICK n \in PerPage, f \in Field :
        view = [page |-> 1, perPage |-> n, by |-> f, order |-> "desc"]
  BY DEF Filters!Init
<1>4. 1 \in 1..MaxPage
  BY DEF FiltersAssumption
<1>5. view \in Views /\ view.page = 1
  BY <1>3, <1>4 DEF Views
<1>6. Filters!Cardinality(DemoLine) \in Nat
  BY FS_CardinalityType, FiltersCardinality DEF FiltersAssumption
<1>7. table \in [rows : SUBSET Filters!Entry, total : Nat, demo : BOOLEAN]
  BY <1>1, <1>2, <1>6 DEF Filters!Entry
<1>8. Filters!FiltersTypeOK
  BY <1>1, <1>2, <1>5, <1>7 DEF Filters!FiltersTypeOK, Views
<1>9. AnswerStands
  BY <1>2 DEF AnswerStands
<1>10. PageIsThere
  BY <1>5 DEF PageIsThere
<1> QED BY <1>8, <1>9, <1>10 DEF FiltersInv

(* A change of what is asked for asks again; it goes back to the first     *)
(* page, or leaves the page where it is there.                             *)
LEMMA ChangeKeeps ==
  ASSUME FiltersInv, lines' = lines, duplicates' = duplicates, table' = table,
         typed' \in BOOLEAN, search' \in BOOLEAN,
         severities' \subseteq Filters!Severity, sources' \subseteq Sender,
         place' \subseteq {"ip", "dates"}, view' \in Views, sure' \in BOOLEAN,
         \/ awaited' = TRUE
         \/ /\ awaited' = awaited /\ search' = search /\ severities' = severities
            /\ sources' = sources /\ place' = place /\ view' = view,
         sure' => \/ view'.page = 1
                  \/ /\ typed' = search'
                     /\ search' = search /\ severities' = severities /\ sources' = sources
                     /\ place' = place
                     /\ (view'.page - 1) * view'.perPage
                          < Filters!Cardinality(Filters!Matching) + Len(duplicates)
  PROVE  FiltersInv'
<1>1. awaited' \in BOOLEAN
  <2>1. TRUE \in BOOLEAN /\ awaited \in BOOLEAN
    BY DEF FiltersInv, Filters!FiltersTypeOK
  <2> QED BY <2>1
<1>2. Filters!FiltersTypeOK'
  BY <1>1 DEF FiltersInv, Filters!FiltersTypeOK, Views, Filters!Copies, Filters!Severity,
     Filters!Entry
<1>3. AnswerStands'
  <2> SUFFICES ASSUME ~awaited' PROVE AnswerStands'
    BY DEF AnswerStands
  <2>1. /\ awaited' = awaited /\ search' = search /\ severities' = severities
        /\ sources' = sources /\ place' = place /\ view' = view
    OBVIOUS
  <2>2. \A l : Filters!Passes(l)' = Filters!Passes(l)
    BY <2>1 DEF Filters!Passes
  <2>3. Filters!Matching' = Filters!Matching
    BY <2>2 DEF Filters!Matching
  <2>4. Filters!Displayed' = Filters!Displayed
    BY <2>1, <2>3 DEF Filters!Displayed, Filters!Slice, Filters!FirstOf
  <2> QED BY <2>1, <2>2, <2>3, <2>4 DEF FiltersInv, AnswerStands
<1>4. PageIsThere'
  <2> SUFFICES ASSUME sure', view'.page # 1
               PROVE  /\ typed' = search'
                      /\ (view'.page - 1) * view'.perPage
                           < Filters!Cardinality(Filters!Matching)' + Len(duplicates)'
    BY DEF PageIsThere
  <2>1. /\ search' = search /\ severities' = severities /\ sources' = sources
        /\ place' = place
    OBVIOUS
  <2>2. Filters!Matching' = Filters!Matching
    BY <2>1 DEF Filters!Matching, Filters!Passes
  <2> QED BY <2>2
<1> QED BY <1>2, <1>3, <1>4 DEF FiltersInv

(* An answer, of the backend or of the demo data. *)
LEMMA AnswerKeeps ==
  ASSUME FiltersAssumption, FiltersInv, Filters!Served \/ Filters!FallBack
  PROVE  FiltersInv'
<1>0. TRUE \in BOOLEAN /\ FALSE \in BOOLEAN
  OBVIOUS
<1>1. /\ lines' = lines /\ duplicates' = duplicates /\ typed' = typed /\ search' = search
      /\ severities' = severities /\ sources' = sources /\ place' = place /\ view' = view
      /\ sure' = sure /\ awaited' = FALSE
  BY DEF Filters!Served, Filters!FallBack, Filters!filters
<1>2. \A l : Filters!Passes(l)' = Filters!Passes(l)
  BY <1>1 DEF Filters!Passes
<1>3. Filters!Matching' = Filters!Matching
  BY <1>1, <1>2 DEF Filters!Matching
<1>4. Filters!Displayed' = Filters!Displayed
  BY <1>1, <1>3 DEF Filters!Displayed, Filters!Slice, Filters!FirstOf
<1>5. \A S : Filters!Slice(S) \subseteq S
  BY DEF Filters!Slice
<1>6. Filters!FiltersTypeOK
  BY DEF FiltersInv
<1>7. /\ table' \in [rows : SUBSET Filters!Entry, total : Nat, demo : BOOLEAN]
      /\ \A e \in table'.rows : e[2] = "copy" \/ Filters!Passes(e[1])
      /\ ~table'.demo => /\ table'.rows = Filters!Displayed
                         /\ table'.total = Filters!Cardinality(Filters!Matching) + Len(duplicates)
  <2>1. CASE Filters!Served
    <3>1. table' = [rows |-> Filters!Displayed,
                    total |-> Filters!Cardinality(Filters!Matching) + Len(duplicates),
                    demo |-> FALSE]
      BY <2>1 DEF Filters!Served
    <3>2. Filters!Displayed \subseteq (Filters!FirstOf(view.perPage) \X {"copy"})
                                        \cup (Filters!Matching \X {"row"})
      BY <1>5 DEF Filters!Displayed
    <3>3. \A e \in Filters!Displayed :
            \/ e[2] = "copy" /\ e \in Line \X {"row", "copy"}
            \/ e[1] \in Filters!Matching /\ e \in Line \X {"row", "copy"}
      BY <1>6, <3>2, CopiesShape, MatchingShape
    <3>4. \A l \in Filters!Matching : Filters!Passes(l)
      BY DEF Filters!Matching
    <3>5. Filters!Cardinality(Filters!Matching) + Len(duplicates) \in Nat
      BY <1>6, MatchingShape
    <3>6. Filters!Displayed \subseteq Filters!Entry
      BY <3>3 DEF Filters!Entry
    <3>7. table' \in [rows : SUBSET Filters!Entry, total : Nat, demo : BOOLEAN]
      BY <1>0, <3>1, <3>5, <3>6
    <3> QED BY <3>1, <3>3, <3>4, <3>7
  <2>2. CASE Filters!FallBack
    <3> DEFINE combined == (Filters!FirstOf(Len(duplicates)) \X {"copy"})
                              \cup (DemoLine \X {"mock"})
               kept == {e \in combined : Filters!Passes(e[1])}
    <3>1. table' = [rows |-> Filters!Synchronized.rows, total |-> Filters!Synchronized.total,
                    demo |-> TRUE]
      BY <2>2 DEF Filters!FallBack
    <3>2. Filters!Synchronized =
            [rows |-> Filters!Slice(kept),
             total |-> IF Filters!NoFilters THEN BaseTotal + Len(duplicates)
                       ELSE Filters!Cardinality(kept)]
      BY DEF Filters!Synchronized
    <3>3. kept \subseteq combined /\ \A e \in kept : Filters!Passes(e[1])
      OBVIOUS
    <3>4. combined \subseteq Filters!Entry
      BY <1>6, CopiesShape DEF Filters!Entry
    <3>5. IsFiniteSet(combined)
      <4>1. IsFiniteSet({"copy"}) /\ IsFiniteSet({"mock"})
        BY FS_Singleton
      <4>2. IsFiniteSet(Filters!FirstOf(Len(duplicates))) /\ IsFiniteSet(DemoLine)
        BY <1>6, CopiesShape DEF FiltersAssumption
      <4>3. /\ IsFiniteSet(Filters!FirstOf(Len(duplicates)) \X {"copy"})
            /\ IsFiniteSet(DemoLine \X {"mock"})
        BY <4>1, <4>2, FS_Product
      <4> QED BY <4>3, FS_Union
    <3> HIDE DEF kept, combined
    <3>6. Filters!Cardinality(kept) \in Nat
      <4>1. IsFiniteSet(kept)
        BY <3>3, <3>5, FS_Subset
      <4> QED BY <4>1, FS_CardinalityType, FiltersCardinality
    <3>7. BaseTotal + Len(duplicates) \in Nat
      BY <1>6, CopiesShape DEF FiltersAssumption
    <3>8. /\ Filters!Synchronized.rows \subseteq kept
          /\ Filters!Synchronized.total \in Nat
      BY <1>5, <3>2, <3>6, <3>7
    <3>9. table' \in [rows : SUBSET Filters!Entry, total : Nat, demo : BOOLEAN]
      BY <1>0, <3>1, <3>3, <3>4, <3>8
    <3> QED BY <3>1, <3>3, <3>8, <3>9
  <2> QED BY <2>1, <2>2
<1>8. Filters!FiltersTypeOK'
  BY <1>0, <1>1, <1>6, <1>7 DEF Filters!FiltersTypeOK, Filters!Copies, Filters!Severity,
     Filters!Entry
<1>9. AnswerStands'
  BY <1>1, <1>2, <1>3, <1>4, <1>7 DEF AnswerStands
<1>10. PageIsThere'
  BY <1>1, <1>3 DEF FiltersInv, PageIsThere
<1> QED BY <1>8, <1>9, <1>10 DEF FiltersInv

(* The toolbar and its buttons. *)
LEMMA FilterKeeps ==
  ASSUME FiltersAssumption, FiltersInv,
         \/ \E s \in Filters!Severity, modifier \in BOOLEAN : Filters!ClickSeverity(s, modifier)
         \/ Filters!ClickAll \/ Filters!AllSources \/ Filters!TypeAddress \/ Filters!PickDates
         \/ \E step \in {-1, 1} : Filters!ArrowKey(step)
         \/ \E s \in Sender : Filters!ToggleSource(s)
         \/ \E e \in Filters!Entry : Filters!FilterByIp(e)
         \/ Filters!ClearFilters
  PROVE  FiltersInv'
<1>0. /\ typed \in BOOLEAN /\ search \in BOOLEAN /\ severities \subseteq Filters!Severity
      /\ sources \subseteq Sender /\ place \subseteq {"ip", "dates"} /\ view \in Views
      /\ TRUE \in BOOLEAN /\ FALSE \in BOOLEAN
  BY DEF FiltersInv, Filters!FiltersTypeOK, Views
<1>1. Filters!FirstPage \in Views /\ Filters!FirstPage.page = 1
  <2>1. 1 \in 1..MaxPage
    BY DEF FiltersAssumption
  <2> QED BY <1>0, <2>1 DEF Filters!FirstPage, Views
<1>2. ASSUME NEW S \in SUBSET Filters!Severity, Filters!SetSeverities(S) PROVE FiltersInv'
  <2>1. /\ lines' = lines /\ duplicates' = duplicates /\ table' = table /\ typed' = typed
        /\ search' = search /\ severities' = S /\ sources' = sources /\ place' = place
        /\ view' = Filters!FirstPage /\ sure' = TRUE /\ awaited' = TRUE
    BY <1>2 DEF Filters!SetSeverities
  <2> QED BY <1>0, <1>1, <2>1, ChangeKeeps
<1>3. ASSUME NEW S \in SUBSET Sender, Filters!SetSources(S) PROVE FiltersInv'
  <2>1. /\ lines' = lines /\ duplicates' = duplicates /\ table' = table /\ typed' = typed
        /\ search' = search /\ severities' = severities /\ sources' = S /\ place' = place
        /\ view' = Filters!FirstPage /\ sure' = TRUE /\ awaited' = TRUE
    BY <1>3 DEF Filters!SetSources
  <2> QED BY <1>0, <1>1, <2>1, ChangeKeeps
<1>4. ASSUME NEW S \in SUBSET {"ip", "dates"}, Filters!SetPlace(S) PROVE FiltersInv'
  <2>1. /\ lines' = lines /\ duplicates' = duplicates /\ table' = table /\ typed' = typed
        /\ search' = search /\ severities' = severities /\ sources' = sources /\ place' = S
        /\ view' = Filters!FirstPage /\ sure' = TRUE /\ awaited' = TRUE
    BY <1>4 DEF Filters!SetPlace
  <2> QED BY <1>0, <1>1, <2>1, ChangeKeeps
<1>5. ASSUME NEW s \in Filters!Severity, NEW modifier \in BOOLEAN,
             Filters!ClickSeverity(s, modifier)
      PROVE  FiltersInv'
  <2> DEFINE S == IF modifier THEN IF s \in severities THEN severities \ {s}
                                   ELSE severities \cup {s}
                  ELSE IF severities = {s} THEN {} ELSE {s}
  <2>1. S \in SUBSET Filters!Severity
    BY <1>0
  <2>2. Filters!SetSeverities(S)
    BY <1>5 DEF Filters!ClickSeverity
  <2> QED BY <1>2, <2>1, <2>2
<1>6. CASE Filters!ClickAll
  BY <1>2, <1>6 DEF Filters!ClickAll
<1>7. ASSUME NEW step \in {-1, 1}, Filters!ArrowKey(step) PROVE FiltersInv'
  <2> DEFINE n == Len(SeverityOrder) + 1
             at == IF Filters!Cardinality(severities) = 1
                   THEN CHOOSE i \in DOMAIN SeverityOrder : severities = {SeverityOrder[i]}
                   ELSE 0
             next == (at + step + n) % n
             S == IF next = 0 THEN {} ELSE {SeverityOrder[next]}
  <2>1. Filters!SetSeverities(S)
    BY <1>7 DEF Filters!ArrowKey
  <2>2. n \in Nat \ {0} /\ DOMAIN SeverityOrder = 1..(n - 1)
    BY DEF FiltersAssumption
  <2>3. at \in Int
    <3>1. CASE Filters!Cardinality(severities) = 1
      <4>1. \E i \in DOMAIN SeverityOrder : Filters!Severity = {SeverityOrder[j] : j \in DOMAIN SeverityOrder}
              => severities = {SeverityOrder[i]}
        <5>1. Cardinality(severities) = 1
          BY <3>1, FiltersCardinality
        <5>2. IsFiniteSet(severities)
          <6>1. IsFiniteSet(1..(n - 1))
            BY <2>2, FS_Interval
          <6>2. Filters!Severity = {SeverityOrder[i] : i \in 1..(n - 1)}
            BY <2>2 DEF Filters!Severity
          <6>3. [i \in 1..(n - 1) |-> SeverityOrder[i]]
                   \in Surjection(1..(n - 1), Filters!Severity)
            BY <6>2 DEF Surjection
          <6>4. IsFiniteSet(Filters!Severity)
            BY <6>1, <6>3, FS_Surjection
          <6> QED BY <1>0, <6>4, FS_Subset
        <5>3. PICK x : severities = {x}
          BY <5>1, <5>2, FS_Singleton
        <5>4. x \in Filters!Severity
          BY <1>0, <5>3
        <5>5. PICK i \in DOMAIN SeverityOrder : x = SeverityOrder[i]
          BY <5>4 DEF Filters!Severity
        <5> QED BY <5>3, <5>5
      <4>2. \E i \in DOMAIN SeverityOrder : severities = {SeverityOrder[i]}
        BY <4>1 DEF Filters!Severity
      <4>3. at \in DOMAIN SeverityOrder
        BY <3>1, <4>2
      <4> QED BY <2>2, <4>3
    <3>2. CASE Filters!Cardinality(severities) # 1
      BY <3>2
    <3> QED BY <3>1, <3>2
  <2>4. next \in 0..(n - 1)
    <3> HIDE DEF at, n
    <3>1. at + step + n \in Int
      BY <2>2, <2>3
    <3> QED BY <2>2, <3>1
  <2>5. S \in SUBSET Filters!Severity
    <3>1. CASE next = 0
      BY <3>1
    <3>2. CASE next # 0
      <4> HIDE DEF next
      <4>1. next \in DOMAIN SeverityOrder
        BY <2>2, <2>4, <3>2
      <4>2. SeverityOrder[next] \in Filters!Severity
        BY <4>1 DEF Filters!Severity
      <4> QED BY <3>2, <4>2
    <3> QED BY <3>1, <3>2
  <2> HIDE DEF S
  <2> QED BY <1>2, <2>1, <2>5
<1>8. ASSUME NEW s \in Sender, Filters!ToggleSource(s) PROVE FiltersInv'
  <2> DEFINE S == IF s \in sources THEN sources \ {s} ELSE sources \cup {s}
  <2>1. S \in SUBSET Sender /\ Filters!SetSources(S)
    BY <1>0, <1>8 DEF Filters!ToggleSource
  <2> QED BY <1>3, <2>1
<1>9. CASE Filters!AllSources
  BY <1>3, <1>9 DEF Filters!AllSources
<1>10. /\ place \cup {"ip"} \in SUBSET {"ip", "dates"}
       /\ place \ {"ip"} \in SUBSET {"ip", "dates"}
       /\ place \cup {"dates"} \in SUBSET {"ip", "dates"}
       /\ place \ {"dates"} \in SUBSET {"ip", "dates"}
  BY <1>0
<1>11. CASE Filters!TypeAddress \/ Filters!PickDates
  BY <1>4, <1>10, <1>11 DEF Filters!TypeAddress, Filters!PickDates
<1>12. ASSUME NEW e \in Filters!Entry, Filters!FilterByIp(e) PROVE FiltersInv'
  BY <1>4, <1>10, <1>12 DEF Filters!FilterByIp
<1>13. CASE Filters!ClearFilters
  <2>1. /\ lines' = lines /\ duplicates' = duplicates /\ table' = table /\ typed' = FALSE
        /\ search' = search /\ severities' = {} /\ sources' = {} /\ place' = {}
        /\ view' = Filters!FirstPage /\ sure' = TRUE /\ awaited' = TRUE
    BY <1>13 DEF Filters!ClearFilters
  <2> QED BY <1>0, <1>1, <2>1, ChangeKeeps
<1> QED BY <1>5, <1>6, <1>7, <1>8, <1>9, <1>11, <1>12, <1>13

LEMMA ViewShape ==
  ASSUME FiltersAssumption, view \in Views
  PROVE  view.page \in Int /\ view.page >= 1 /\ view.perPage \in Nat \ {0}
<1>1. view.page \in 1..MaxPage /\ view.perPage \in PerPage
  BY DEF Views
<1>2. MaxPage \in Nat /\ PerPage \subseteq Nat \ {0}
  BY DEF FiltersAssumption
<1>3. view.page \in Int /\ view.page >= 1
  BY <1>1, <1>2
<1> QED BY <1>1, <1>2, <1>3

(* The search field, 300 ms later; the pages, their length and their order. *)
LEMMA TurnKeeps ==
  ASSUME FiltersAssumption, FiltersInv, NEW p \in Int, p >= 1, Filters!Turn(p)
  PROVE  FiltersInv'
<1>0. /\ typed \in BOOLEAN /\ search \in BOOLEAN /\ severities \subseteq Filters!Severity
      /\ sources \subseteq Sender /\ place \subseteq {"ip", "dates"} /\ view \in Views
      /\ awaited \in BOOLEAN /\ table.total \in Nat
  BY DEF FiltersInv, Filters!FiltersTypeOK, Views
<1>1. /\ p <= MaxPage /\ view' = [view EXCEPT !.page = p]
      /\ awaited' = (awaited \/ p # view.page)
      /\ sure' = (p = 1 \/ (Filters!AtRest /\ ~table.demo /\ p <= Filters!totalPages))
      /\ lines' = lines /\ duplicates' = duplicates /\ table' = table /\ typed' = typed
      /\ search' = search /\ severities' = severities /\ sources' = sources
      /\ place' = place
  BY DEF Filters!Turn, Filters!filters
<1>2. view' \in Views /\ view'.page = p /\ view'.perPage = view.perPage
  <2>1. p \in 1..MaxPage
    BY <1>1 DEF FiltersAssumption
  <2> QED BY <1>0, <1>1, <2>1 DEF Views
<1>3. sure' \in BOOLEAN
  BY <1>1
<1>4. awaited' = TRUE \/ (awaited' = awaited /\ view' = view)
  <2>1. CASE p = view.page
    <3>1. view' = view
      BY <1>0, <1>1, <2>1 DEF Views
    <3> QED BY <1>0, <1>1, <2>1, <3>1
  <2>2. CASE p # view.page
    BY <1>1, <2>2
  <2> QED BY <2>1, <2>2
<1>5. ASSUME sure', p # 1
      PROVE  /\ typed = search
             /\ (p - 1) * view.perPage
                  < Filters!Cardinality(Filters!Matching) + Len(duplicates)
  <2>1. ~awaited /\ typed = search /\ ~table.demo /\ p <= Filters!totalPages
    BY <1>1, <1>5 DEF Filters!AtRest
  <2>2. table.total = Filters!Cardinality(Filters!Matching) + Len(duplicates)
    BY <2>1 DEF FiltersInv, AnswerStands
  <2>3. view.perPage \in Nat \ {0}
    BY <1>0 DEF Views, FiltersAssumption
  <2> DEFINE n == (table.total + view.perPage - 1) \div view.perPage
  <2>4. Filters!totalPages = IF n > 1 THEN n ELSE 1
    BY DEF Filters!totalPages
  <2>5. n \in Int
    BY <1>0, <2>3
  <2>6. p > 1 /\ p \in Nat /\ p <= n
    <3> HIDE DEF n
    <3> QED BY <1>5, <2>1, <2>4, <2>5
  <2>7. (p - 1) * view.perPage < table.total
    BY <1>0, <2>3, <2>6, PageStarts
  <2> QED BY <2>1, <2>2, <2>7
<1> QED BY <1>0, <1>1, <1>2, <1>3, <1>4, <1>5, ChangeKeeps

LEMMA PageKeeps ==
  ASSUME FiltersAssumption, FiltersInv,
         \/ Filters!TypeSearch \/ Filters!Debounced
         \/ Filters!Previous \/ Filters!NextPage \/ Filters!Sync
         \/ \E p \in 1..MaxPage : Filters!Number(p)
         \/ \E n \in PerPage : Filters!SetPerPage(n)
         \/ \E f \in Field : Filters!SortBy(f)
  PROVE  FiltersInv'
<1>0. /\ typed \in BOOLEAN /\ search \in BOOLEAN /\ severities \subseteq Filters!Severity
      /\ sources \subseteq Sender /\ place \subseteq {"ip", "dates"} /\ view \in Views
      /\ awaited \in BOOLEAN /\ table.total \in Nat /\ sure \in BOOLEAN
      /\ TRUE \in BOOLEAN /\ FALSE \in BOOLEAN
  BY DEF FiltersInv, Filters!FiltersTypeOK, Views
<1>1. Filters!FirstPage \in Views /\ Filters!FirstPage.page = 1
  <2>1. 1 \in 1..MaxPage
    BY DEF FiltersAssumption
  <2> QED BY <1>0, <2>1 DEF Filters!FirstPage, Views
<1>2. view.page \in Int /\ view.page >= 1 /\ view.perPage \in Nat \ {0}
  BY <1>0, ViewShape
<1>3. Filters!totalPages \in Int /\ Filters!totalPages >= 1
  <2> DEFINE n == (table.total + view.perPage - 1) \div view.perPage
  <2>1. Filters!totalPages = IF n > 1 THEN n ELSE 1
    BY DEF Filters!totalPages
  <2>2. n \in Int
    BY <1>0, <1>2
  <2> HIDE DEF n
  <2> QED BY <2>1, <2>2
<1>4. sure => view.page = 1 \/ (/\ typed = search
                                /\ (view.page - 1) * view.perPage
                                     < Filters!Cardinality(Filters!Matching) + Len(duplicates))
  BY DEF FiltersInv, PageIsThere
<1>5. CASE Filters!TypeSearch
  <2>1. /\ lines' = lines /\ duplicates' = duplicates /\ table' = table /\ typed' = ~typed
        /\ search' = search /\ severities' = severities /\ sources' = sources
        /\ place' = place /\ view' = Filters!FirstPage /\ sure' = TRUE
        /\ awaited' = (awaited \/ view.page # 1)
    BY <1>5 DEF Filters!TypeSearch
  <2>2. awaited' = TRUE \/ (awaited' = awaited /\ view' = view)
    <3>1. CASE view.page = 1
      <4>1. view' = view
        BY <1>0, <2>1, <3>1 DEF Filters!FirstPage, Views
      <4> QED BY <1>0, <2>1, <3>1, <4>1
    <3>2. CASE view.page # 1
      BY <2>1, <3>2
    <3> QED BY <3>1, <3>2
  <2>3. typed' \in BOOLEAN
    BY <2>1
  <2> QED BY <1>0, <1>1, <2>1, <2>2, <2>3, ChangeKeeps
<1>6. CASE Filters!Debounced
  <2>1. /\ lines' = lines /\ duplicates' = duplicates /\ table' = table /\ typed' = typed
        /\ search' = typed /\ severities' = severities /\ sources' = sources
        /\ place' = place /\ view' = view /\ sure' = sure /\ awaited' = TRUE
        /\ search # typed
    BY <1>6 DEF Filters!Debounced
  <2>2. sure' => view'.page = 1
    BY <1>4, <2>1
  <2> QED BY <1>0, <2>1, <2>2, ChangeKeeps
<1>7. CASE Filters!Previous
  <2>1. view.page - 1 \in Int /\ view.page - 1 >= 1 /\ Filters!Turn(view.page - 1)
    BY <1>2, <1>7 DEF Filters!Previous
  <2> QED BY <2>1, TurnKeeps
<1>8. CASE Filters!NextPage
  <2> DEFINE p == IF view.page + 1 < Filters!totalPages THEN view.page + 1
                  ELSE Filters!totalPages
  <2>1. Filters!Turn(p)
    BY <1>8 DEF Filters!NextPage
  <2>2. p \in Int /\ p >= 1
    BY <1>2, <1>3
  <2> HIDE DEF p
  <2> QED BY <2>1, <2>2, TurnKeeps
<1>9. CASE Filters!Sync
  <2>1. /\ lines' = lines /\ duplicates' = duplicates /\ table' = table /\ typed' = typed
        /\ search' = search /\ severities' = severities /\ sources' = sources
        /\ place' = place /\ view' = view /\ sure' = sure /\ awaited' = TRUE
    BY <1>9 DEF Filters!Sync, Filters!filters
  <2> QED BY <1>0, <1>4, <2>1, ChangeKeeps
<1>10. ASSUME NEW p \in 1..MaxPage, Filters!Number(p) PROVE FiltersInv'
  <2>1. p \in Int /\ p >= 1 /\ Filters!Turn(p)
    BY <1>10 DEF Filters!Number, FiltersAssumption
  <2> QED BY <2>1, TurnKeeps
<1>11. ASSUME NEW n \in PerPage, Filters!SetPerPage(n) PROVE FiltersInv'
  <2>1. /\ lines' = lines /\ duplicates' = duplicates /\ table' = table /\ typed' = typed
        /\ search' = search /\ severities' = severities /\ sources' = sources
        /\ place' = place /\ view' = [view EXCEPT !.perPage = n, !.page = 1]
        /\ sure' = TRUE /\ awaited' = (awaited \/ view' # view)
    BY <1>11 DEF Filters!SetPerPage, Filters!filters
  <2>2. view' \in Views /\ view'.page = 1
    <3>1. 1 \in 1..MaxPage
      BY DEF FiltersAssumption
    <3> QED BY <1>0, <2>1, <3>1 DEF Views
  <2>3. awaited' = TRUE \/ (awaited' = awaited /\ view' = view)
    BY <1>0, <2>1
  <2> QED BY <1>0, <2>1, <2>2, <2>3, ChangeKeeps
<1>12. ASSUME NEW f \in Field, Filters!SortBy(f) PROVE FiltersInv'
  <2>1. /\ lines' = lines /\ duplicates' = duplicates /\ table' = table /\ typed' = typed
        /\ search' = search /\ severities' = severities /\ sources' = sources
        /\ place' = place /\ sure' = sure /\ awaited' = TRUE
        /\ view' = IF view.by = f
                   THEN [view EXCEPT !.order = IF view.order = "asc" THEN "desc" ELSE "asc"]
                   ELSE [view EXCEPT !.by = f, !.order = "desc"]
    BY <1>12 DEF Filters!SortBy, Filters!filters
  <2>2. view' \in Views /\ view'.page = view.page /\ view'.perPage = view.perPage
    BY <1>0, <2>1 DEF Views
  <2> QED BY <1>0, <1>4, <2>1, <2>2, ChangeKeeps
<1> QED BY <1>5, <1>6, <1>7, <1>8, <1>9, <1>10, <1>11, <1>12

LEMMA FiltersNext ==
  ASSUME FiltersAssumption PROVE FiltersInv /\ [Filters!Next]_(Filters!vars) => FiltersInv'
<1> SUFFICES ASSUME FiltersInv, [Filters!Next]_(Filters!vars) PROVE FiltersInv'
  OBVIOUS
<1>1. CASE Filters!Next
  BY <1>1, AnswerKeeps, FilterKeeps, PageKeeps DEF Filters!Next
<1>2. CASE UNCHANGED Filters!vars
  <2>1. /\ lines' = lines /\ duplicates' = duplicates /\ table' = table /\ typed' = typed
        /\ search' = search /\ severities' = severities /\ sources' = sources
        /\ place' = place /\ view' = view /\ sure' = sure /\ awaited' = awaited
    BY <1>2 DEF Filters!vars, Filters!filters
  <2>2. /\ typed \in BOOLEAN /\ search \in BOOLEAN /\ severities \subseteq Filters!Severity
        /\ sources \subseteq Sender /\ place \subseteq {"ip", "dates"} /\ view \in Views
        /\ sure \in BOOLEAN
    BY DEF FiltersInv, Filters!FiltersTypeOK, Views
  <2>3. sure => view.page = 1 \/ (/\ typed = search
                                  /\ (view.page - 1) * view.perPage
                                       < Filters!Cardinality(Filters!Matching) + Len(duplicates))
    BY DEF FiltersInv, PageIsThere
  <2> QED BY <2>1, <2>2, <2>3, ChangeKeeps
<1> QED BY <1>1, <1>2

(* What the page promises follows. *)
LEMMA FiltersShown ==
  ASSUME FiltersAssumption, FiltersInv
  PROVE  Filters!ShownMatches /\ Filters!PageHasRows
<1>1. Filters!FiltersTypeOK
  BY DEF FiltersInv
<1>2. Filters!ShownMatches
  <2> SUFFICES ASSUME Filters!AtRest
               PROVE  /\ \A e \in table.rows : e[2] = "copy" \/ Filters!Passes(e[1])
                      /\ Filters!NoFilters <=> Filters!activeFilterCount = 0
    BY DEF Filters!ShownMatches
  <2>1. ~awaited /\ typed = search
    BY DEF Filters!AtRest
  <2>2. Filters!Cardinality(place) \in Nat /\ (Filters!Cardinality(place) = 0 <=> place = {})
    <3>1. IsFiniteSet({"ip", "dates"})
      <4>1. IsFiniteSet({"ip"}) /\ IsFiniteSet({"dates"})
        BY FS_Singleton
      <4>2. IsFiniteSet({"ip"} \cup {"dates"})
        BY <4>1, FS_Union
      <4>3. {"ip"} \cup {"dates"} = {"ip", "dates"}
        OBVIOUS
      <4> QED BY <4>2, <4>3
    <3>2. IsFiniteSet(place)
      BY <1>1, <3>1, FS_Subset DEF Filters!FiltersTypeOK
    <3> QED BY <3>2, FS_CardinalityType, FS_EmptySet, FiltersCardinality
  <2>3. typed \in BOOLEAN
    BY <1>1 DEF Filters!FiltersTypeOK
  <2>4. Filters!NoFilters <=> Filters!activeFilterCount = 0
    <3> DEFINE a == IF typed THEN 1 ELSE 0
               b == IF severities # {} THEN 1 ELSE 0
               c == IF sources # {} THEN 1 ELSE 0
    <3>1. Filters!activeFilterCount = a + b + c + Filters!Cardinality(place)
      BY DEF Filters!activeFilterCount
    <3>2. /\ a \in Nat /\ (a = 0 <=> ~typed)
          /\ b \in Nat /\ (b = 0 <=> severities = {})
          /\ c \in Nat /\ (c = 0 <=> sources = {})
      BY <2>3
    <3> HIDE DEF a, b, c
    <3>3. Filters!activeFilterCount = 0
            <=> ~typed /\ severities = {} /\ sources = {} /\ place = {}
      BY <2>2, <3>1, <3>2
    <3> QED BY <2>1, <3>3 DEF Filters!NoFilters
  <2> QED BY <2>1, <2>4 DEF FiltersInv, AnswerStands
<1>3. Filters!PageHasRows
  <2> SUFFICES ASSUME Filters!AtRest, sure, ~table.demo, duplicates = <<>>,
                      Filters!Matching # {}
               PROVE  table.rows # {}
    BY DEF Filters!PageHasRows
  <2>1. table.rows = Filters!Displayed
    BY DEF Filters!AtRest, FiltersInv, AnswerStands
  <2>2. Filters!Cardinality(Filters!Matching) \in Nat \ {0}
    BY <1>1, MatchingShape, FiltersCardinality, FS_EmptySet
  <2>3. view.perPage \in Nat \ {0} /\ view.page \in Int
    BY <1>1, ViewShape DEF Filters!FiltersTypeOK, Views
  <2>4. Len(duplicates) = 0
    OBVIOUS
  <2>5. (view.page - 1) * view.perPage < Filters!Cardinality(Filters!Matching)
    <3>1. CASE view.page = 1
      BY <2>2, <2>3, <3>1
    <3>2. CASE view.page # 1
      BY <2>2, <2>4, <3>2 DEF FiltersInv, PageIsThere
    <3> QED BY <3>1, <3>2
  <2> QED BY <1>1, <2>1, <2>5, SliceHasRow
<1> QED BY <1>2, <1>3

-------------------------------------------------------------------------------
(* ThreatsPage.  Unless a row was added between its reads, the rows of an  *)
(* answer are among the scores it counts, and all of them as long as the   *)
(* limit does not cut; the page has an answer, or the demo list, and a     *)
(* page number that is within the list unless the list was replaced.       *)
Cut(set, all) == set \subseteq all /\ (set = all \/ Cardinality(set) >= RowLimit)

RequestFits ==
    /\ request \in [read : SUBSET {"rows", "scores"}, rows : SUBSET Entity,
                    scores : SUBSET Entity, torn : BOOLEAN, busy : BOOLEAN]
    /\ request.rows \subseteq scored /\ request.scores \subseteq scored
    /\ ~request.torn =>
          /\ request.read = {"rows"} => Cut(request.rows, scored)
          /\ request.read = {"scores"} => request.scores = scored
          /\ request.read = {"rows", "scores"} => Cut(request.rows, request.scores)

AnswerFits ==
    ~torn => \E all \in SUBSET Entity : Cut(entities, all) /\ tally = Threats!Counts(all)

NumberFits ==
    /\ pageNo \in Nat \ {0}
    /\ ~replaced => pageNo = 1 \/ (pageNo - 1) * PageSize[layout] < Cardinality(Threats!Filtered)

ThreatsInv ==
    /\ scored \subseteq Entity /\ entities \subseteq Entity
    /\ torn \in BOOLEAN /\ replaced \in BOOLEAN /\ layout \in Threats!View /\ sort \in Sort
    /\ RequestFits /\ AnswerFits /\ NumberFits

ThreatsAssumption ==
    /\ RowLimit \in Nat /\ IsFiniteSet(Entity)
    /\ MockEntity \subseteq Entity /\ MockEntity # {}
    /\ CategoryOf \in [Entity -> Threats!Category]
    /\ PageSize \in [Threats!View -> Nat \ {0}]
    /\ \A s \in Sort : /\ \A e \in Entity : EntityRank[s][e] \in Int
                       /\ \A e, d \in Entity : EntityRank[s][e] = EntityRank[s][d] => e = d

LEMMA ThreatsCardinality == \A S : Threats!Cardinality(S) = Cardinality(S)
  BY DEF Threats!Cardinality, Cardinality

(* Two sets that do not meet. *)
LEMMA DisjointUnion ==
  ASSUME NEW S, NEW T, IsFiniteSet(S), IsFiniteSet(T), S \cap T = {}
  PROVE  IsFiniteSet(S \cup T) /\ Cardinality(S \cup T) = Cardinality(S) + Cardinality(T)
<1>1. Cardinality(S \cap T) = 0 /\ Cardinality(S) \in Nat /\ Cardinality(T) \in Nat
  BY FS_EmptySet, FS_CardinalityType
<1>2. /\ IsFiniteSet(S \cup T)
      /\ Cardinality(S \cup T) = Cardinality(S) + Cardinality(T) - Cardinality(S \cap T)
  BY FS_Union
<1>3. Cardinality(S \cup T) = Cardinality(S) + Cardinality(T) - 0
  BY <1>1, <1>2
<1> QED BY <1>1, <1>2, <1>3

(* What is listed is finite, and there for every filter. *)
LEMMA ListedShape ==
  ASSUME ThreatsAssumption, entities \subseteq Entity
  PROVE  /\ Threats!Filtered \subseteq Entity /\ IsFiniteSet(Threats!Filtered)
         /\ Cardinality(Threats!Filtered) \in Nat
         /\ Cardinality(Threats!Filtered) = 0 <=> Threats!Filtered = {}
<1>1. Threats!Filtered \subseteq Entity
  BY DEF Threats!Filtered, Threats!Of
<1>2. IsFiniteSet(Threats!Filtered)
  BY <1>1, FS_Subset DEF ThreatsAssumption
<1> QED BY <1>1, <1>2, FS_CardinalityType, FS_EmptySet

LEMMA SentFits ==
  /\ request = Threats!Sent \/ request = Threats!Idle => RequestFits
  /\ request' = Threats!Sent \/ request' = Threats!Idle => RequestFits'
<1> DEFINE Type == [read : SUBSET {"rows", "scores"}, rows : SUBSET Entity,
                    scores : SUBSET Entity, torn : BOOLEAN, busy : BOOLEAN]
<1>1. TRUE \in BOOLEAN /\ FALSE \in BOOLEAN
  OBVIOUS
<1>2. /\ Threats!Idle \in Type /\ Threats!Idle.read = {} /\ Threats!Idle.rows = {}
      /\ Threats!Idle.scores = {}
  BY <1>1 DEF Threats!Idle
<1>3. Threats!Sent = [Threats!Idle EXCEPT !.busy = TRUE]
  BY DEF Threats!Sent
<1>4. /\ Threats!Sent \in Type /\ Threats!Sent.read = {} /\ Threats!Sent.rows = {}
      /\ Threats!Sent.scores = {}
  BY <1>1, <1>2, <1>3
<1>5. {} # {"rows"} /\ {} # {"scores"} /\ {} # {"rows", "scores"}
  OBVIOUS
<1>6. ASSUME request = Threats!Sent \/ request = Threats!Idle PROVE RequestFits
  <2>1. request \in Type /\ request.read = {} /\ request.rows = {} /\ request.scores = {}
    BY <1>2, <1>4, <1>6
  <2> QED BY <1>5, <2>1 DEF RequestFits
<1>7. ASSUME request' = Threats!Sent \/ request' = Threats!Idle PROVE RequestFits'
  <2>1. /\ request' \in Type /\ request'.read = {} /\ request'.rows = {}
        /\ request'.scores = {}
    BY <1>2, <1>4, <1>7
  <2> QED BY <1>5, <2>1 DEF RequestFits
<1> QED BY <1>6, <1>7

LEMMA ThreatsInit == ASSUME ThreatsAssumption PROVE Threats!Init => ThreatsInv
<1> SUFFICES ASSUME Threats!Init PROVE ThreatsInv
  OBVIOUS
<1>1. /\ scored \subseteq Entity /\ entities = MockEntity /\ tally = Threats!Counts(MockEntity)
      /\ request = Threats!Sent /\ torn = FALSE /\ replaced = FALSE /\ layout = "grid"
      /\ sort \in Sort /\ pageNo = 1
  BY DEF Threats!Init
<1>2. RequestFits
  BY <1>1, SentFits
<1>3. AnswerFits
  BY <1>1 DEF AnswerFits, Cut, ThreatsAssumption
<1>4. NumberFits
  BY <1>1 DEF NumberFits
<1>5. torn \in BOOLEAN /\ replaced \in BOOLEAN /\ layout \in Threats!View
  BY <1>1 DEF Threats!View
<1> QED BY <1>1, <1>2, <1>3, <1>4, <1>5 DEF ThreatsInv, ThreatsAssumption

(* What is read. *)
LEMMA ReadsKeep ==
  ASSUME ThreatsAssumption, ThreatsInv,
         \/ Threats!Sync \/ Threats!ReadRows \/ Threats!ReadScores
         \/ \E e \in Entity : Threats!Score(e)
  PROVE  ThreatsInv'
<1>0. /\ entities' = entities /\ tally' = tally /\ category' = category /\ sought' = sought
      /\ sort' = sort /\ layout' = layout /\ pageNo' = pageNo /\ replaced' = replaced
      /\ torn' = torn
  BY DEF Threats!Sync, Threats!ReadRows, Threats!ReadScores, Threats!Score
<1>1. AnswerFits' /\ NumberFits'
  BY <1>0 DEF ThreatsInv, AnswerFits, NumberFits, Threats!Counts, Threats!Of, Threats!Filtered
<1>2. /\ request \in [read : SUBSET {"rows", "scores"}, rows : SUBSET Entity,
                      scores : SUBSET Entity, torn : BOOLEAN, busy : BOOLEAN]
      /\ request.rows \subseteq scored /\ request.scores \subseteq scored
      /\ ~request.torn =>
          /\ request.read = {"rows"} => Cut(request.rows, scored)
          /\ request.read = {"scores"} => request.scores = scored
          /\ request.read = {"rows", "scores"} => Cut(request.rows, request.scores)
  BY DEF ThreatsInv, RequestFits
<1>3. scored \subseteq Entity
  BY DEF ThreatsInv
<1>4. CASE Threats!Sync
  <2>1. request' = Threats!Sent /\ scored' = scored
    BY <1>4 DEF Threats!Sync
  <2> QED BY <1>0, <1>1, <1>3, <2>1, SentFits DEF ThreatsInv
<1>5. CASE Threats!ReadRows
  <2>1. PICK rows \in SUBSET scored :
           /\ \/ rows = scored /\ Threats!Cardinality(scored) <= RowLimit
              \/ Threats!Cardinality(rows) = RowLimit
           /\ request' = [request EXCEPT !.read = @ \cup {"rows"}, !.rows = rows]
    BY <1>5 DEF Threats!ReadRows
  <2>2. "rows" \notin request.read /\ scored' = scored
    BY <1>5 DEF Threats!ReadRows
  <2>3. Cut(rows, scored)
    <3>1. IsFiniteSet(rows) /\ Cardinality(rows) \in Nat
      BY <1>3, FS_Subset, FS_CardinalityType DEF ThreatsAssumption
    <3> QED BY <2>1, <3>1, ThreatsCardinality DEF Cut
  <2>4. /\ request'.read = request.read \cup {"rows"} /\ request'.rows = rows
        /\ request'.scores = request.scores /\ request'.torn = request.torn
        /\ request' \in [read : SUBSET {"rows", "scores"}, rows : SUBSET Entity,
                         scores : SUBSET Entity, torn : BOOLEAN, busy : BOOLEAN]
    BY <1>2, <1>3, <2>1
  <2>5. request'.read = {"rows", "scores"} => request.read = {"scores"}
    BY <1>2, <2>2, <2>4
  <2>6. RequestFits'
    BY <1>2, <2>1, <2>2, <2>3, <2>4, <2>5 DEF RequestFits, Cut
  <2> QED BY <1>0, <1>1, <1>3, <2>2, <2>6 DEF ThreatsInv
<1>6. CASE Threats!ReadScores
  <2>1. /\ request' = [request EXCEPT !.read = @ \cup {"scores"}, !.scores = scored]
        /\ "scores" \notin request.read /\ scored' = scored
    BY <1>6 DEF Threats!ReadScores
  <2>2. /\ request'.read = request.read \cup {"scores"} /\ request'.rows = request.rows
        /\ request'.scores = scored /\ request'.torn = request.torn
        /\ request' \in [read : SUBSET {"rows", "scores"}, rows : SUBSET Entity,
                         scores : SUBSET Entity, torn : BOOLEAN, busy : BOOLEAN]
    BY <1>2, <1>3, <2>1
  <2>3. request'.read = {"rows", "scores"} => request.read = {"rows"}
    BY <1>2, <2>1, <2>2
  <2>4. RequestFits'
    BY <1>2, <2>1, <2>2, <2>3 DEF RequestFits, Cut
  <2> QED BY <1>0, <1>1, <1>3, <2>1, <2>4 DEF ThreatsInv
<1>7. ASSUME NEW e \in Entity, Threats!Score(e) PROVE ThreatsInv'
  <2>1. /\ scored' = scored \cup {e}
        /\ request' = [request EXCEPT !.torn = @ \/ Threats!Cardinality(request.read) = 1]
    BY <1>7 DEF Threats!Score
  <2>2. /\ request'.read = request.read /\ request'.rows = request.rows
        /\ request'.scores = request.scores
        /\ request'.torn = (request.torn \/ Threats!Cardinality(request.read) = 1)
    BY <1>2, <2>1
  <2>3. (request.torn \/ Threats!Cardinality(request.read) = 1) \in BOOLEAN
    OBVIOUS
  <2>4. request' \in [read : SUBSET {"rows", "scores"}, rows : SUBSET Entity,
                     scores : SUBSET Entity, torn : BOOLEAN, busy : BOOLEAN]
    BY <1>2, <2>1, <2>3
  <2>5. ~request'.torn => request.read # {"rows"} /\ request.read # {"scores"}
    BY <2>2, ThreatsCardinality, FS_Singleton
  <2>6. RequestFits'
    BY <1>2, <2>1, <2>2, <2>4, <2>5 DEF RequestFits
  <2>7. scored' \subseteq Entity
    BY <1>3, <2>1
  <2> QED BY <1>0, <1>1, <2>6, <2>7 DEF ThreatsInv
<1> QED BY <1>4, <1>5, <1>6, <1>7

(* What is shown: the answer, or the demo list.  A page beyond the first is *)
(* one that the new list replaced the old one under.                       *)
LEMMA ShowKeeps ==
  ASSUME ThreatsAssumption, ThreatsInv, Threats!FetchThreats \/ Threats!FetchFails
  PROVE  ThreatsInv'
<1>1. /\ request' = Threats!Idle /\ scored' = scored /\ sort' = sort /\ layout' = layout
      /\ pageNo' = pageNo /\ replaced' = (replaced \/ pageNo > 1)
  BY DEF Threats!FetchThreats, Threats!FetchFails, Threats!Show
<1>2. /\ entities' \subseteq Entity /\ torn' \in BOOLEAN
      /\ ~torn' => \E all \in SUBSET Entity : Cut(entities', all) /\ tally' = Threats!Counts(all)
  <2>1. CASE Threats!Show(MockEntity, Threats!Counts(MockEntity), TRUE)
    <3>1. /\ entities' = MockEntity /\ tally' = Threats!Counts(MockEntity)
          /\ torn' = (request.torn /\ ~TRUE)
      BY <2>1 DEF Threats!Show
    <3>2. (request.torn /\ ~TRUE) \in BOOLEAN
      OBVIOUS
    <3> QED BY <3>1, <3>2 DEF Cut, ThreatsAssumption
  <2>2. CASE /\ request.read = {"rows", "scores"}
             /\ Threats!Show(request.rows, Threats!Counts(request.scores), FALSE)
    <3>1. /\ entities' = request.rows /\ tally' = Threats!Counts(request.scores)
          /\ torn' = (request.torn /\ ~FALSE)
      BY <2>2 DEF Threats!Show
    <3>2. /\ request.rows \in SUBSET Entity /\ request.scores \in SUBSET Entity
          /\ request.torn \in BOOLEAN
      BY DEF ThreatsInv, RequestFits
    <3>3. ~request.torn => Cut(request.rows, request.scores)
      BY <2>2 DEF ThreatsInv, RequestFits
    <3> QED BY <3>1, <3>2, <3>3
  <2> QED BY <2>1, <2>2 DEF Threats!FetchThreats, Threats!FetchFails
<1>3. AnswerFits'
  BY <1>2 DEF AnswerFits, Threats!Counts, Threats!Of
<1>4. NumberFits'
  <2>1. pageNo \in Nat \ {0}
    BY DEF ThreatsInv, NumberFits
  <2>2. ~replaced' => ~(pageNo > 1)
    BY <1>1
  <2>3. ~replaced' => pageNo = 1
    BY <2>1, <2>2
  <2> QED BY <1>1, <2>1, <2>3 DEF NumberFits
<1>5. RequestFits'
  BY <1>1, SentFits
<1>6. (replaced \/ pageNo > 1) \in BOOLEAN
  OBVIOUS
<1> QED BY <1>1, <1>2, <1>3, <1>4, <1>5, <1>6 DEF ThreatsInv

(* What the page is set to show. *)
LEMMA SetKeeps ==
  ASSUME ThreatsAssumption, ThreatsInv, NEW f, NEW q, NEW o \in Sort, NEW v \in Threats!View,
         Threats!Set(f, q, o, v)
  PROVE  ThreatsInv'
<1>1. /\ sort' = o /\ layout' = v /\ pageNo' = 1 /\ replaced' = FALSE /\ scored' = scored
      /\ request' = request /\ entities' = entities /\ tally' = tally /\ torn' = torn
  BY DEF Threats!Set
<1>2. RequestFits' /\ AnswerFits'
  BY <1>1 DEF ThreatsInv, RequestFits, AnswerFits, Threats!Counts, Threats!Of
<1>3. NumberFits'
  BY <1>1 DEF NumberFits
<1>4. FALSE \in BOOLEAN
  OBVIOUS
<1> QED BY <1>1, <1>2, <1>3, <1>4 DEF ThreatsInv

(* A page turned to is within the list. *)
LEMMA TurnKeepsThreats ==
  ASSUME ThreatsAssumption, ThreatsInv, Threats!Previous \/ Threats!NextPage
  PROVE  ThreatsInv'
<1> DEFINE n == Cardinality(Threats!Filtered)
           q == PageSize[layout]
           d == (n + q - 1) \div q
<1>1. /\ n \in Nat /\ n # 0 /\ q \in Nat \ {0} /\ pageNo \in Nat \ {0}
  <2>1. Threats!Filtered # {}
    BY DEF Threats!Previous, Threats!NextPage, Threats!Turn
  <2> QED BY <2>1, ListedShape DEF ThreatsInv, NumberFits, ThreatsAssumption
<1>2. Threats!TotalPages = d
  BY <1>1, ThreatsCardinality DEF Threats!TotalPages, Threats!Pages
<1>3. d \in Int
  BY <1>1
<1>4. d >= 1
  <2>1. n + q - 1 >= q /\ n + q - 1 \in Nat
    BY <1>1
  <2> HIDE DEF n, q
  <2> QED BY <1>1, <2>1
<1>5. PICK to : /\ pageNo' = to /\ replaced' = (replaced /\ to > Threats!TotalPages)
                /\ \/ pageNo > 1 /\ to = pageNo - 1
                   \/ to = IF pageNo + 1 < Threats!TotalPages THEN pageNo + 1
                           ELSE Threats!TotalPages
  BY DEF Threats!Previous, Threats!NextPage, Threats!Turn
<1>6. /\ scored' = scored /\ request' = request /\ entities' = entities /\ tally' = tally
      /\ category' = category /\ sought' = sought /\ sort' = sort /\ layout' = layout
      /\ torn' = torn
  BY DEF Threats!Previous, Threats!NextPage, Threats!Turn
<1> HIDE DEF d
<1>7. to \in Nat \ {0}
  BY <1>1, <1>2, <1>3, <1>4, <1>5
<1>8. to <= d => to = 1 \/ (to - 1) * q < n
  <2> SUFFICES ASSUME to <= d, to > 1 PROVE (to - 1) * q < n
    BY <1>7
  <2> HIDE DEF n, q
  <2> QED BY <1>1, <1>7, PageStarts DEF d
<1>9. ~(replaced /\ to > d) => to = 1 \/ (to - 1) * q < n
  <2> SUFFICES ASSUME ~replaced, to > d, to # 1 PROVE (to - 1) * q < n
    BY <1>3, <1>7, <1>8
  <2>1. pageNo > 1 /\ to = pageNo - 1
    BY <1>1, <1>2, <1>3, <1>5
  <2>2. (pageNo - 1) * q < n
    BY <2>1, <1>1 DEF ThreatsInv, NumberFits
  <2>3. (pageNo - 1) * q = (to - 1) * q + q
    <3> HIDE DEF n, q
    <3> QED BY <1>1, <2>1
  <2>4. (to - 1) * q \in Int
    BY <1>1, <1>7
  <2> HIDE DEF n, q
  <2> QED BY <1>1, <2>2, <2>3, <2>4
<1>10. Threats!Filtered' = Threats!Filtered
  BY <1>6 DEF Threats!Filtered, Threats!Of
<1>11. NumberFits'
  BY <1>2, <1>5, <1>6, <1>7, <1>9, <1>10 DEF NumberFits
<1>12. RequestFits' /\ AnswerFits'
  BY <1>6 DEF ThreatsInv, RequestFits, AnswerFits, Threats!Counts, Threats!Of
<1>13. (replaced /\ to > Threats!TotalPages) \in BOOLEAN
  OBVIOUS
<1> QED BY <1>5, <1>6, <1>11, <1>12, <1>13 DEF ThreatsInv

LEMMA ThreatsNext ==
  ASSUME ThreatsAssumption, ThreatsInv, [Threats!Next]_(Threats!vars)
  PROVE  ThreatsInv'
<1>1. sort \in Sort /\ layout \in Threats!View
  BY DEF ThreatsInv
<1>2. CASE \/ \E c \in Threats!Category \cup {Threats!All} : Threats!SetCategoryFilter(c)
           \/ \E s \in BOOLEAN : Threats!SetSearchQuery(s)
           \/ \E o \in Sort : Threats!SetSortBy(o)
           \/ \E v \in Threats!View : Threats!SetViewMode(v)
  BY <1>1, <1>2, SetKeeps DEF Threats!SetCategoryFilter, Threats!SetSearchQuery,
     Threats!SetSortBy, Threats!SetViewMode
<1>3. CASE UNCHANGED Threats!vars
  BY <1>3 DEF Threats!vars, ThreatsInv, RequestFits, AnswerFits, NumberFits, Threats!Counts,
     Threats!Of, Threats!Filtered
<1> QED BY <1>2, <1>3, ReadsKeep, ShowKeeps, TurnKeepsThreats DEF Threats!Next

(* The types.  What is counted is of Entity, and so is the number of pages; *)
(* an answer that is shown as one has a row that is not of the demo list.  *)
LEMMA PartIsSmall ==
  ASSUME ThreatsAssumption, NEW set \in SUBSET Entity
  PROVE  /\ Cardinality(set) \in 0..Cardinality(Entity)
         /\ Cardinality(Entity) \in Nat \ {0}
<1>1. IsFiniteSet(Entity) /\ MockEntity \subseteq Entity /\ MockEntity # {}
  BY DEF ThreatsAssumption
<1>2. Cardinality(Entity) \in Nat /\ Cardinality(Entity) # 0
  BY <1>1, FS_CardinalityType, FS_EmptySet
<1>3. IsFiniteSet(set) /\ Cardinality(set) <= Cardinality(Entity)
  BY <1>1, FS_Subset
<1>4. Cardinality(set) \in Nat
  BY <1>3, FS_CardinalityType
<1> QED BY <1>2, <1>3, <1>4

LEMMA CountsType ==
  ASSUME ThreatsAssumption, NEW set \in SUBSET Entity
  PROVE  Threats!Counts(set)
            \in [Threats!Category \cup {Threats!All} -> 0..Threats!Cardinality(Entity)]
<1>1. ASSUME NEW c
      PROVE  Threats!Cardinality(Threats!Of(c, set)) \in 0..Threats!Cardinality(Entity)
  <2>1. Threats!Of(c, set) \in SUBSET Entity
    BY DEF Threats!Of
  <2> QED BY <2>1, PartIsSmall, ThreatsCardinality
<1> QED BY <1>1 DEF Threats!Counts

LEMMA ThreatsTypedInit == ASSUME ThreatsAssumption PROVE Threats!Init => Threats!ThreatsTypeOK
<1> SUFFICES ASSUME Threats!Init PROVE Threats!ThreatsTypeOK
  OBVIOUS
<1>1. /\ scored \in SUBSET (Entity \ MockEntity) /\ request = Threats!Sent
      /\ entities = MockEntity /\ tally = Threats!Counts(MockEntity) /\ mocked = TRUE
      /\ category = Threats!All /\ sought = FALSE /\ sort \in Sort /\ layout = "grid"
      /\ pageNo = 1 /\ replaced = FALSE /\ torn = FALSE
  BY DEF Threats!Init
<1>2. MockEntity \in SUBSET Entity
  BY DEF ThreatsAssumption
<1>3. tally \in [Threats!Category \cup {Threats!All} -> 0..Threats!Cardinality(Entity)]
  BY <1>1, <1>2, CountsType
<1>4. request \in [read : SUBSET {"rows", "scores"}, rows : SUBSET Entity,
                   scores : SUBSET Entity, torn : BOOLEAN, busy : BOOLEAN]
  BY <1>1, SentFits DEF RequestFits
<1>5. pageNo \in 1..Threats!Cardinality(Entity)
  BY <1>1, <1>2, PartIsSmall, ThreatsCardinality
<1>6. mocked \in BOOLEAN /\ mocked = (entities \subseteq MockEntity)
  BY <1>1
<1>7. sought \in BOOLEAN /\ replaced \in BOOLEAN /\ torn \in BOOLEAN /\ layout \in Threats!View
  BY <1>1 DEF Threats!View
<1>8. category \in Threats!Category \cup {Threats!All}
  BY <1>1
<1> QED BY <1>1, <1>2, <1>3, <1>4, <1>5, <1>6, <1>7, <1>8 DEF Threats!ThreatsTypeOK

LEMMA PagesAreFew ==
  ASSUME NEW n \in Nat \ {0}, NEW q \in Nat \ {0}
  PROVE  (n + q - 1) \div q \in 1..n
<1> DEFINE d == (n + q - 1) \div q
<1>1. d \in Int /\ d * q <= n + q - 1 /\ n + q - 1 < (d + 1) * q
  OBVIOUS
<1> HIDE DEF d
<1>2. d >= 1
  <2> SUFFICES ASSUME d <= 0 PROVE FALSE
    BY <1>1
  <2>1. (d + 1) * q <= 1 * q
    BY <1>1
  <2> QED BY <1>1, <2>1
<1>3. d <= n
  <2> SUFFICES ASSUME d >= n + 1 PROVE FALSE
    BY <1>1
  <2>1. (n + 1) * q <= d * q
    BY <1>1
  <2>2. (n + 1) * q = n * q + q
    OBVIOUS
  <2>3. n <= n * q
    OBVIOUS
  <2>4. n * q \in Int /\ d * q \in Int
    BY <1>1
  <2> QED BY <1>1, <2>1, <2>2, <2>3, <2>4
<1> QED BY <1>1, <1>2, <1>3 DEF d

LEMMA ThreatsTypedNext ==
  ASSUME ThreatsAssumption, ThreatsInv, ThreatsInv', Threats!ThreatsTypeOK,
         [Threats!Next]_(Threats!vars)
  PROVE  Threats!ThreatsTypeOK'
<1> DEFINE Names == Threats!Category \cup {Threats!All}
           most == Threats!Cardinality(Entity)
<1>1. /\ scored \subseteq Entity \ MockEntity /\ category \in Names
      /\ tally \in [Names -> 0..most] /\ pageNo \in 1..most
  BY DEF Threats!ThreatsTypeOK
<1>2. mocked \in BOOLEAN /\ mocked = (entities \subseteq MockEntity)
  BY Zenon DEF Threats!ThreatsTypeOK
<1>3. sought \in BOOLEAN
  BY Zenon DEF Threats!ThreatsTypeOK
<1>4. most \in Nat \ {0}
  <2>1. {} \in SUBSET Entity
    OBVIOUS
  <2> QED BY <2>1, PartIsSmall, ThreatsCardinality
<1>5. /\ request' \in [read : SUBSET {"rows", "scores"}, rows : SUBSET Entity,
                       scores : SUBSET Entity, torn : BOOLEAN, busy : BOOLEAN]
      /\ entities' \subseteq Entity /\ sort' \in Sort /\ layout' \in Threats!View
  BY DEF ThreatsInv, RequestFits, Threats!View
<1>6. replaced' \in BOOLEAN /\ torn' \in BOOLEAN
  BY Zenon DEF ThreatsInv
<1>7. ASSUME /\ scored' \subseteq Entity \ MockEntity /\ tally' \in [Names -> 0..most],
             mocked' \in BOOLEAN /\ mocked' = (entities' \subseteq MockEntity),
             category' \in Names, sought' \in BOOLEAN, pageNo' \in 1..most
      PROVE  Threats!ThreatsTypeOK'
  BY Zenon, <1>5, <1>6, <1>7 DEF Threats!ThreatsTypeOK, Threats!View, Threats!Category, Threats!All
<1>8. CASE \/ Threats!Sync \/ Threats!ReadRows \/ Threats!ReadScores
  <2>1. /\ scored' = scored /\ entities' = entities /\ tally' = tally /\ mocked' = mocked
        /\ category' = category /\ sought' = sought /\ pageNo' = pageNo
    BY <1>8 DEF Threats!Sync, Threats!ReadRows, Threats!ReadScores
  <2> HIDE DEF Names, most
  <2> QED BY Zenon, <1>1, <1>2, <1>3, <1>7, <2>1
<1>9. ASSUME NEW e \in Entity, Threats!Score(e) PROVE Threats!ThreatsTypeOK'
  <2>1. /\ scored' = scored \cup {e} /\ e \notin MockEntity
        /\ entities' = entities /\ tally' = tally /\ mocked' = mocked
        /\ category' = category /\ sought' = sought /\ pageNo' = pageNo
    BY <1>9 DEF Threats!Score
  <2>2. scored' \subseteq Entity \ MockEntity
    BY <1>1, <2>1
  <2> HIDE DEF Names, most
  <2> QED BY Zenon, <1>1, <1>2, <1>3, <1>7, <2>1, <2>2
<1>10. CASE Threats!FetchThreats \/ Threats!FetchFails
  <2>1. /\ scored' = scored /\ category' = category /\ sought' = sought /\ pageNo' = pageNo
    BY <1>10 DEF Threats!FetchThreats, Threats!FetchFails, Threats!Show
  <2>2. /\ tally' \in [Names -> 0..most]
        /\ mocked' \in BOOLEAN /\ mocked' = (entities' \subseteq MockEntity)
    <3>1. CASE Threats!Show(MockEntity, Threats!Counts(MockEntity), TRUE)
      <4>1. entities' = MockEntity /\ tally' = Threats!Counts(MockEntity) /\ mocked' = TRUE
        BY <3>1 DEF Threats!Show
      <4>2. MockEntity \in SUBSET Entity
        BY DEF ThreatsAssumption
      <4>3. tally' \in [Names -> 0..most]
        BY <4>1, <4>2, CountsType
      <4> QED BY <4>1, <4>3
    <3>2. CASE /\ request.rows # {}
               /\ Threats!Show(request.rows, Threats!Counts(request.scores), FALSE)
      <4>1. /\ entities' = request.rows /\ tally' = Threats!Counts(request.scores)
            /\ mocked' = FALSE
        BY <3>2 DEF Threats!Show
      <4>2. request.rows \subseteq scored /\ request.scores \in SUBSET Entity
        BY DEF ThreatsInv, RequestFits
      <4>3. ~(request.rows \subseteq MockEntity)
        BY <1>1, <3>2, <4>2
      <4>4. tally' \in [Names -> 0..most]
        BY <4>1, <4>2, CountsType
      <4> QED BY <4>1, <4>3, <4>4
    <3> QED BY <1>10, <3>1, <3>2 DEF Threats!FetchThreats, Threats!FetchFails
  <2> HIDE DEF Names, most
  <2> QED BY Zenon, <1>1, <1>3, <1>7, <2>1, <2>2
<1>11. ASSUME NEW f \in Names, NEW q \in BOOLEAN, NEW o, NEW v, Threats!Set(f, q, o, v)
       PROVE  Threats!ThreatsTypeOK'
  <2>1. /\ scored' = scored /\ entities' = entities /\ tally' = tally /\ mocked' = mocked
        /\ category' = f /\ sought' = q /\ pageNo' = 1
    BY <1>11 DEF Threats!Set
  <2> HIDE DEF Names, most
  <2>2. 1 \in 1..most
    BY <1>4
  <2> QED BY Zenon, <1>1, <1>2, <1>7, <2>1, <2>2
<1>12. CASE Threats!Previous \/ Threats!NextPage
  <2>1. /\ scored' = scored /\ entities' = entities /\ tally' = tally /\ mocked' = mocked
        /\ category' = category /\ sought' = sought
    BY <1>12 DEF Threats!Previous, Threats!NextPage, Threats!Turn
  <2> DEFINE n == Cardinality(Threats!Filtered)
             q == PageSize[layout]
  <2>2. Threats!Filtered # {}
    BY <1>12 DEF Threats!Previous, Threats!NextPage, Threats!Turn
  <2>3. /\ n \in Nat \ {0} /\ n <= most /\ q \in Nat \ {0}
    <3>1. n \in Nat \ {0} /\ Threats!Filtered \in SUBSET Entity
      BY <2>2, ListedShape DEF ThreatsInv
    <3>2. n <= most
      BY <3>1, PartIsSmall, ThreatsCardinality
    <3> QED BY <3>1, <3>2 DEF ThreatsInv, ThreatsAssumption
  <2>4. Threats!TotalPages = (n + q - 1) \div q
    BY <2>3, ThreatsCardinality DEF Threats!TotalPages, Threats!Pages
  <2> HIDE DEF n, q, most
  <2>5. (n + q - 1) \div q \in 1..n
    BY <2>3, PagesAreFew
  <2>6. \/ pageNo > 1 /\ pageNo' = pageNo - 1
        \/ pageNo' = IF pageNo + 1 < Threats!TotalPages THEN pageNo + 1
                     ELSE Threats!TotalPages
    BY <1>12 DEF Threats!Previous, Threats!NextPage, Threats!Turn
  <2>7. pageNo' \in 1..most
    BY <1>1, <1>4, <2>3, <2>4, <2>5, <2>6
  <2> HIDE DEF Names
  <2> QED BY Zenon, <1>1, <1>2, <1>3, <1>7, <2>1, <2>7
<1>13. CASE \/ \E c \in Threats!Category \cup {Threats!All} : Threats!SetCategoryFilter(c)
            \/ \E s \in BOOLEAN : Threats!SetSearchQuery(s)
            \/ \E o \in Sort : Threats!SetSortBy(o)
            \/ \E v \in Threats!View : Threats!SetViewMode(v)
  <2> HIDE DEF most
  <2> QED BY Zenon, <1>1, <1>3, <1>11, <1>13 DEF Threats!SetCategoryFilter, Threats!SetSearchQuery,
        Threats!SetSortBy, Threats!SetViewMode
<1>14. CASE UNCHANGED Threats!vars
  <2>1. /\ scored' = scored /\ entities' = entities /\ tally' = tally /\ mocked' = mocked
        /\ category' = category /\ sought' = sought /\ pageNo' = pageNo
    BY <1>14 DEF Threats!vars
  <2> HIDE DEF Names, most
  <2> QED BY Zenon, <1>1, <1>2, <1>3, <1>7, <2>1
<1> QED BY <1>8, <1>9, <1>10, <1>12, <1>13, <1>14 DEF Threats!Next

(* What the run checks follows.  The counts are those of the whole list,   *)
(* and the whole is its five parts.                                        *)
LEMMA CountsShown ==
  ASSUME ThreatsAssumption, ThreatsInv PROVE Threats!CountsMatchEntities
<1> SUFFICES ASSUME ~torn
             PROVE  /\ \A c \in Threats!Category \cup {Threats!All} :
                          LET held == Threats!Cardinality(Threats!Of(c, entities)) IN
                          /\ Threats!Capsule[c] >= held
                          /\ Threats!Cardinality(entities) < RowLimit => Threats!Capsule[c] = held
                          /\ c \in DOMAIN Threats!Tiles => Threats!Tiles[c] = Threats!Capsule[c]
                    /\ Threats!Tiles[Threats!All] =
                          Threats!Distribution["SAFE"] + Threats!Distribution["LOW_RISK"]
                            + Threats!Distribution["MEDIUM_RISK"]
                            + Threats!Distribution["HIGH_RISK"] + Threats!Distribution["CRITICAL"]
  BY DEF Threats!CountsMatchEntities
<1>1. PICK all \in SUBSET Entity : Cut(entities, all) /\ tally = Threats!Counts(all)
  BY DEF ThreatsInv, AnswerFits
<1> DEFINE Names == Threats!Category \cup {Threats!All}
           part(c) == Threats!Of(c, all)
           held(c) == Threats!Of(c, entities)
<1>2. \A c : part(c) \subseteq all /\ held(c) \subseteq part(c)
  BY <1>1 DEF Cut, Threats!Of
<1>3. IsFiniteSet(all)
  BY <1>1, FS_Subset DEF ThreatsAssumption
<1>4. ASSUME NEW c
      PROVE  /\ IsFiniteSet(part(c)) /\ Cardinality(part(c)) \in Nat
             /\ Cardinality(held(c)) \in Nat /\ Cardinality(held(c)) <= Cardinality(part(c))
  <2>1. IsFiniteSet(part(c))
    BY <1>2, <1>3, FS_Subset
  <2>2. IsFiniteSet(held(c)) /\ Cardinality(held(c)) <= Cardinality(part(c))
    BY <1>2, <2>1, FS_Subset
  <2> QED BY <2>1, <2>2, FS_CardinalityType
<1>5. \A c \in Names : tally[c] = Cardinality(part(c))
  BY <1>1, ThreatsCardinality DEF Threats!Counts
<1>6. \A c \in Names : Threats!CategoryCount(c) = Cardinality(part(c))
  <2> SUFFICES ASSUME NEW c \in Names PROVE Threats!CategoryCount(c) = Cardinality(part(c))
    OBVIOUS
  <2>1. tally[c] = Cardinality(part(c))
    BY <1>5
  <2>2. Threats!Cardinality(Threats!Of(c, entities)) = Cardinality(held(c))
    BY ThreatsCardinality
  <2> HIDE DEF part, held
  <2> QED BY <1>4, <2>1, <2>2 DEF Threats!CategoryCount
<1>7. \A c \in Names : Threats!Capsule[c] = Cardinality(part(c))
  BY <1>6 DEF Threats!Capsule
<1>8. \A c \in Threats!Category : Threats!Distribution[c] = Cardinality(part(c))
  BY <1>6 DEF Threats!Distribution
<1>9. DOMAIN Threats!Tiles \subseteq Names /\ \A c \in DOMAIN Threats!Tiles : Threats!Tiles[c] = tally[c]
  BY DEF Threats!Tiles, Threats!Category, Threats!All
<1>10. Threats!Cardinality(entities) < RowLimit => entities = all
  <2>1. IsFiniteSet(entities) /\ Cardinality(entities) \in Nat
    BY <1>1, <1>3, FS_Subset, FS_CardinalityType DEF Cut
  <2>2. RowLimit \in Nat
    BY DEF ThreatsAssumption
  <2> QED BY <1>1, <2>1, <2>2, ThreatsCardinality DEF Cut
<1>11. Cardinality(all) = Cardinality(part("SAFE")) + Cardinality(part("LOW_RISK"))
                            + Cardinality(part("MEDIUM_RISK")) + Cardinality(part("HIGH_RISK"))
                            + Cardinality(part("CRITICAL"))
  <2>1. \A e \in all : CategoryOf[e] \in Threats!Category
    BY <1>1 DEF ThreatsAssumption
  <2>2. all = part("SAFE") \cup part("LOW_RISK") \cup part("MEDIUM_RISK")
                \cup part("HIGH_RISK") \cup part("CRITICAL")
    BY <2>1 DEF Threats!Of, Threats!Category
  <2>3. /\ part("SAFE") \cap part("LOW_RISK") = {}
        /\ (part("SAFE") \cup part("LOW_RISK")) \cap part("MEDIUM_RISK") = {}
        /\ (part("SAFE") \cup part("LOW_RISK") \cup part("MEDIUM_RISK"))
              \cap part("HIGH_RISK") = {}
        /\ (part("SAFE") \cup part("LOW_RISK") \cup part("MEDIUM_RISK")
              \cup part("HIGH_RISK")) \cap part("CRITICAL") = {}
    BY DEF Threats!Of, Threats!All
  <2> DEFINE a == part("SAFE")
             b == part("LOW_RISK")
             c == part("MEDIUM_RISK")
             d == part("HIGH_RISK")
             e == part("CRITICAL")
  <2>4. /\ IsFiniteSet(a) /\ IsFiniteSet(b) /\ IsFiniteSet(c) /\ IsFiniteSet(d) /\ IsFiniteSet(e)
        /\ Cardinality(a) \in Nat /\ Cardinality(b) \in Nat /\ Cardinality(c) \in Nat
        /\ Cardinality(d) \in Nat /\ Cardinality(e) \in Nat
    BY <1>4
  <2> HIDE DEF a, b, c, d, e
  <2>5. IsFiniteSet(a \cup b) /\ Cardinality(a \cup b) = Cardinality(a) + Cardinality(b)
    BY <2>3, <2>4, DisjointUnion DEF a, b
  <2>6. /\ IsFiniteSet(a \cup b \cup c)
        /\ Cardinality(a \cup b \cup c) = Cardinality(a \cup b) + Cardinality(c)
    BY <2>3, <2>4, <2>5, DisjointUnion DEF a, b, c
  <2>7. /\ IsFiniteSet(a \cup b \cup c \cup d)
        /\ Cardinality(a \cup b \cup c \cup d) = Cardinality(a \cup b \cup c) + Cardinality(d)
    BY <2>3, <2>4, <2>6, DisjointUnion DEF a, b, c, d
  <2>8. Cardinality(a \cup b \cup c \cup d \cup e) = Cardinality(a \cup b \cup c \cup d) + Cardinality(e)
    BY <2>3, <2>4, <2>7, DisjointUnion DEF a, b, c, d, e
  <2>9. Cardinality(all) = Cardinality(a) + Cardinality(b) + Cardinality(c) + Cardinality(d)
                             + Cardinality(e)
    <3>1. all = a \cup b \cup c \cup d \cup e
      BY <2>2 DEF a, b, c, d, e
    <3> QED BY <2>4, <2>5, <2>6, <2>7, <2>8, <3>1
  <2> QED BY <2>9 DEF a, b, c, d, e
<1>12. part(Threats!All) = all
  BY DEF Threats!Of
<1>13. Threats!Tiles[Threats!All] = Cardinality(all)
  <2>1. Threats!All \in DOMAIN Threats!Tiles /\ Threats!All \in Names
    BY DEF Threats!Tiles
  <2> QED BY <1>5, <1>9, <1>12, <2>1
<1>14. {"SAFE", "LOW_RISK", "MEDIUM_RISK", "HIGH_RISK", "CRITICAL"} = Threats!Category
  BY DEF Threats!Category
<1>15. ASSUME NEW c \in Names
       PROVE  LET h == Threats!Cardinality(Threats!Of(c, entities)) IN
              /\ Threats!Capsule[c] >= h
              /\ Threats!Cardinality(entities) < RowLimit => Threats!Capsule[c] = h
              /\ c \in DOMAIN Threats!Tiles => Threats!Tiles[c] = Threats!Capsule[c]
  <2>1. Threats!Cardinality(Threats!Of(c, entities)) = Cardinality(held(c))
    BY ThreatsCardinality
  <2>2. Threats!Capsule[c] = Cardinality(part(c)) /\ tally[c] = Cardinality(part(c))
    BY <1>5, <1>7
  <2>3. Threats!Cardinality(entities) < RowLimit => held(c) = part(c)
    BY <1>10
  <2>4. c \in DOMAIN Threats!Tiles => Threats!Tiles[c] = tally[c]
    BY <1>9
  <2> HIDE DEF part, held
  <2> QED BY <1>4, <2>1, <2>2, <2>3, <2>4
<1> HIDE DEF part
<1>16. Threats!Tiles[Threats!All] =
          Threats!Distribution["SAFE"] + Threats!Distribution["LOW_RISK"]
            + Threats!Distribution["MEDIUM_RISK"]
            + Threats!Distribution["HIGH_RISK"] + Threats!Distribution["CRITICAL"]
  BY <1>8, <1>11, <1>13, <1>14
<1> QED BY <1>15, <1>16

(* The places on a page that is there, between its first and its last, are *)
(* taken by as many.                                                       *)
LEMMA PageShown ==
  ASSUME ThreatsAssumption, ThreatsInv PROVE Threats!PageShowsSomething
<1> DEFINE F == Threats!Filtered
           n == Cardinality(F)
           q == PageSize[layout]
           start == (pageNo - 1) * q
           last == IF pageNo * q < n THEN pageNo * q ELSE n
           f == [e \in Entity |-> EntityRank[sort][e]]
           listed == Threats!paginatedEntities
<1> SUFFICES ASSUME F # {}, ~replaced, ~request.busy
             PROVE  LET s == Threats!Cards \cup Threats!MatrixTable IN
                    /\ s # {}
                    /\ Threats!Cardinality(s) = Threats!Footer.to - Threats!Footer.from + 1
  BY DEF Threats!PageShowsSomething
<1>1. /\ F \subseteq Entity /\ IsFiniteSet(F) /\ n \in Nat \ {0} /\ q \in Nat \ {0}
      /\ pageNo \in Nat \ {0} /\ sort \in Sort /\ layout \in {"grid", "table"}
  BY ListedShape DEF ThreatsInv, NumberFits, ThreatsAssumption, Threats!View
<1>2. Threats!Cards \cup Threats!MatrixTable = listed
  BY <1>1 DEF Threats!Cards, Threats!MatrixTable
<1>3. start \in Nat /\ start < n /\ pageNo * q = start + q
  <2>1. pageNo = 1 \/ start < n
    BY DEF ThreatsInv, NumberFits
  <2> HIDE DEF n, q
  <2>2. start \in Nat /\ pageNo * q = start + q
    BY <1>1
  <2>3. pageNo = 1 => start = 0
    BY <1>1
  <2> HIDE DEF start
  <2> QED BY <1>1, <2>1, <2>2, <2>3
<1>4. Threats!Footer.from = start + 1 /\ Threats!Footer.to = last
  BY ThreatsCardinality DEF Threats!Footer
<1>5. /\ last \in Nat /\ start < last /\ last <= n /\ last <= start + q
      /\ last = n \/ last = start + q
  <2> HIDE DEF n, q, start
  <2> QED BY <1>1, <1>3
<1> HIDE DEF last
<1>6. /\ \A e \in F : f[e] \in Int
      /\ \A d, e \in F : f[d] = f[e] => d = e
  BY <1>1 DEF ThreatsAssumption
<1>7. \A e \in F : Before(F, f, e) = {d \in F : EntityRank[sort][d] < EntityRank[sort][e]}
  BY <1>1 DEF Before
<1>8. listed = {e \in F : Cardinality(Before(F, f, e)) \in start..(start + q - 1)}
  <2>1. \A e \in F : Threats!Cardinality({d \in F : EntityRank[sort][d] < EntityRank[sort][e]})
                      = Cardinality(Before(F, f, e))
    BY <1>7, ThreatsCardinality
  <2> QED BY <2>1 DEF Threats!paginatedEntities
<1> HIDE DEF f, F, listed
<1>9. /\ \A e \in F : Cardinality(Before(F, f, e)) \in 0..(n - 1)
      /\ \A d, e \in F : Cardinality(Before(F, f, d)) = Cardinality(Before(F, f, e)) => d = e
      /\ \A i \in 0..(n - 1) : \E e \in F : Cardinality(Before(F, f, e)) = i
  BY <1>1, <1>6, Places
<1> DEFINE Taken == start..(last - 1)
           g == [e \in listed |-> Cardinality(Before(F, f, e))]
<1>10. \A k \in 0..(n - 1) : k \in start..(start + q - 1) <=> k \in Taken
  <2> HIDE DEF n, q, start
  <2> QED BY <1>1, <1>3, <1>5
<1>11. Taken \subseteq 0..(n - 1)
  <2> HIDE DEF n, q, start
  <2> QED BY <1>1, <1>3, <1>5
<1>12. listed = {e \in F : Cardinality(Before(F, f, e)) \in Taken}
  <2> HIDE DEF n, Taken
  <2> QED BY <1>8, <1>9, <1>10
<1>13. g \in Bijection(listed, Taken)
  <2> HIDE DEF Taken, n
  <2>1. g \in [listed -> Taken]
    BY <1>12
  <2>2. \A d, e \in listed : g[d] = g[e] => d = e
    BY <1>9, <1>12
  <2>3. \A i \in Taken : \E e \in listed : g[e] = i
    BY <1>9, <1>11, <1>12
  <2> QED BY <2>1, <2>2, <2>3 DEF Bijection, Injection, Surjection, IsInjective
<1>14. IsFiniteSet(listed)
  BY <1>1, <1>12, FS_Subset
<1>15. Cardinality(Taken) = Cardinality(listed)
  BY <1>13, <1>14, FS_Bijection DEF ExistsBijection
<1>16. Cardinality(Taken) = last - start
  <2>1. start \in Int /\ last - 1 \in Int /\ ~(start > last - 1)
    <3> HIDE DEF n, q, start
    <3> QED BY <1>3, <1>5
  <2> HIDE DEF start
  <2>2. Cardinality(start..(last - 1)) = last - 1 - start + 1
    BY <2>1, FS_Interval
  <2> QED BY <1>3, <1>5, <2>2
<1>17. Cardinality(listed) = last - (start + 1) + 1 /\ Cardinality(listed) # 0
  <2> HIDE DEF n, q, start, Taken
  <2> QED BY <1>3, <1>5, <1>15, <1>16
<1>18. listed # {}
  BY <1>17, FS_EmptySet
<1> QED BY <1>2, <1>4, <1>17, <1>18, ThreatsCardinality

(* The counts of the threats page fit the entities it holds, and a page of *)
(* them that is there shows as many as its footer says (threats/page.tsx). *)
THEOREM ThreatsFit ==
  ASSUME ThreatsAssumption
  PROVE  Threats!Spec => [](Threats!CountsMatchEntities /\ Threats!PageShowsSomething)
  BY ThreatsInit, ThreatsNext, CountsShown, PageShown, PTL DEF Threats!Spec

-------------------------------------------------------------------------------
(* Forecaster.  Many is a cardinality, so that it grows with the list and  *)
(* needs no sum; the heuristics count, and what they count grows.          *)
ForecastAssumption ==
    /\ IsFiniteSet(DOMAIN Shape)
    /\ \A k \in DOMAIN Shape : IsFiniteSet(Shape[k].users)
    /\ MaxLogs \in [DOMAIN Shape -> Nat]

(* A list of logs and one that is longer. *)
Grows(c, d) ==
    /\ c \in [DOMAIN Shape -> Nat] /\ d \in [DOMAIN Shape -> Nat]
    /\ \A k \in DOMAIN Shape : c[k] <= d[k]

(* The logs that Many counts. *)
Entries(c, K) == UNION {{k} \X (1..c[k]) : k \in K}

LEMMA ForecastCardinality == \A c, S : Forecast(c)!Cardinality(S) = Cardinality(S)
  BY DEF Forecast!Cardinality, Cardinality

(* More kinds are seen in a longer list, of every class. *)
LEMMA SetsGrow ==
  ASSUME NEW c, NEW d, Grows(c, d)
  PROVE  /\ Forecast(c)!Seen \subseteq Forecast(d)!Seen
         /\ Forecast(d)!Seen \subseteq DOMAIN Shape
         /\ \A x : /\ Forecast(c)!Of(x) \subseteq Forecast(d)!Of(x)
                   /\ Forecast(d)!Of(x) \subseteq Forecast(d)!Seen
         /\ Forecast(c)!Risky \subseteq Forecast(d)!Risky
         /\ Forecast(d)!Risky \subseteq DOMAIN Shape
         /\ Forecast(c)!Severe \subseteq Forecast(d)!Severe
         /\ Forecast(d)!Severe \subseteq DOMAIN Shape
         /\ Forecast(c)!Critical \subseteq Forecast(d)!Critical
         /\ Forecast(d)!Critical \subseteq DOMAIN Shape
<1>1. /\ Forecast(c)!Seen \subseteq Forecast(d)!Seen
      /\ Forecast(d)!Seen \subseteq DOMAIN Shape
  BY DEF Grows, Forecast!Seen, Forecast!Kind
<1>2. ASSUME NEW x
      PROVE  /\ Forecast(c)!Of(x) \subseteq Forecast(d)!Of(x)
             /\ Forecast(d)!Of(x) \subseteq Forecast(d)!Seen
  BY <1>1 DEF Forecast!Of
<1>3. /\ Forecast(c)!Risky \subseteq Forecast(d)!Risky
      /\ Forecast(d)!Risky \subseteq DOMAIN Shape
  BY <1>1 DEF Forecast!Risky
<1>4. /\ Forecast(c)!Severe \subseteq Forecast(d)!Severe
      /\ Forecast(d)!Severe \subseteq DOMAIN Shape
  BY <1>1 DEF Forecast!Severe
<1>5. /\ Forecast(c)!Critical \subseteq Forecast(d)!Critical
      /\ Forecast(d)!Critical \subseteq DOMAIN Shape
  BY <1>1 DEF Forecast!Critical
<1> QED BY <1>1, <1>2, <1>3, <1>4, <1>5

LEMMA EntriesFinite ==
  ASSUME NEW K, IsFiniteSet(K), NEW c, \A k \in K : c[k] \in Nat
  PROVE  IsFiniteSet(Entries(c, K))
<1> DEFINE S == {{k} \X (1..c[k]) : k \in K}
           f == [k \in K |-> {k} \X (1..c[k])]
<1>1. f \in Surjection(K, S)
  BY DEF Surjection
<1>2. IsFiniteSet(S)
  BY <1>1, FS_Surjection
<1>3. ASSUME NEW k \in K PROVE IsFiniteSet({k} \X (1..c[k]))
  <2>1. IsFiniteSet({k})
    BY FS_Singleton
  <2>2. IsFiniteSet(1..c[k])
    BY FS_Interval
  <2> QED BY <2>1, <2>2, FS_Product
<1>4. \A T \in S : IsFiniteSet(T)
  BY <1>3
<1> QED BY <1>2, <1>4, FS_UNION DEF Entries

(* A longer list has no fewer logs of more kinds. *)
LEMMA ManyGrows ==
  ASSUME ForecastAssumption, NEW c, NEW d, Grows(c, d),
         NEW L \in SUBSET DOMAIN Shape, NEW K \in SUBSET L
  PROVE  /\ Forecast(c)!Many(K) \in Nat /\ Forecast(d)!Many(L) \in Nat
         /\ Forecast(c)!Many(K) <= Forecast(d)!Many(L)
<1>1. IsFiniteSet(K) /\ IsFiniteSet(L)
  BY FS_Subset DEF ForecastAssumption
<1>2. IsFiniteSet(Entries(c, K)) /\ IsFiniteSet(Entries(d, L))
  BY <1>1, EntriesFinite DEF Grows
<1>3. Entries(c, K) \subseteq Entries(d, L)
  <2> SUFFICES ASSUME NEW k \in K, NEW e \in {k} \X (1..c[k]) PROVE e \in {k} \X (1..d[k])
    BY DEF Entries
  <2>1. c[k] \in Nat /\ d[k] \in Nat /\ c[k] <= d[k]
    BY DEF Grows
  <2> QED BY <2>1
<1>4. Forecast(c)!Many(K) = Cardinality(Entries(c, K))
  BY ForecastCardinality DEF Forecast!Many, Entries
<1>5. Forecast(d)!Many(L) = Cardinality(Entries(d, L))
  BY ForecastCardinality DEF Forecast!Many, Entries
<1> QED BY <1>2, <1>3, <1>4, <1>5, FS_Subset, FS_CardinalityType

LEMMA ManyOfSome ==
  ASSUME ForecastAssumption, NEW c \in [DOMAIN Shape -> Nat], Forecast(c)!Seen # {}
  PROVE  Forecast(c)!Many(Forecast(c)!Seen) \in Nat \ {0}
<1> DEFINE K == Forecast(c)!Seen
<1>1. K \subseteq DOMAIN Shape /\ \A k \in K : c[k] \in Nat /\ c[k] > 0
  BY DEF Forecast!Seen, Forecast!Kind
<1>2. PICK k \in K : TRUE
  OBVIOUS
<1>3. <<k, 1>> \in Entries(c, K)
  BY <1>1 DEF Entries
<1>4. IsFiniteSet(K)
  BY <1>1, FS_Subset DEF ForecastAssumption
<1>5. IsFiniteSet(Entries(c, K))
  BY <1>1, <1>4, EntriesFinite
<1>6. Cardinality(Entries(c, K)) \in Nat \ {0}
  BY <1>3, <1>5, FS_CardinalityType, FS_EmptySet
<1>7. Forecast(c)!Many(K) = Cardinality(Entries(c, K))
  BY ForecastCardinality DEF Forecast!Many, Entries
<1> QED BY <1>6, <1>7

(* They come from no fewer addresses, go to no fewer destinations. *)
LEMMA WhereGrows ==
  ASSUME ForecastAssumption, NEW c, NEW d, NEW field,
         NEW L \in SUBSET DOMAIN Shape, NEW K \in SUBSET L
  PROVE  /\ Forecast(c)!Where(K, field) \subseteq Forecast(d)!Where(L, field)
         /\ IsFiniteSet(Forecast(d)!Where(L, field))
         /\ Cardinality(Forecast(c)!Where(K, field)) \in Nat
         /\ Cardinality(Forecast(d)!Where(L, field)) \in Nat
         /\ Cardinality(Forecast(c)!Where(K, field)) <= Cardinality(Forecast(d)!Where(L, field))
<1> DEFINE W == Forecast(d)!Where(L, field)
           f == [k \in L |-> Shape[k][field]]
<1>1. IsFiniteSet(L)
  BY FS_Subset DEF ForecastAssumption
<1>2. f \in Surjection(L, W)
  BY DEF Surjection, Forecast!Where
<1>3. IsFiniteSet(W)
  BY <1>1, <1>2, FS_Surjection
<1>4. Forecast(c)!Where(K, field) \subseteq W
  BY DEF Forecast!Where
<1> QED BY <1>3, <1>4, FS_Subset, FS_CardinalityType

-------------------------------------------------------------------------------
(* What is no less probable, from a count no lower, is no worse before. *)
LEMMA AttackFits ==
  ASSUME NEW c, NEW d, NEW name, NEW p \in Int, NEW q \in Int, p <= q,
         NEW n \in Nat, NEW m \in Nat, n <= m, NEW x \in Nat, NEW y \in Nat, NEW z \in Nat
  PROVE  LET a == Forecast(c)!Attack(name, p, Forecast(c)!Level(n, x, y, z))
             b == Forecast(d)!Attack(name, q, Forecast(d)!Level(m, x, y, z))
         IN  a.attack = name /\ b.attack = name /\ Forecast(c)!NoWorse(a, b)
<1> DEFINE s == Forecast(c)!Level(n, x, y, z)
           t == Forecast(d)!Level(m, x, y, z)
           a == Forecast(c)!Attack(name, p, s)
           b == Forecast(d)!Attack(name, q, t)
           Sev == Forecast(c)!Severity
<1>1. \E i, j \in 1..4 : i <= j /\ Sev[i] = s /\ Sev[j] = t
  <2>1. Sev[1] = "LOW" /\ Sev[2] = "MEDIUM" /\ Sev[3] = "HIGH" /\ Sev[4] = "CRITICAL"
    BY DEF Forecast!Severity
  <2>2. s = IF n >= x THEN Sev[4] ELSE IF n >= y THEN Sev[3] ELSE IF n >= z THEN Sev[2] ELSE Sev[1]
    BY <2>1 DEF Forecast!Level
  <2>3. t = IF m >= x THEN Sev[4] ELSE IF m >= y THEN Sev[3] ELSE IF m >= z THEN Sev[2] ELSE Sev[1]
    BY <2>1 DEF Forecast!Level
  <2> HIDE DEF s, t, Sev
  <2>4. CASE m >= x
    <3>1. \E i \in 1..4 : s = Sev[i]
      BY <2>2
    <3> QED BY <2>3, <2>4, <3>1
  <2>5. CASE ~(m >= x) /\ m >= y
    <3>1. s = Sev[1] \/ s = Sev[2] \/ s = Sev[3]
      BY <2>2, <2>5
    <3> QED BY <2>3, <2>5, <3>1
  <2>6. CASE ~(m >= x) /\ ~(m >= y) /\ m >= z
    <3>1. s = Sev[1] \/ s = Sev[2]
      BY <2>2, <2>6
    <3> QED BY <2>3, <2>6, <3>1
  <2>7. CASE ~(m >= x) /\ ~(m >= y) /\ ~(m >= z)
    <3>1. s = Sev[1]
      BY <2>2, <2>7
    <3> QED BY <2>3, <2>7, <3>1
  <2> QED BY <2>4, <2>5, <2>6, <2>7
<1>2. DOMAIN Sev = 1..4
  BY DEF Forecast!Severity
<1>3. /\ a.attack = name /\ a.severity = s /\ a.probability = IF 1000 < p THEN 1000 ELSE p
      /\ b.attack = name /\ b.severity = t /\ b.probability = IF 1000 < q THEN 1000 ELSE q
  BY DEF Forecast!Attack, Forecast!Least
<1>4. a.probability <= b.probability
  BY <1>3
<1> HIDE DEF s, t, a, b, Sev
<1>5. Forecast(c)!NoWorse(a, b)
  BY <1>1, <1>2, <1>3, <1>4 DEF Forecast!NoWorse, Sev
<1> QED BY <1>3, <1>5 DEF a, b, s, t

-------------------------------------------------------------------------------
LEMMA NeverIs == \A c : /\ Forecast(c)!Never \in Nat
                       /\ \A d : Forecast(d)!Never = Forecast(c)!Never
  BY SMT DEF Forecast!Never

(* Heuristic by heuristic: what is found in a list stands in a longer one. *)
LEMMA ReconStands ==
  ASSUME ForecastAssumption, NEW c, NEW d, Grows(c, d), NEW p \in Forecast(c)!ReconExploit
  PROVE  \E q \in Forecast(d)!ReconExploit : p.attack = q.attack /\ Forecast(c)!NoWorse(p, q)
<1> DEFINE n == Forecast(c)!Many(Forecast(c)!Of("RECON"))
           m == Forecast(d)!Many(Forecast(d)!Of("RECON"))
           name == "RECONNAISSANCE_EXPLOITATION"
           dualC == Forecast(c)!Where(Forecast(c)!Of("RECON"), "ip")
                       \cap Forecast(c)!Where(Forecast(c)!Of("FAILURE"), "ip") # {}
           dualD == Forecast(d)!Where(Forecast(d)!Of("RECON"), "ip")
                       \cap Forecast(d)!Where(Forecast(d)!Of("FAILURE"), "ip") # {}
           x == 300 + n * 20 + (IF dualC THEN 150 ELSE 0)
           y == 300 + m * 20 + (IF dualD THEN 150 ELSE 0)
           a == Forecast(c)!Attack(name, x, Forecast(c)!Level(n, Forecast(c)!Never, 10, 0))
           b == Forecast(d)!Attack(name, y, Forecast(d)!Level(m, Forecast(c)!Never, 10, 0))
<1>1. n \in Nat /\ m \in Nat /\ n <= m
  BY SetsGrow, ManyGrows
<1>2. dualC => dualD
  BY SetsGrow DEF Forecast!Where
<1>3. Forecast(c)!ReconExploit = IF n = 0 THEN {} ELSE {a}
  BY NeverIs DEF Forecast!ReconExploit
<1>4. Forecast(d)!ReconExploit = IF m = 0 THEN {} ELSE {b}
  BY NeverIs DEF Forecast!ReconExploit
<1> HIDE DEF n, m, dualC, dualD
<1>5. x \in Int /\ y \in Int /\ x <= y
  BY <1>1, <1>2
<1> HIDE DEF x, y
<1>6. a.attack = name /\ b.attack = name /\ Forecast(c)!NoWorse(a, b)
  BY <1>1, <1>5, AttackFits, NeverIs
<1> HIDE DEF a, b, name
<1>7. n # 0 /\ m # 0 /\ p = a
  BY <1>1, <1>3
<1> QED BY <1>4, <1>6, <1>7

LEMMA MalwareStands ==
  ASSUME ForecastAssumption, NEW c, NEW d, Grows(c, d), NEW p \in Forecast(c)!MalwarePropagation
  PROVE  \E q \in Forecast(d)!MalwarePropagation :
            p.attack = q.attack /\ Forecast(c)!NoWorse(p, q)
<1> DEFINE n == Cardinality(Forecast(c)!Where(Forecast(c)!Of("MALWARE"), "ip"))
           m == Cardinality(Forecast(d)!Where(Forecast(d)!Of("MALWARE"), "ip"))
           name == "MALWARE_LATERAL_MOVEMENT"
           a == Forecast(c)!Attack(name, 450 + 80 * n, Forecast(c)!Level(n, 3, 0, 0))
           b == Forecast(d)!Attack(name, 450 + 80 * m, Forecast(d)!Level(m, 3, 0, 0))
<1>1. n \in Nat /\ m \in Nat /\ n <= m
  BY SetsGrow, WhereGrows
<1>2. Forecast(c)!MalwarePropagation = IF n = 0 THEN {} ELSE {a}
  BY ForecastCardinality DEF Forecast!MalwarePropagation
<1>3. Forecast(d)!MalwarePropagation = IF m = 0 THEN {} ELSE {b}
  BY ForecastCardinality DEF Forecast!MalwarePropagation
<1> HIDE DEF n, m
<1>4. 450 + 80 * n \in Int /\ 450 + 80 * m \in Int /\ 450 + 80 * n <= 450 + 80 * m
  BY <1>1
<1>5. a.attack = name /\ b.attack = name /\ Forecast(c)!NoWorse(a, b)
  BY <1>1, <1>4, AttackFits
<1> HIDE DEF a, b, name
<1>6. n # 0 /\ m # 0 /\ p = a
  BY <1>1, <1>2
<1> QED BY <1>3, <1>5, <1>6

LEMMA BreachStands ==
  ASSUME ForecastAssumption, NEW c, NEW d, Grows(c, d), NEW p \in Forecast(c)!DataExfiltration
  PROVE  \E q \in Forecast(d)!DataExfiltration :
            p.attack = q.attack /\ Forecast(c)!NoWorse(p, q)
<1> DEFINE n == Forecast(c)!Many(Forecast(c)!Of("DATA"))
           m == Forecast(d)!Many(Forecast(d)!Of("DATA"))
           nOff == Forecast(c)!Many(Forecast(c)!OffHours(Forecast(c)!Of("DATA")))
           mOff == Forecast(d)!Many(Forecast(d)!OffHours(Forecast(d)!Of("DATA")))
           bothC == Forecast(c)!Where(Forecast(c)!OffHours(Forecast(c)!Seen), "ip")
                       \cap Forecast(c)!Where(Forecast(c)!Of("DATA"), "ip")
           bothD == Forecast(d)!Where(Forecast(d)!OffHours(Forecast(d)!Seen), "ip")
                       \cap Forecast(d)!Where(Forecast(d)!Of("DATA"), "ip")
           name == "DATA_BREACH"
           x == 150 + Forecast(c)!Least(20 * n, 250) + Forecast(c)!Least(100 * nOff, 300)
                    + 50 * Cardinality(bothC)
           y == 150 + Forecast(d)!Least(20 * m, 250) + Forecast(d)!Least(100 * mOff, 300)
                    + 50 * Cardinality(bothD)
           a == Forecast(c)!Attack(name, x, Forecast(c)!Level(nOff, Forecast(c)!Never, 5, 0))
           b == Forecast(d)!Attack(name, y, Forecast(d)!Level(mOff, Forecast(c)!Never, 5, 0))
<1>1. n \in Nat /\ m \in Nat /\ n <= m
  BY SetsGrow, ManyGrows
<1>2. nOff \in Nat /\ mOff \in Nat /\ nOff <= mOff
  <2>1. /\ Forecast(c)!OffHours(Forecast(c)!Of("DATA")) \subseteq
              Forecast(d)!OffHours(Forecast(d)!Of("DATA"))
        /\ Forecast(d)!OffHours(Forecast(d)!Of("DATA")) \subseteq DOMAIN Shape
    BY SetsGrow DEF Forecast!OffHours
  <2> QED BY <2>1, ManyGrows
<1>3. /\ Cardinality(bothC) \in Nat /\ Cardinality(bothD) \in Nat
      /\ Cardinality(bothC) <= Cardinality(bothD)
  <2>1. /\ Forecast(c)!OffHours(Forecast(c)!Seen) \subseteq Forecast(d)!OffHours(Forecast(d)!Seen)
        /\ Forecast(d)!OffHours(Forecast(d)!Seen) \subseteq DOMAIN Shape
    BY SetsGrow DEF Forecast!OffHours
  <2>2. /\ Forecast(c)!Where(Forecast(c)!OffHours(Forecast(c)!Seen), "ip") \subseteq
              Forecast(d)!Where(Forecast(d)!OffHours(Forecast(d)!Seen), "ip")
        /\ IsFiniteSet(Forecast(d)!Where(Forecast(d)!OffHours(Forecast(d)!Seen), "ip"))
    BY <2>1, WhereGrows
  <2>3. Forecast(c)!Where(Forecast(c)!Of("DATA"), "ip") \subseteq
              Forecast(d)!Where(Forecast(d)!Of("DATA"), "ip")
    BY SetsGrow, WhereGrows
  <2>4. IsFiniteSet(bothD)
    BY <2>2, FS_Intersection
  <2> QED BY <2>2, <2>3, <2>4, FS_Subset, FS_CardinalityType
<1>4. Forecast(c)!DataExfiltration = IF n < 3 /\ nOff < 2 THEN {} ELSE {a}
  BY NeverIs, ForecastCardinality DEF Forecast!DataExfiltration
<1>5. Forecast(d)!DataExfiltration = IF m < 3 /\ mOff < 2 THEN {} ELSE {b}
  BY NeverIs, ForecastCardinality DEF Forecast!DataExfiltration
<1> HIDE DEF n, m, nOff, mOff, bothC, bothD
<1>6. x \in Int /\ y \in Int /\ x <= y
  BY <1>1, <1>2, <1>3 DEF Forecast!Least
<1> HIDE DEF x, y
<1>7. a.attack = name /\ b.attack = name /\ Forecast(c)!NoWorse(a, b)
  BY <1>2, <1>6, AttackFits, NeverIs
<1> HIDE DEF a, b, name
<1>8. ~(n < 3 /\ nOff < 2) /\ ~(m < 3 /\ mOff < 2) /\ p = a
  BY <1>1, <1>2, <1>4
<1> QED BY <1>5, <1>7, <1>8

LEMMA UsersGrow ==
  ASSUME ForecastAssumption, NEW c, NEW d, Grows(c, d)
  PROVE  /\ Cardinality(Forecast(c)!Users) \in Nat /\ Cardinality(Forecast(d)!Users) \in Nat
         /\ Cardinality(Forecast(c)!Users) <= Cardinality(Forecast(d)!Users)
<1> DEFINE L == Forecast(d)!Seen
           S == {Shape[k].users : k \in L}
           f == [k \in L |-> Shape[k].users]
<1>1. L \subseteq DOMAIN Shape /\ IsFiniteSet(L) /\ Forecast(c)!Seen \subseteq L
  BY SetsGrow, FS_Subset DEF ForecastAssumption
<1>2. f \in Surjection(L, S)
  BY DEF Surjection
<1>3. IsFiniteSet(S) /\ \A T \in S : IsFiniteSet(T)
  BY <1>1, <1>2, FS_Surjection DEF ForecastAssumption
<1>4. IsFiniteSet(Forecast(d)!Users)
  BY <1>3, FS_UNION DEF Forecast!Users
<1>5. Forecast(c)!Users \subseteq Forecast(d)!Users
  BY <1>1 DEF Forecast!Users
<1> QED BY <1>4, <1>5, FS_Subset, FS_CardinalityType

LEMMA InsiderStands ==
  ASSUME ForecastAssumption, NEW c, NEW d, Grows(c, d), NEW p \in Forecast(c)!InsiderThreat
  PROVE  \E q \in Forecast(d)!InsiderThreat :
            p.attack = q.attack /\ Forecast(c)!NoWorse(p, q)
<1> DEFINE n == Forecast(c)!Many(Forecast(c)!Of("PRIV"))
           m == Forecast(d)!Many(Forecast(d)!Of("PRIV"))
           nOff == Forecast(c)!Many(Forecast(c)!OffHours(Forecast(c)!Of("PRIV")))
           mOff == Forecast(d)!Many(Forecast(d)!OffHours(Forecast(d)!Of("PRIV")))
           wideC == Cardinality(Forecast(c)!Where(Forecast(c)!Of("PRIV"), "dest"))
           wideD == Cardinality(Forecast(d)!Where(Forecast(d)!Of("PRIV"), "dest"))
           nUsers == Cardinality(Forecast(c)!Users)
           mUsers == Cardinality(Forecast(d)!Users)
           name == "INSIDER_THREAT"
           x == 100 + Forecast(c)!Least(50 * n, 250) + Forecast(c)!Least(200 * nOff, 200)
                    + (IF wideC >= 3 THEN 150 ELSE 0)
           y == 100 + Forecast(d)!Least(50 * m, 250) + Forecast(d)!Least(200 * mOff, 200)
                    + (IF wideD >= 3 THEN 150 ELSE 0)
           a == Forecast(c)!Attack(name, x, Forecast(c)!Level(nOff, Forecast(c)!Never, 3, 0))
           b == Forecast(d)!Attack(name, y, Forecast(d)!Level(mOff, Forecast(c)!Never, 3, 0))
<1>1. n \in Nat /\ m \in Nat /\ n <= m
  BY SetsGrow, ManyGrows
<1>2. nOff \in Nat /\ mOff \in Nat /\ nOff <= mOff
  <2>1. /\ Forecast(c)!OffHours(Forecast(c)!Of("PRIV")) \subseteq
              Forecast(d)!OffHours(Forecast(d)!Of("PRIV"))
        /\ Forecast(d)!OffHours(Forecast(d)!Of("PRIV")) \subseteq DOMAIN Shape
    BY SetsGrow DEF Forecast!OffHours
  <2> QED BY <2>1, ManyGrows
<1>3. wideC \in Nat /\ wideD \in Nat /\ wideC <= wideD
  BY SetsGrow, WhereGrows
<1>4. nUsers \in Nat /\ mUsers \in Nat /\ nUsers <= mUsers
  BY UsersGrow
<1>5. Forecast(c)!InsiderThreat = IF n = 0 /\ nUsers < 5 THEN {} ELSE {a}
  BY NeverIs, ForecastCardinality DEF Forecast!InsiderThreat
<1>6. Forecast(d)!InsiderThreat = IF m = 0 /\ mUsers < 5 THEN {} ELSE {b}
  BY NeverIs, ForecastCardinality DEF Forecast!InsiderThreat
<1> HIDE DEF n, m, nOff, mOff, wideC, wideD, nUsers, mUsers
<1>7. x \in Int /\ y \in Int /\ x <= y
  BY <1>1, <1>2, <1>3 DEF Forecast!Least
<1> HIDE DEF x, y
<1>8. a.attack = name /\ b.attack = name /\ Forecast(c)!NoWorse(a, b)
  BY <1>2, <1>7, AttackFits, NeverIs
<1> HIDE DEF a, b, name
<1>9. ~(n = 0 /\ nUsers < 5) /\ ~(m = 0 /\ mUsers < 5) /\ p = a
  BY <1>1, <1>4, <1>5
<1> QED BY <1>6, <1>8, <1>9

LEMMA TakeoverStands ==
  ASSUME ForecastAssumption, NEW c, NEW d, Grows(c, d), NEW p \in Forecast(c)!GeographicAnomaly
  PROVE  \E q \in Forecast(d)!GeographicAnomaly :
            p.attack = q.attack /\ p.attack = "ACCOUNT_TAKEOVER"
<1> DEFINE n == Cardinality(Forecast(c)!Where(Forecast(c)!Risky, "country"))
           m == Cardinality(Forecast(d)!Where(Forecast(d)!Risky, "country"))
<1>1. n \in Nat /\ m \in Nat /\ n <= m
  BY SetsGrow, WhereGrows
<1>2. n # 0 /\ p.attack = "ACCOUNT_TAKEOVER"
  BY ForecastCardinality DEF Forecast!GeographicAnomaly, Forecast!Attack
<1>3. m # 0 => \E q \in Forecast(d)!GeographicAnomaly : q.attack = "ACCOUNT_TAKEOVER"
  BY ForecastCardinality DEF Forecast!GeographicAnomaly, Forecast!Attack
<1> HIDE DEF n, m
<1> QED BY <1>1, <1>2, <1>3

LEMMA ZeroDayStands ==
  ASSUME ForecastAssumption, NEW c, NEW d, Grows(c, d), NEW p \in Forecast(c)!ZeroDay
  PROVE  \E q \in Forecast(d)!ZeroDay :
            p.attack = q.attack /\ p.attack = "ZERO_DAY_EXPLOITATION"
<1> DEFINE n == Forecast(c)!Many(Forecast(c)!Severe \ Forecast(c)!Of("COMMON"))
           m == Forecast(d)!Many(Forecast(d)!Severe \ Forecast(d)!Of("COMMON"))
           nCrit == Forecast(c)!Many(Forecast(c)!Critical)
           mCrit == Forecast(d)!Many(Forecast(d)!Critical)
<1>1. n \in Nat /\ m \in Nat /\ n <= m
  <2>1. Forecast(c)!Severe \ Forecast(c)!Of("COMMON")
           \subseteq Forecast(d)!Severe \ Forecast(d)!Of("COMMON")
    BY DEF Forecast!Severe, Forecast!Of, Forecast!Seen, Forecast!Kind, Grows
  <2>2. Forecast(d)!Severe \ Forecast(d)!Of("COMMON") \subseteq DOMAIN Shape
    BY SetsGrow
  <2> QED BY <2>1, <2>2, ManyGrows
<1>2. nCrit \in Nat /\ mCrit \in Nat /\ nCrit <= mCrit
  BY SetsGrow, ManyGrows
<1>3. /\ Forecast(c)!Severe # {} /\ ~(n < 2 /\ nCrit < 2)
      /\ p.attack = "ZERO_DAY_EXPLOITATION"
  BY DEF Forecast!ZeroDay, Forecast!Attack
<1>4. Forecast(d)!Severe # {} /\ ~(m < 2 /\ mCrit < 2) =>
         \E q \in Forecast(d)!ZeroDay : q.attack = "ZERO_DAY_EXPLOITATION"
  BY DEF Forecast!ZeroDay, Forecast!Attack
<1>5. Forecast(d)!Severe # {}
  BY <1>3, SetsGrow
<1> HIDE DEF n, m, nCrit, mCrit
<1> QED BY <1>1, <1>2, <1>3, <1>4, <1>5

(* In an order without ties something comes last, *)
LEMMA LastPlace ==
  ASSUME NEW S, IsFiniteSet(S), S # {}, NEW f, \A x \in S : f[x] \in Int,
         \A x, y \in S : f[x] = f[y] => x = y
  PROVE  \E m \in S : \A x \in S : f[x] <= f[m]
<1>1. Cardinality(S) \in Nat \ {0}
  BY FS_CardinalityType, FS_EmptySet
<1>2. PICK m \in S : Cardinality(Before(S, f, m)) = Cardinality(S) - 1
  <2>1. Cardinality(S) - 1 \in 0..(Cardinality(S) - 1)
    BY <1>1
  <2>2. \A i \in 0..(Cardinality(S) - 1) : \E x \in S : Cardinality(Before(S, f, x)) = i
    BY Places
  <2> QED BY <2>1, <2>2
<1>3. ASSUME NEW x \in S, ~(f[x] <= f[m]) PROVE FALSE
  <2>1. f[m] \in Int /\ f[x] \in Int /\ f[m] < f[x]
    BY <1>3
  <2>2. Before(S, f, m) \subseteq Before(S, f, x)
    <3> SUFFICES ASSUME NEW y \in S, f[y] < f[m] PROVE f[y] < f[x]
      BY DEF Before
    <3>1. f[y] \in Int
      OBVIOUS
    <3> QED BY <2>1, <3>1
  <2>3. m \in Before(S, f, x) /\ m \notin Before(S, f, m)
    BY <2>1 DEF Before
  <2>4. IsFiniteSet(Before(S, f, x)) /\ Cardinality(Before(S, f, x)) \in 0..(Cardinality(S) - 1)
    BY Places
  <2>5. /\ Cardinality(Before(S, f, m)) <= Cardinality(Before(S, f, x))
        /\ Cardinality(Before(S, f, m)) # Cardinality(Before(S, f, x))
    BY <2>2, <2>3, <2>4, FS_Subset
  <2> QED BY <1>1, <1>2, <2>4, <2>5
<1> QED BY <1>3

(* so a finite set of integers has a greatest element. *)
LEMMA GreatestOf ==
  ASSUME NEW c, NEW S \in SUBSET Int, IsFiniteSet(S), S # {}
  PROVE  /\ Forecast(c)!Max(S) \in S
         /\ \A x \in S : x <= Forecast(c)!Max(S)
<1> DEFINE f == [x \in S |-> x]
<1>1. /\ \A x \in S : f[x] \in Int
      /\ \A x, y \in S : f[x] = f[y] => x = y
  OBVIOUS
<1>2. \E m \in S : \A x \in S : f[x] <= f[m]
  <2> HIDE DEF f
  <2> QED BY <1>1, LastPlace
<1>3. \E m \in S : \A x \in S : m >= x
  BY <1>2
<1> QED BY <1>3 DEF Forecast!Max

LEMMA BruteForceStands ==
  ASSUME ForecastAssumption, NEW c, NEW d, Grows(c, d), NEW p \in Forecast(c)!BruteForce
  PROVE  \E q \in Forecast(d)!BruteForce :
            p.attack = q.attack /\ Forecast(c)!NoWorse(p, q)
<1> DEFINE From(e, ip) == {k \in Forecast(e)!Of("FAILURE") : Shape[k].ip = ip}
           Failures(e) == {Forecast(e)!Many(From(e, ip)) :
                              ip \in Forecast(e)!Where(Forecast(e)!Of("FAILURE"), "ip")}
           n == Forecast(c)!Max(Failures(c))
           m == Forecast(d)!Max(Failures(d))
           name == "BRUTE_FORCE_ESCALATION"
           x == Forecast(c)!BruteForceChance(n)
           y == Forecast(d)!BruteForceChance(m)
           a == Forecast(c)!Attack(name, x, Forecast(c)!Level(n, 30, 20, 10))
           b == Forecast(d)!Attack(name, y, Forecast(d)!Level(m, 30, 20, 10))
<1>1. Grows(c, c) /\ Grows(d, d)
  BY DEF Grows
<1>2. ASSUME NEW ip
      PROVE  /\ From(c, ip) \subseteq From(d, ip) /\ From(d, ip) \subseteq DOMAIN Shape
             /\ From(c, ip) \subseteq DOMAIN Shape
  BY SetsGrow
<1>3. ASSUME NEW ip
      PROVE  /\ Forecast(c)!Many(From(c, ip)) \in Nat /\ Forecast(d)!Many(From(d, ip)) \in Nat
             /\ Forecast(c)!Many(From(c, ip)) <= Forecast(d)!Many(From(d, ip))
             /\ Forecast(c)!Many(From(c, ip)) <= Forecast(c)!Many(DOMAIN Shape)
             /\ Forecast(d)!Many(From(d, ip)) <= Forecast(d)!Many(DOMAIN Shape)
  <2> HIDE DEF From
  <2> QED BY <1>1, <1>2, ManyGrows
<1>4. Forecast(c)!Many(DOMAIN Shape) \in Nat /\ Forecast(d)!Many(DOMAIN Shape) \in Nat
  BY <1>1, ManyGrows
<1>5. /\ Failures(c) \subseteq Nat /\ IsFiniteSet(Failures(c))
      /\ Failures(d) \subseteq Nat /\ IsFiniteSet(Failures(d))
  <2> HIDE DEF From
  <2>1. /\ Failures(c) \subseteq Nat /\ \A s \in Failures(c) : s <= Forecast(c)!Many(DOMAIN Shape)
        /\ Failures(d) \subseteq Nat /\ \A s \in Failures(d) : s <= Forecast(d)!Many(DOMAIN Shape)
    BY <1>3
  <2> QED BY <1>4, <2>1, FS_BoundedSetOfNaturals
<1>6. Forecast(c)!BruteForce = IF Failures(c) = {} THEN {} ELSE {a}
  BY DEF Forecast!BruteForce
<1>7. Forecast(d)!BruteForce = IF Failures(d) = {} THEN {} ELSE {b}
  BY DEF Forecast!BruteForce
<1>8. Forecast(c)!Where(Forecast(c)!Of("FAILURE"), "ip")
         \subseteq Forecast(d)!Where(Forecast(d)!Of("FAILURE"), "ip")
  BY SetsGrow, WhereGrows
<1> HIDE DEF From
<1>9. \A s \in Failures(c) : \E t \in Failures(d) : s <= t
  BY <1>3, <1>8
<1> HIDE DEF Failures
<1>10. Failures(c) # {} /\ Failures(d) # {}
  BY <1>6, <1>9
<1>11. n \in Nat /\ m \in Nat /\ n <= m
  <2>1. n \in Failures(c) /\ m \in Failures(d) /\ \A t \in Failures(d) : t <= m
    BY <1>5, <1>10, GreatestOf
  <2>2. PICK t \in Failures(d) : n <= t
    BY <1>9, <2>1
  <2>3. n \in Nat /\ m \in Nat /\ t \in Nat /\ t <= m
    BY <1>5, <2>1
  <2> HIDE DEF n, m
  <2> QED BY <2>2, <2>3
<1> HIDE DEF n, m
<1>12. x \in Int /\ y \in Int /\ x <= y
  BY <1>11 DEF Forecast!BruteForceChance
<1> HIDE DEF x, y
<1>13. a.attack = name /\ b.attack = name /\ Forecast(c)!NoWorse(a, b)
  BY <1>11, <1>12, AttackFits
<1> HIDE DEF a, b, name
<1>14. p = a
  BY <1>6, <1>10
<1> QED BY <1>7, <1>10, <1>13, <1>14

(* Each heuristic finds one attack at most, of its own name. *)
AttackNames ==
    {"BRUTE_FORCE_ESCALATION", "RECONNAISSANCE_EXPLOITATION", "ACCOUNT_TAKEOVER", "DDOS_ATTACK",
     "DATA_BREACH", "INSIDER_THREAT", "MALWARE_LATERAL_MOVEMENT", "ZERO_DAY_EXPLOITATION"}

LEMMA OneEach ==
  ASSUME NEW c
  PROVE  /\ \A p, q \in Forecast(c)!BruteForce : p = q /\ p.attack = "BRUTE_FORCE_ESCALATION"
         /\ \A p, q \in Forecast(c)!ReconExploit : p = q /\ p.attack = "RECONNAISSANCE_EXPLOITATION"
         /\ \A p, q \in Forecast(c)!GeographicAnomaly : p = q /\ p.attack = "ACCOUNT_TAKEOVER"
         /\ \A p, q \in Forecast(c)!DdosBuildup : p = q /\ p.attack = "DDOS_ATTACK"
         /\ \A p, q \in Forecast(c)!DataExfiltration : p = q /\ p.attack = "DATA_BREACH"
         /\ \A p, q \in Forecast(c)!InsiderThreat : p = q /\ p.attack = "INSIDER_THREAT"
         /\ \A p, q \in Forecast(c)!MalwarePropagation :
               p = q /\ p.attack = "MALWARE_LATERAL_MOVEMENT"
         /\ \A p, q \in Forecast(c)!ZeroDay : p = q /\ p.attack = "ZERO_DAY_EXPLOITATION"
<1>0. \A name, x, s : Forecast(c)!Attack(name, x, s).attack = name
  BY DEF Forecast!Attack
<1>1. \A p, q \in Forecast(c)!BruteForce : p = q /\ p.attack = "BRUTE_FORCE_ESCALATION"
  BY <1>0 DEF Forecast!BruteForce
<1>2. \A p, q \in Forecast(c)!ReconExploit : p = q /\ p.attack = "RECONNAISSANCE_EXPLOITATION"
  BY <1>0 DEF Forecast!ReconExploit
<1>3. \A p, q \in Forecast(c)!GeographicAnomaly : p = q /\ p.attack = "ACCOUNT_TAKEOVER"
  BY <1>0 DEF Forecast!GeographicAnomaly
<1>4. \A p, q \in Forecast(c)!DdosBuildup : p = q /\ p.attack = "DDOS_ATTACK"
  BY <1>0 DEF Forecast!DdosBuildup
<1>5. \A p, q \in Forecast(c)!DataExfiltration : p = q /\ p.attack = "DATA_BREACH"
  BY <1>0 DEF Forecast!DataExfiltration
<1>6. \A p, q \in Forecast(c)!InsiderThreat : p = q /\ p.attack = "INSIDER_THREAT"
  BY <1>0 DEF Forecast!InsiderThreat
<1>7. \A p, q \in Forecast(c)!MalwarePropagation : p = q /\ p.attack = "MALWARE_LATERAL_MOVEMENT"
  BY <1>0 DEF Forecast!MalwarePropagation
<1>8. \A p, q \in Forecast(c)!ZeroDay : p = q /\ p.attack = "ZERO_DAY_EXPLOITATION"
  BY <1>0 DEF Forecast!ZeroDay
<1> QED BY <1>1, <1>2, <1>3, <1>4, <1>5, <1>6, <1>7, <1>8

LEMMA FoundIsMap ==
  ASSUME NEW c
  PROVE  /\ \A p \in Forecast(c)!Found : p.attack \in AttackNames
         /\ \A p, q \in Forecast(c)!Found : p.attack = q.attack => p = q
<1>1. ASSUME NEW p \in Forecast(c)!Found
      PROVE  \/ p \in Forecast(c)!BruteForce \/ p \in Forecast(c)!ReconExploit
             \/ p \in Forecast(c)!GeographicAnomaly \/ p \in Forecast(c)!DdosBuildup
             \/ p \in Forecast(c)!DataExfiltration \/ p \in Forecast(c)!InsiderThreat
             \/ p \in Forecast(c)!MalwarePropagation \/ p \in Forecast(c)!ZeroDay
  BY DEF Forecast!Found
<1>2. ASSUME NEW p \in Forecast(c)!Found
      PROVE  /\ p.attack = "BRUTE_FORCE_ESCALATION" => p \in Forecast(c)!BruteForce
             /\ p.attack = "RECONNAISSANCE_EXPLOITATION" => p \in Forecast(c)!ReconExploit
             /\ p.attack = "ACCOUNT_TAKEOVER" => p \in Forecast(c)!GeographicAnomaly
             /\ p.attack = "DDOS_ATTACK" => p \in Forecast(c)!DdosBuildup
             /\ p.attack = "DATA_BREACH" => p \in Forecast(c)!DataExfiltration
             /\ p.attack = "INSIDER_THREAT" => p \in Forecast(c)!InsiderThreat
             /\ p.attack = "MALWARE_LATERAL_MOVEMENT" => p \in Forecast(c)!MalwarePropagation
             /\ p.attack = "ZERO_DAY_EXPLOITATION" => p \in Forecast(c)!ZeroDay
             /\ p.attack \in AttackNames
  BY <1>1, OneEach DEF AttackNames
<1> QED BY <1>2, OneEach DEF AttackNames

(* All of them together. *)
LEMMA FoundStands ==
  ASSUME ForecastAssumption, NEW c, NEW d, Grows(c, d), NEW p \in Forecast(c)!Found,
         p.attack # "DDOS_ATTACK"
  PROVE  \E q \in Forecast(d)!Found :
            p.attack = q.attack /\ (p.attack \in Forecast(c)!Counted => Forecast(c)!NoWorse(p, q))
<1>1. Forecast(c)!Seen # {} /\ Forecast(d)!Seen # {}
  BY SetsGrow DEF Forecast!Found
<1>2. \/ p \in Forecast(c)!BruteForce \/ p \in Forecast(c)!ReconExploit
      \/ p \in Forecast(c)!GeographicAnomaly \/ p \in Forecast(c)!DataExfiltration
      \/ p \in Forecast(c)!InsiderThreat \/ p \in Forecast(c)!MalwarePropagation
      \/ p \in Forecast(c)!ZeroDay
  BY <1>1, OneEach DEF Forecast!Found
<1>3. /\ Forecast(d)!BruteForce \subseteq Forecast(d)!Found
      /\ Forecast(d)!ReconExploit \subseteq Forecast(d)!Found
      /\ Forecast(d)!GeographicAnomaly \subseteq Forecast(d)!Found
      /\ Forecast(d)!DataExfiltration \subseteq Forecast(d)!Found
      /\ Forecast(d)!InsiderThreat \subseteq Forecast(d)!Found
      /\ Forecast(d)!MalwarePropagation \subseteq Forecast(d)!Found
      /\ Forecast(d)!ZeroDay \subseteq Forecast(d)!Found
  BY <1>1 DEF Forecast!Found
<1>4. CASE p \in Forecast(c)!GeographicAnomaly
  BY <1>3, <1>4, TakeoverStands DEF Forecast!Counted
<1>5. CASE p \in Forecast(c)!ZeroDay
  BY <1>3, <1>5, ZeroDayStands DEF Forecast!Counted
<1> QED BY <1>2, <1>3, <1>4, <1>5, BruteForceStands, ReconStands, BreachStands, InsiderStands,
           MalwareStands

-------------------------------------------------------------------------------
LEMMA UpTo ==
  ASSUME NEW n \in Nat PROVE IsFiniteSet(1..n) /\ Cardinality(1..n) = n
  BY FS_Interval

LEMMA NamesFinite == IsFiniteSet(AttackNames) /\ Cardinality(AttackNames) \in 0..8
<1> DEFINE f == <<"BRUTE_FORCE_ESCALATION", "RECONNAISSANCE_EXPLOITATION", "ACCOUNT_TAKEOVER",
                  "DDOS_ATTACK", "DATA_BREACH", "INSIDER_THREAT", "MALWARE_LATERAL_MOVEMENT",
                  "ZERO_DAY_EXPLOITATION">>
<1>1. f \in Surjection(1..8, AttackNames)
  <2>1. 1..8 = {1, 2, 3, 4, 5, 6, 7, 8}
    OBVIOUS
  <2>2. f \in [1..8 -> AttackNames]
    BY <2>1 DEF AttackNames
  <2>3. \A n \in AttackNames : \E i \in 1..8 : f[i] = n
    BY <2>1 DEF AttackNames
  <2> QED BY <2>2, <2>3 DEF Surjection
<1>2. IsFiniteSet(1..8) /\ Cardinality(1..8) = 8
  BY UpTo
<1> HIDE DEF f
<1>3. IsFiniteSet(AttackNames) /\ Cardinality(AttackNames) <= 8
  BY <1>1, <1>2, FS_Surjection
<1> QED BY <1>3, FS_CardinalityType

(* The pool of baseline predictions: five attacks, with numbers to compare. *)
LEMMA PoolIs ==
  ASSUME ForecastAssumption, NEW c \in [DOMAIN Shape -> Nat], Forecast(c)!Seen # {}
  PROVE  /\ DOMAIN Forecast(c)!Baseline = 1..5
         /\ \A i \in 1..5 : /\ Forecast(c)!Baseline[i].probability \in Int
                            /\ Forecast(c)!Baseline[i].attack \in AttackNames
         /\ \A i, j \in 1..5 :
               Forecast(c)!Baseline[i].attack = Forecast(c)!Baseline[j].attack => i = j
<1> DEFINE x1 == 50 + 10 * Forecast(c)!Many(Forecast(c)!Of("FAILURE"))
           x2 == 50 + (15 * Forecast(c)!Share(Forecast(c)!Denied)) \div 100
           x3 == 40 + 10 * Forecast(c)!Many(Forecast(c)!Of("DATA"))
           x4 == 30 + 20 * Forecast(c)!Many(Forecast(c)!Risky)
           x5 == 30 + (15 * Forecast(c)!Share(Forecast(c)!Severe)) \div 100
           pool == Forecast(c)!Baseline
<1>1. Grows(c, c)
  BY DEF Grows
<1>2. /\ Forecast(c)!Many(Forecast(c)!Of("FAILURE")) \in Nat
      /\ Forecast(c)!Many(Forecast(c)!Of("DATA")) \in Nat
      /\ Forecast(c)!Many(Forecast(c)!Risky) \in Nat
      /\ Forecast(c)!Many(Forecast(c)!Denied) \in Nat
      /\ Forecast(c)!Many(Forecast(c)!Severe) \in Nat
  <2>1. /\ Forecast(c)!Of("FAILURE") \subseteq DOMAIN Shape
        /\ Forecast(c)!Of("DATA") \subseteq DOMAIN Shape
        /\ Forecast(c)!Risky \subseteq DOMAIN Shape
        /\ Forecast(c)!Severe \subseteq DOMAIN Shape
    BY <1>1, SetsGrow
  <2>2. Forecast(c)!Denied \subseteq DOMAIN Shape
    BY <1>1, SetsGrow DEF Forecast!Denied
  <2> QED BY <1>1, <2>1, <2>2, ManyGrows
<1>3. ASSUME NEW K, Forecast(c)!Many(K) \in Nat PROVE Forecast(c)!Share(K) \in Int
  <2> DEFINE n == Forecast(c)!Many(K)
             t == Forecast(c)!Many(Forecast(c)!Seen)
  <2>1. n \in Nat /\ t \in Nat \ {0}
    BY <1>3, ManyOfSome
  <2>2. Forecast(c)!Share(K) = (1000 * n) \div t
    BY DEF Forecast!Share
  <2> HIDE DEF n, t
  <2> QED BY <2>1, <2>2
<1>4. x1 \in Int /\ x2 \in Int /\ x3 \in Int /\ x4 \in Int /\ x5 \in Int
  BY <1>2, <1>3
<1>5. pool = <<Forecast(c)!Attack("BRUTE_FORCE_ESCALATION", x1, "LOW"),
               Forecast(c)!Attack("DDOS_ATTACK", x2, "LOW"),
               Forecast(c)!Attack("DATA_BREACH", x3, "LOW"),
               Forecast(c)!Attack("ACCOUNT_TAKEOVER", x4, "LOW"),
               Forecast(c)!Attack("ZERO_DAY_EXPLOITATION", x5, "LOW")>>
  BY DEF Forecast!Baseline
<1> HIDE DEF x1, x2, x3, x4, x5, pool
<1>6. ASSUME NEW name, NEW x \in Int
      PROVE  /\ Forecast(c)!Attack(name, x, "LOW").attack = name
             /\ Forecast(c)!Attack(name, x, "LOW").probability \in Int
  BY DEF Forecast!Attack, Forecast!Least
<1>7. /\ pool[1].attack = "BRUTE_FORCE_ESCALATION" /\ pool[1].probability \in Int
      /\ pool[2].attack = "DDOS_ATTACK" /\ pool[2].probability \in Int
      /\ pool[3].attack = "DATA_BREACH" /\ pool[3].probability \in Int
      /\ pool[4].attack = "ACCOUNT_TAKEOVER" /\ pool[4].probability \in Int
      /\ pool[5].attack = "ZERO_DAY_EXPLOITATION" /\ pool[5].probability \in Int
  BY <1>4, <1>5, <1>6
<1>8. DOMAIN pool = 1..5
  BY <1>5
<1>9. 1..5 = {1, 2, 3, 4, 5}
  OBVIOUS
<1>10. \A i \in 1..5 : pool[i].probability \in Int /\ pool[i].attack \in AttackNames
  BY <1>7, <1>9 DEF AttackNames
<1>11. \A i, j \in 1..5 : pool[i].attack = pool[j].attack => i = j
  BY <1>7, <1>9
<1> QED BY <1>8, <1>10, <1>11 DEF pool

(* A set of predictions of different attacks has as many attacks. *)
LEMMA AttacksCount ==
  ASSUME NEW c, NEW S, \A p \in S : p.attack \in AttackNames,
         \A p, q \in S : p.attack = q.attack => p = q
  PROVE  /\ IsFiniteSet(S) /\ Cardinality(S) \in 0..8
         /\ IsFiniteSet(Forecast(c)!Attacks(S))
         /\ Cardinality(Forecast(c)!Attacks(S)) = Cardinality(S)
<1> DEFINE f == [p \in S |-> p.attack]
           T == Forecast(c)!Attacks(S)
<1>1. f \in Injection(S, AttackNames)
  BY DEF Injection, IsInjective
<1>2. f \in Surjection(S, T) /\ f \in Injection(S, T)
  BY DEF Injection, IsInjective, Surjection, Forecast!Attacks
<1> HIDE DEF f, T
<1>3. IsFiniteSet(S) /\ Cardinality(S) <= 8
  BY <1>1, NamesFinite, FS_Injection, FS_CardinalityType
<1>4. IsFiniteSet(T) /\ Cardinality(T) = Cardinality(S)
  BY <1>2, <1>3, FS_Surjection
<1> QED BY <1>3, <1>4, FS_CardinalityType DEF T

(* With m predictions found, five less m or more are left in the pool; the *)
(* first three less m of them, in an order without ties, are added.        *)
LEMMA ThreeToEightHolds ==
  ASSUME ForecastAssumption, NEW c \in [DOMAIN Shape -> Nat]
  PROVE  Forecast(c)!ThreeToEight
<1> DEFINE F == Forecast(c)!Found
           P == Forecast(c)!Padding(F)
           listed == F \cup P
           pool == Forecast(c)!Baseline
           M == Forecast(c)!Missing(F)
           m == Cardinality(F)
           key == [i \in 1..5 |-> i - 10 * pool[i].probability]
           Added == {j \in M : m + Cardinality(Before(M, key, j)) < 3}
<1> SUFFICES ASSUME Forecast(c)!Seen # {}
             PROVE  /\ Cardinality(listed) \in 3..8
                    /\ Cardinality(Forecast(c)!Attacks(listed)) = Cardinality(listed)
  BY ForecastCardinality DEF Forecast!ThreeToEight, Forecast!Predictions
<1>1. /\ DOMAIN pool = 1..5
      /\ \A i \in 1..5 : pool[i].probability \in Int /\ pool[i].attack \in AttackNames
      /\ \A i, j \in 1..5 : pool[i].attack = pool[j].attack => i = j
  BY PoolIs
<1>2. /\ \A p \in F : p.attack \in AttackNames
      /\ \A p, q \in F : p.attack = q.attack => p = q
  BY FoundIsMap
<1>3. /\ IsFiniteSet(F) /\ m \in 0..8 /\ IsFiniteSet(Forecast(c)!Attacks(F))
      /\ Cardinality(Forecast(c)!Attacks(F)) = m
  <2> HIDE DEF F
  <2> QED BY <1>2, AttacksCount
<1>4. M = {i \in 1..5 : pool[i].attack \notin Forecast(c)!Attacks(F)}
  BY <1>1 DEF Forecast!Missing
<1>5. ASSUME NEW h \in M, NEW j \in M
      PROVE  h - 10 * pool[h].probability < j - 10 * pool[j].probability
             <=> \/ pool[h].probability > pool[j].probability
                 \/ pool[h].probability = pool[j].probability /\ h < j
  <2>1. h \in 1..5 /\ j \in 1..5 /\ pool[h].probability \in Int /\ pool[j].probability \in Int
    BY <1>1, <1>4
  <2> QED BY <2>1
<1>6. ASSUME NEW j \in M
      PROVE  Before(M, key, j) =
                {h \in M : \/ pool[h].probability > pool[j].probability
                           \/ pool[h].probability = pool[j].probability /\ h < j}
  <2>1. \A h \in M : key[h] = h - 10 * pool[h].probability
    BY <1>4
  <2> QED BY <1>5, <2>1 DEF Before
<1>7. P = {pool[i] : i \in Added}
  <2>1. Added = {j \in M : m + Forecast(c)!Cardinality(
                     {h \in M : \/ pool[h].probability > pool[j].probability
                                \/ pool[h].probability = pool[j].probability /\ h < j}) < 3}
    BY <1>6, ForecastCardinality
  <2>2. Forecast(c)!Cardinality(F) = m
    BY ForecastCardinality
  <2> HIDE DEF Added, F, m
  <2> QED BY <2>1, <2>2 DEF Forecast!Padding
<1>8. /\ \A i, j \in M : key[i] = key[j] => i = j
      /\ \A i \in M : key[i] \in Int
  <2>1. ASSUME NEW i \in M, NEW j \in M, key[i] = key[j] PROVE i = j
    <3>1. /\ i \in 1..5 /\ j \in 1..5 /\ pool[i].probability \in Int
          /\ pool[j].probability \in Int
          /\ i - 10 * pool[i].probability = j - 10 * pool[j].probability
      BY <1>1, <1>4, <2>1
    <3> QED BY <3>1
  <2>2. \A i \in M : key[i] \in Int
    BY <1>1, <1>4
  <2> QED BY <2>1, <2>2
<1> HIDE DEF key, P
<1>9. Added \subseteq M /\ M \subseteq 1..5
  BY <1>4
<1>10. /\ \A p \in P : p.attack \in AttackNames /\ p.attack \notin Forecast(c)!Attacks(F)
       /\ \A p, q \in P : p.attack = q.attack => p = q
  <2> HIDE DEF Added, pool, F
  <2> QED BY <1>1, <1>4, <1>7, <1>9
<1>11. \A p \in F : p.attack \in Forecast(c)!Attacks(F)
  BY DEF Forecast!Attacks
<1>12. /\ IsFiniteSet(listed) /\ Cardinality(listed) \in 0..8
       /\ Cardinality(Forecast(c)!Attacks(listed)) = Cardinality(listed)
  <2>1. /\ \A p \in listed : p.attack \in AttackNames
        /\ \A p, q \in listed : p.attack = q.attack => p = q
    <3> HIDE DEF F
    <3> QED BY <1>2, <1>10, <1>11
  <2> HIDE DEF listed
  <2> QED BY <2>1, AttacksCount
<1>13. Cardinality(listed) >= 3
  <2>1. CASE m >= 3
    <3>1. Cardinality(F) <= Cardinality(listed)
      BY <1>12, FS_Subset
    <3> QED BY <1>3, <1>12, <2>1, <3>1
  <2>2. CASE m < 3
    <3> DEFINE T == (1..5) \ M
               k == Cardinality(M)
               g == [j \in Added |-> Cardinality(Before(M, key, j))]
               e == [i \in Added |-> pool[i]]
               f == [i \in T |-> pool[i].attack]
    <3>1. IsFiniteSet(1..5) /\ Cardinality(1..5) = 5
      BY UpTo
    <3>2. Cardinality(T) <= m
      <4>1. f \in Injection(T, Forecast(c)!Attacks(F))
        BY <1>1, <1>4 DEF Injection, IsInjective
      <4> HIDE DEF f, T, F
      <4> QED BY <1>3, <4>1, FS_Injection
    <3>3. IsFiniteSet(M) /\ k \in Nat /\ k >= 5 - m
      <4>1. IsFiniteSet(T) /\ Cardinality(T) \in Nat
        BY <3>1, FS_Subset, FS_CardinalityType
      <4>2. M = (1..5) \ T /\ (1..5) \cap T = T
        BY <1>9
      <4> HIDE DEF M, T
      <4>3. IsFiniteSet(M) /\ k = 5 - Cardinality(T)
        <5>1. /\ IsFiniteSet((1..5) \ T)
              /\ Cardinality((1..5) \ T) = Cardinality(1..5) - Cardinality((1..5) \cap T)
          BY <3>1, FS_Difference
        <5> QED BY <3>1, <4>2, <5>1
      <4> QED BY <1>3, <2>2, <3>2, <4>1, <4>3
    <3>4. /\ \A j \in M : Cardinality(Before(M, key, j)) \in 0..(k - 1)
          /\ \A i \in 0..(k - 1) : \E j \in M : Cardinality(Before(M, key, j)) = i
      <4> HIDE DEF M
      <4> QED BY <1>8, <3>3, Places
    <3>5. g \in Surjection(Added, 0..(2 - m))
      <4>1. \A j \in Added : g[j] \in 0..(2 - m)
        BY <1>3, <3>3, <3>4
      <4>2. ASSUME NEW i \in 0..(2 - m) PROVE \E j \in Added : g[j] = i
        <5>1. i \in 0..(k - 1) /\ m + i < 3
          BY <1>3, <3>3
        <5>2. PICK j \in M : Cardinality(Before(M, key, j)) = i
          BY <3>4, <5>1
        <5> QED BY <5>1, <5>2
      <4> QED BY <4>1, <4>2 DEF Surjection
    <3>6. IsFiniteSet(Added) /\ IsFiniteSet(P)
      <4>1. P \subseteq listed
        OBVIOUS
      <4> QED BY <1>9, <1>12, <3>3, <4>1, FS_Subset
    <3> HIDE DEF g
    <3>7. 3 - m <= Cardinality(Added)
      <4>1. Cardinality(0..(2 - m)) = 3 - m
        BY <1>3, <2>2, FS_Interval
      <4> QED BY <3>5, <3>6, <4>1, FS_Surjection
    <3>8. Cardinality(Added) <= Cardinality(P)
      <4>1. e \in Injection(Added, P)
        BY <1>1, <1>7, <1>9 DEF Injection, IsInjective
      <4> HIDE DEF e, Added
      <4> QED BY <3>6, <4>1, FS_Injection
    <3>9. F \cap P = {}
      BY <1>10, <1>11
    <3>10. Cardinality(listed) = m + Cardinality(P) - 0
      BY <1>3, <3>6, <3>9, FS_Union, FS_EmptySet
    <3>11. Cardinality(Added) \in Nat /\ Cardinality(P) \in Nat
      BY <3>6, FS_CardinalityType
    <3> HIDE DEF m, Added, P, listed
    <3> QED BY <1>3, <2>2, <3>7, <3>8, <3>10, <3>11
  <2> QED BY <1>3, <2>1, <2>2
<1> QED BY <1>12, <1>13

-------------------------------------------------------------------------------
ForecastInv == count \in [DOMAIN Shape -> Nat] /\ Forecast(count)!ForecasterTypeOK

LEMMA ForecastInit == ASSUME ForecastAssumption PROVE Forecast(count)!Init => ForecastInv
  BY DEF ForecastAssumption, ForecastInv, Forecast!Init, Forecast!ForecasterTypeOK, Forecast!Kind

LEMMA ForecastNext ==
  ASSUME ForecastAssumption, ForecastInv, Forecast(count)!Next
  PROVE  ForecastInv' /\ Grows(count, count')
<1>1. PICK k \in DOMAIN Shape : Forecast(count)!Add(k)
  BY DEF Forecast!Next, Forecast!Kind
<1>2. /\ count[k] < MaxLogs[k] /\ count' = [count EXCEPT ![k] = @ + 1]
      /\ count[k] \in Nat /\ MaxLogs[k] \in Nat
  BY <1>1 DEF Forecast!Add, ForecastInv, ForecastAssumption
<1>3. count' \in [DOMAIN Shape -> Nat]
  BY <1>2 DEF ForecastInv
<1>4. \A j \in DOMAIN Shape : count[j] <= count'[j] /\ count'[j] \in 0..MaxLogs[j]
  BY <1>2 DEF ForecastInv, Forecast!ForecasterTypeOK, Forecast!Kind
<1>5. Grows(count, count')
  BY <1>3, <1>4 DEF Grows, ForecastInv
<1>6. Forecast(count)!ForecasterTypeOK'
  BY <1>3, <1>4 DEF Forecast!ForecasterTypeOK, Forecast!Kind
<1> QED BY <1>3, <1>5, <1>6 DEF ForecastInv

LEMMA ForecastStep ==
  ASSUME ForecastAssumption, ForecastInv, Forecast(count)!Next
  PROVE  Forecast(count)!Stands
<1>1. PICK c, d : c = count /\ d = count'
  OBVIOUS
<1>2. Grows(c, d)
  BY <1>1, ForecastNext
<1>3. Forecast(count)!Found = Forecast(c)!Found /\ Forecast(count)!Found' = Forecast(d)!Found
  BY <1>1
<1>4. /\ Forecast(count)!Counted = Forecast(c)!Counted
      /\ \A p, q : Forecast(count)!NoWorse(p, q) <=> Forecast(c)!NoWorse(p, q)
  BY <1>1
<1>5. \A p \in Forecast(c)!Found : p.attack # "DDOS_ATTACK" =>
         \E q \in Forecast(d)!Found :
            p.attack = q.attack /\ (p.attack \in Forecast(c)!Counted => Forecast(c)!NoWorse(p, q))
  BY <1>2, FoundStands
<1> QED BY <1>3, <1>4, <1>5 DEF Forecast!Stands

(* Every list of logs gets three to eight predictions, each of another     *)
(* attack, and a longer list hides none that was found before, but the     *)
(* flood (predictor.py predict and its eight heuristics).                  *)
THEOREM ForecastHolds ==
  ASSUME ForecastAssumption
  PROVE  Forecast(count)!Spec => [][Forecast(count)!ThreeToEight' /\ Forecast(count)!Stands]_count
<1>1. Forecast(count)!Init => ForecastInv
  BY ForecastInit
<1>2. ForecastInv /\ [Forecast(count)!Next]_count => ForecastInv'
  BY ForecastNext DEF ForecastInv
<1>3. ForecastInv => Forecast(count)!ThreeToEight
  BY ThreeToEightHolds DEF ForecastInv
<1>4. ForecastInv /\ [Forecast(count)!Next]_count => [Forecast(count)!Stands]_count
  BY ForecastStep
<1> QED BY <1>1, <1>2, <1>3, <1>4, PTL DEF Forecast!Spec

===============================================================================
