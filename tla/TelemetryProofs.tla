---------------------------- MODULE TelemetryProofs ----------------------------
(***************************************************************************)
(* The properties of the telemetry run about the launcher, the seed, the   *)
(* detector, the scorer and the intake of logs, and eight pages, for every *)
(* value of the constants that TelemetryAssumption allows.  The invariants *)
(* and their proofs are those of OperationsProofs and PageProofs; a        *)
(* behaviour of MCTelemetry stays with the component it began with, as the *)
(* lemmas below say of each.                                               *)
(***************************************************************************)
EXTENDS MCTelemetry, TLAPS

Operated == INSTANCE OperationsProofs WITH
    phase <- v1, memory <- v2, loaded <- v3, disk <- v4, step <- v5, trainings <- v6,
    broken <- v7,
    docker <- v1, container <- v2, app <- v3, start <- v4, at <- v5, stop <- v6,
    starts <- v7, overlap <- v8, survived <- v9,
    users <- v1, settings <- v2, keys <- v3, rows <- v4, stage <- v5, left <- v6,
    runs <- v7, disturbed <- v8,
    event <- v1,
    entry <- v1, reached <- v2, threat <- v3, alarm <- v4

Paged == INSTANCE PageProofs WITH
    Score <- EventScore, Slot <- Request, SeverityOf <- AlertSeverity,
    Log <- Logged, Denied <- Stopped, SourceOf <- AddressOf, Attack <- Located, Critical <- Serious, Demo <- MockOrigin,
    Chunk <- Log,
    saved <- v1, initial <- v2, form <- v3, formPhase <- v4, sent <- v5, saves <- v6,
    patches <- v7, clean <- v8, alerts <- v9,
    windowHours <- v1, inputMode <- v2, selectedPreset <- v3, isForecasting <- v4,
    error <- v5, forecast <- v6, underway <- v7, crossed <- v8,
    raised <- v1, status <- v2, resolved <- v3, alertsPage <- v4, answer <- v5,
    pending <- v6, served <- v7, mixed <- v8,
    stored <- v1, copies <- v2, data <- v3, answered <- v4, asked <- v5,
    settled <- v6,
    attacks <- v1, calls <- v2, map <- v3, isLoading <- v4, filter <- v5,
    filtered <- v6, due <- v7,
    ingested <- v1, copied <- v2, query <- v3, fetches <- v4, shown <- v5,
    upload <- v6, stale <- v7,
    lines <- v1, duplicates <- v2, typed <- v3, search <- v4, severities <- v5,
    sources <- v6, place <- v7, view <- v8, awaited <- v9, table <- v10, sure <- v11,
    scored <- v1, request <- v2, entities <- v3, tally <- v4, mocked <- v5,
    category <- v6, sought <- v7, sort <- v8, layout <- v9, pageNo <- v10,
    replaced <- v11, torn <- v12,
    count <- v1

(* The assumptions of those modules are part of TelemetryAssumption. *)
LEMMA Assumed ==
    /\ Operated!LaunchAssumption
    /\ Operated!SeedAssumption
    /\ Operated!ScoresAssumption
    /\ Operated!IntakeAssumption
    /\ Paged!SettingsAssumption
    /\ Paged!ForecastsAssumption
    /\ Paged!AlertsAssumption
    /\ Paged!OverviewAssumption
    /\ Paged!MapAssumption
    /\ Paged!LogsAssumption
    /\ Paged!FiltersAssumption
    /\ Paged!ThreatsAssumption
    /\ Paged!ForecastAssumption
<1>1. Operated!LaunchAssumption
  BY TelemetryAssumption DEF Operated!LaunchAssumption,
     Launch!Containers, Operated!Launch!Containers
<1>2. Operated!SeedAssumption
  BY TelemetryAssumption DEF Operated!SeedAssumption,
     Seeding!Table, Operated!Seeding!Table
<1>3. Paged!SettingsAssumption
  BY TelemetryAssumption DEF Paged!SettingsAssumption
<1>4. Paged!ForecastsAssumption
  BY TelemetryAssumption DEF Paged!ForecastsAssumption
<1>5. Paged!AlertsAssumption
  BY TelemetryAssumption DEF Paged!AlertsAssumption,
     Alerts!Demo, Paged!Alerts!Demo, Alerts!Status, Paged!Alerts!Status, IsFiniteSet, Paged!IsFiniteSet
<1>6. Paged!OverviewAssumption
  <2>1. Paged!IsFiniteSet(Logged)
    BY TelemetryAssumption DEF IsFiniteSet, Paged!IsFiniteSet
  <2>2. Panel \subseteq Paged!Overview!AllPanels
    BY TelemetryAssumption DEF Overview!AllPanels, Paged!Overview!AllPanels
  <2> QED BY <2>1, <2>2, TelemetryAssumption DEF Paged!OverviewAssumption
<1>7. Paged!MapAssumption
  BY TelemetryAssumption DEF Paged!MapAssumption,
     IsFiniteSet, Paged!IsFiniteSet
<1>8. Paged!LogsAssumption
  BY TelemetryAssumption DEF Paged!LogsAssumption
<1>9. Paged!FiltersAssumption
  <2>1. Len(SeverityOrder) \in Nat /\ DOMAIN SeverityOrder = 1..Len(SeverityOrder)
    <3>1. SeverityOrder \in Seq(STRING)
      BY TelemetryAssumption
    <3> QED BY <3>1
  <2>2. Paged!IsFiniteSet(Line) /\ Paged!IsFiniteSet(DemoLine)
    BY TelemetryAssumption DEF IsFiniteSet, Paged!IsFiniteSet
  <2>3. \A f \in Field : /\ \A l \in Line : LineRank[f][l] \in Int
                         /\ \A l, k \in Line : LineRank[f][l] = LineRank[f][k] => l = k
    BY TelemetryAssumption
  <2>4. PerPage \subseteq Nat \ {0} /\ BaseTotal \in Nat /\ MaxPage \in Nat \ {0}
    BY TelemetryAssumption
  <2> QED BY <2>1, <2>2, <2>3, <2>4 DEF Paged!FiltersAssumption
<1>10. Operated!ScoresAssumption /\ Operated!IntakeAssumption
  BY TelemetryAssumption DEF Operated!ScoresAssumption, Operated!IntakeAssumption
<1>11. Paged!ThreatsAssumption
  <2>1. Paged!IsFiniteSet(Entity)
    BY TelemetryAssumption DEF IsFiniteSet, Paged!IsFiniteSet
  <2>2. RowLimit \in Nat /\ MockEntity \subseteq Entity /\ MockEntity # {}
    BY TelemetryAssumption
  <2>3. CategoryOf \in [Entity -> Paged!Threats!Category]
    BY TelemetryAssumption DEF Threats!Category, Paged!Threats!Category
  <2>4. PageSize \in [Paged!Threats!View -> Nat \ {0}]
    BY TelemetryAssumption DEF Threats!View, Paged!Threats!View
  <2>5. \A s \in Sort : /\ \A e \in Entity : EntityRank[s][e] \in Int
                        /\ \A e, d \in Entity : EntityRank[s][e] = EntityRank[s][d] => e = d
    BY TelemetryAssumption
  <2> QED BY <2>1, <2>2, <2>3, <2>4, <2>5 DEF Paged!ThreatsAssumption
<1>12. Paged!ForecastAssumption
  <2>1. Paged!IsFiniteSet(DOMAIN Shape)
    BY TelemetryAssumption DEF IsFiniteSet, Paged!IsFiniteSet
  <2>2. \A k \in DOMAIN Shape : Paged!IsFiniteSet(Shape[k].users)
    BY TelemetryAssumption DEF IsFiniteSet, Paged!IsFiniteSet
  <2> QED BY <2>1, <2>2, TelemetryAssumption DEF Paged!ForecastAssumption
<1> QED BY <1>1, <1>2, <1>3, <1>4, <1>5, <1>6, <1>7, <1>8, <1>9, <1>10, <1>11, <1>12

(* An operator of a component means the same under both of its names. *)
LEMMA SameModels ==
    /\ Models!Init => Operated!Models!Init
    /\ Models!Next => Operated!Models!Next
    /\ Operated!Models!LoadedIsOneTraining => Models!LoadedIsOneTraining
<1>1. Models!Init => Operated!Models!Init
  BY DEF Models!Init, Operated!Models!Init, Models!Part, Operated!Models!Part,
     Models!None, Operated!Models!None, Models!FitOrder, Operated!Models!FitOrder
<1>2. Models!Next => Operated!Models!Next
  BY DEF Models!Next, Operated!Models!Next, Models!Start, Operated!Models!Start,
     Models!TrainModels, Operated!Models!TrainModels, Models!Fit, Operated!Models!Fit,
     Models!Save, Operated!Models!Save, Models!Raises, Operated!Models!Raises,
     Models!Crash, Operated!Models!Crash, Models!Load, Operated!Models!Load,
     Models!Begin, Operated!Models!Begin, Models!Fitting, Operated!Models!Fitting,
     Models!FitOrder, Operated!Models!FitOrder, Models!Saving, Operated!Models!Saving,
     Models!SaveOrder, Operated!Models!SaveOrder, Models!End, Operated!Models!End,
     Models!CutShort, Operated!Models!CutShort, Models!Unfitted,
     Operated!Models!Unfitted, Models!Part, Operated!Models!Part, Models!None,
     Operated!Models!None, Models!Readable, Operated!Models!Readable, Models!Torn,
     Operated!Models!Torn
<1>3. Operated!Models!LoadedIsOneTraining => Models!LoadedIsOneTraining
  BY DEF Models!LoadedIsOneTraining, Operated!Models!LoadedIsOneTraining,
     Models!UncutIsOneTraining, Operated!Models!UncutIsOneTraining,
     Models!NewestIsWhole, Operated!Models!NewestIsWhole,
     Models!None, Operated!Models!None, Models!Training, Operated!Models!Training, Models!Part, Operated!Models!Part,
     Models!FitOrder, Operated!Models!FitOrder
<1> QED BY <1>1, <1>2, <1>3

LEMMA SameLaunch ==
    /\ Launch!Init => Operated!Launch!Init
    /\ Launch!Next => Operated!Launch!Next
    /\ Operated!Launch!StopStopsAll => Launch!StopStopsAll
<1>1. Launch!Init => Operated!Launch!Init
  BY DEF Launch!Init, Operated!Launch!Init, Launch!Containers,
     Operated!Launch!Containers, Launch!App, Operated!Launch!App, Launch!Idle,
     Operated!Launch!Idle
<1>2. Launch!Next => Operated!Launch!Next
  BY DEF Launch!Next, Operated!Launch!Next, Launch!DockerUp, Operated!Launch!DockerUp,
     Launch!Containers, Operated!Launch!Containers, Launch!Heal, Operated!Launch!Heal,
     Launch!App, Operated!Launch!App, Launch!Listens, Operated!Launch!Listens,
     Launch!Ends, Operated!Launch!Ends, Launch!ByHand, Operated!Launch!ByHand,
     Launch!Open, Operated!Launch!Open, Launch!AwaitApp, Operated!Launch!AwaitApp,
     Launch!KillWindows, Operated!Launch!KillWindows, Launch!StopPortListener,
     Operated!Launch!StopPortListener, Launch!StartAll, Operated!Launch!StartAll,
     Launch!Docker, Operated!Launch!Docker, Launch!Compose, Operated!Launch!Compose,
     Launch!AwaitContainer, Operated!Launch!AwaitContainer, Launch!AskMl,
     Operated!Launch!AskMl, Launch!Ready, Operated!Launch!Ready, Launch!StopAll,
     Operated!Launch!StopAll, Launch!ComposeDown, Operated!Launch!ComposeDown,
     Launch!Becomes, Operated!Launch!Becomes, Launch!After, Operated!Launch!After,
     Launch!Wait, Operated!Launch!Wait, Launch!Windows, Operated!Launch!Windows,
     Launch!Step, Operated!Launch!Step
<1>3. Operated!Launch!StopStopsAll => Launch!StopStopsAll
  BY DEF Launch!StopStopsAll, Operated!Launch!StopStopsAll, Launch!Containers,
     Operated!Launch!Containers, Launch!App, Operated!Launch!App, Launch!Idle,
     Operated!Launch!Idle
<1> QED BY <1>1, <1>2, <1>3

LEMMA SameSeeding ==
    /\ Seeding!Init => Operated!Seeding!Init
    /\ Seeding!Next => Operated!Seeding!Next
    /\ Operated!Seeding!SeedConverges => Seeding!SeedConverges
<1>1. Seeding!Init => Operated!Seeding!Init
  BY DEF Seeding!Init, Operated!Seeding!Init, Seeding!Table, Operated!Seeding!Table
<1>2. Seeding!Next => Operated!Seeding!Next
  BY DEF Seeding!Next, Operated!Seeding!Next, Seeding!Register,
     Operated!Seeding!Register, Seeding!OpenSettings, Operated!Seeding!OpenSettings,
     Seeding!SetKey, Operated!Seeding!SetKey, Seeding!Table, Operated!Seeding!Table,
     Seeding!Write, Operated!Seeding!Write, Seeding!Start, Operated!Seeding!Start,
     Seeding!Do, Operated!Seeding!Do, Seeding!Proceed, Operated!Seeding!Proceed,
     Seeding!Fail, Operated!Seeding!Fail, Seeding!Disturb, Operated!Seeding!Disturb,
     Seeding!Owned, Operated!Seeding!Owned, Seeding!Running, Operated!Seeding!Running,
     Seeding!Work, Operated!Seeding!Work, Seeding!CreateUser,
     Operated!Seeding!CreateUser, Seeding!InsertLogs, Operated!Seeding!InsertLogs,
     Seeding!CreateAlert, Operated!Seeding!CreateAlert, Seeding!CreateThreatScore,
     Operated!Seeding!CreateThreatScore, Seeding!BlockIP, Operated!Seeding!BlockIP,
     Seeding!CreateAuditLog, Operated!Seeding!CreateAuditLog,
     Seeding!CreateNotificationSetting, Operated!Seeding!CreateNotificationSetting,
     Seeding!CreatePlatformSetting, Operated!Seeding!CreatePlatformSetting,
     Seeding!Clean, Operated!Seeding!Clean, Seeding!Stages, Operated!Seeding!Stages,
     Seeding!Cleaned, Operated!Seeding!Cleaned, Seeding!Insert, Operated!Seeding!Insert
<1>3. Operated!Seeding!SeedConverges => Seeding!SeedConverges
  BY DEF Seeding!SeedConverges, Operated!Seeding!SeedConverges
<1> QED BY <1>1, <1>2, <1>3

LEMMA SameSettings ==
    /\ Settings!Init => Paged!Settings!Init
    /\ Settings!Next => Paged!Settings!Next
    /\ Paged!Settings!SavedIsStored => Settings!SavedIsStored
<1>1. Settings!Init => Paged!Settings!Init
  BY DEF Settings!Init, Paged!Settings!Init, Settings!Unset, Paged!Settings!Unset,
     Settings!Defaults, Paged!Settings!Defaults, Settings!Default,
     Paged!Settings!Default
<1>2. Settings!Next => Paged!Settings!Next
  BY DEF Settings!Next, Paged!Settings!Next, Settings!Fetched, Paged!Settings!Fetched,
     Settings!FetchFailed, Paged!Settings!FetchFailed, Settings!Discard,
     Paged!Settings!Discard, Settings!Reenter, Paged!Settings!Reenter, Settings!Save,
     Paged!Settings!Save, Settings!Saved, Paged!Settings!Saved, Settings!Edit,
     Paged!Settings!Edit, Settings!OtherAdmin, Paged!Settings!OtherAdmin,
     Settings!Upsert, Paged!Settings!Upsert, Settings!PatchFailed,
     Paged!Settings!PatchFailed, Settings!RaiseAlert, Paged!Settings!RaiseAlert,
     Settings!Loaded, Paged!Settings!Loaded, Settings!isDirty, Paged!Settings!isDirty,
     Settings!Defaults, Paged!Settings!Defaults, Settings!OfThisSave,
     Paged!Settings!OfThisSave, Settings!AlertThreshold, Paged!Settings!AlertThreshold,
     Settings!Unset, Paged!Settings!Unset, Settings!Default, Paged!Settings!Default
<1>3. Paged!Settings!SavedIsStored => Settings!SavedIsStored
  BY DEF Settings!SavedIsStored, Paged!Settings!SavedIsStored, Settings!Loaded,
     Paged!Settings!Loaded, Settings!Unset, Paged!Settings!Unset, Settings!Default,
     Paged!Settings!Default
<1> QED BY <1>1, <1>2, <1>3

LEMMA SameForecasts ==
    /\ Forecasts!Init => Paged!Forecasts!Init
    /\ Forecasts!Next => Paged!Forecasts!Next
    /\ Paged!Forecasts!QuietForecastIsAsked => Forecasts!QuietForecastIsAsked
<1>1. Forecasts!Init => Paged!Forecasts!Init
  BY DEF Forecasts!Init, Paged!Forecasts!Init, Forecasts!Nothing,
     Paged!Forecasts!Nothing, Forecasts!None, Paged!Forecasts!None
<1>2. Forecasts!Next => Paged!Forecasts!Next
  BY DEF Forecasts!Next, Paged!Forecasts!Next, Forecasts!ChooseWindow,
     Paged!Forecasts!ChooseWindow, Forecasts!HandleInputModeChange,
     Paged!Forecasts!HandleInputModeChange, Forecasts!HandlePresetRun,
     Paged!Forecasts!HandlePresetRun, Forecasts!Rerun, Paged!Forecasts!Rerun,
     Forecasts!Succeeds, Paged!Forecasts!Succeeds, Forecasts!Fails,
     Paged!Forecasts!Fails, Forecasts!Execute, Paged!Forecasts!Execute,
     Forecasts!Nothing, Paged!Forecasts!Nothing, Forecasts!Ends, Paged!Forecasts!Ends,
     Forecasts!Served, Paged!Forecasts!Served, Forecasts!None, Paged!Forecasts!None,
     Forecasts!Busy, Paged!Forecasts!Busy
<1>3. Paged!Forecasts!QuietForecastIsAsked => Forecasts!QuietForecastIsAsked
  BY DEF Forecasts!QuietForecastIsAsked, Paged!Forecasts!QuietForecastIsAsked,
     Forecasts!Busy, Paged!Forecasts!Busy, Forecasts!None, Paged!Forecasts!None
<1> QED BY <1>1, <1>2, <1>3

LEMMA SameAlerts ==
    /\ Alerts!Init => Paged!Alerts!Init
    /\ Alerts!Next => Paged!Alerts!Next
    /\ Paged!Alerts!QuietPageIsServed => Alerts!QuietPageIsServed
    /\ Paged!Alerts!LivePageListsRows => Alerts!LivePageListsRows
<1>1. Alerts!Init => Paged!Alerts!Init
  BY DEF Alerts!Init, Paged!Alerts!Init, Alerts!Tally, Paged!Alerts!Tally, Alerts!Slot,
     Paged!Alerts!Slot, Alerts!Free, Paged!Alerts!Free, Alerts!Status,
     Paged!Alerts!Status, Alerts!Cardinality, Paged!Alerts!Cardinality
<1>2. Alerts!Next => Paged!Alerts!Next
  BY DEF Alerts!Next, Paged!Alerts!Next, Alerts!Raise, Paged!Alerts!Raise, Alerts!Id,
     Paged!Alerts!Id, Alerts!Update, Paged!Alerts!Update, Alerts!Serve,
     Paged!Alerts!Serve, Alerts!Sync, Paged!Alerts!Sync, Alerts!Land,
     Paged!Alerts!Land, Alerts!FetchFails, Paged!Alerts!FetchFails, Alerts!Slot,
     Paged!Alerts!Slot, Alerts!Demo, Paged!Alerts!Demo, Alerts!Act, Paged!Alerts!Act,
     Alerts!ActOnDemo, Paged!Alerts!ActOnDemo, Alerts!Refused, Paged!Alerts!Refused,
     Alerts!Closed, Paged!Alerts!Closed, Alerts!FindAll, Paged!Alerts!FindAll,
     Alerts!Status, Paged!Alerts!Status, Alerts!rows, Paged!Alerts!rows, Alerts!Free,
     Paged!Alerts!Free, Alerts!InFlight, Paged!Alerts!InFlight, Alerts!Tally,
     Paged!Alerts!Tally, Alerts!Offered, Paged!Alerts!Offered, Alerts!Edited,
     Paged!Alerts!Edited, Alerts!Cardinality, Paged!Alerts!Cardinality, Alerts!Filters,
     Paged!Alerts!Filters, Alerts!QueueTable, Paged!Alerts!QueueTable,
     Alerts!RowButtons, Paged!Alerts!RowButtons, Alerts!IncidentsGrid,
     Paged!Alerts!IncidentsGrid, Alerts!CardButtons, Paged!Alerts!CardButtons,
     Alerts!SeverityCapsule, Paged!Alerts!SeverityCapsule, Alerts!FilteredAlerts,
     Paged!Alerts!FilteredAlerts, Alerts!ActiveIncidents, Paged!Alerts!ActiveIncidents,
     Alerts!Severity, Paged!Alerts!Severity
<1>3. Paged!Alerts!QuietPageIsServed => Alerts!QuietPageIsServed
  BY DEF Alerts!QuietPageIsServed, Paged!Alerts!QuietPageIsServed, Alerts!InFlight,
     Paged!Alerts!InFlight, Alerts!Status, Paged!Alerts!Status, Alerts!Tile,
     Paged!Alerts!Tile, Alerts!Cardinality, Paged!Alerts!Cardinality,
     Alerts!FilteredAlerts, Paged!Alerts!FilteredAlerts, Alerts!SeverityCapsule,
     Paged!Alerts!SeverityCapsule, Alerts!SeverityCount, Paged!Alerts!SeverityCount,
     Alerts!Slot, Paged!Alerts!Slot, Alerts!Free, Paged!Alerts!Free, Alerts!Severity,
     Paged!Alerts!Severity
<1>4. Paged!Alerts!LivePageListsRows => Alerts!LivePageListsRows
  BY DEF Alerts!LivePageListsRows, Paged!Alerts!LivePageListsRows
<1> QED BY <1>1, <1>2, <1>3, <1>4

LEMMA SameOverview ==
    /\ Overview!Init => Paged!Overview!Init
    /\ Overview!Next => Paged!Overview!Next
    /\ Paged!Overview!PanelsAgree => Overview!PanelsAgree
<1>1. Overview!Init => Paged!Overview!Init
  BY DEF Overview!Init, Paged!Overview!Init, Overview!Sent, Paged!Overview!Sent
<1>2. Overview!Next => Paged!Overview!Next
  BY DEF Overview!Next, Paged!Overview!Next, Overview!HandleRefreshAll,
     Paged!Overview!HandleRefreshAll, Overview!ClearUploadedLogs,
     Paged!Overview!ClearUploadedLogs, Overview!Serve, Paged!Overview!Serve,
     Overview!Land, Paged!Overview!Land, Overview!Fail, Paged!Overview!Fail,
     Overview!Upload, Paged!Overview!Upload, Overview!Copy, Paged!Overview!Copy,
     Overview!Sent, Paged!Overview!Sent, Overview!AtRest, Paged!Overview!AtRest,
     Overview!Answers, Paged!Overview!Answers, Overview!RemoveAt,
     Paged!Overview!RemoveAt, Overview!Within, Paged!Overview!Within, Overview!Attacks,
     Paged!Overview!Attacks, Overview!Leading, Paged!Overview!Leading, Overview!Newest,
     Paged!Overview!Newest, Overview!Cardinality, Paged!Overview!Cardinality
<1>3. Paged!Overview!PanelsAgree => Overview!PanelsAgree
  BY DEF Overview!PanelsAgree, Paged!Overview!PanelsAgree, Overview!Live,
     Paged!Overview!Live, Overview!Views, Paged!Overview!Views, Overview!Shown,
     Paged!Overview!Shown, Overview!Once, Paged!Overview!Once, Overview!Whole,
     Paged!Overview!Whole, Overview!Synchronised, Paged!Overview!Synchronised,
     Overview!AtRest, Paged!Overview!AtRest, Overview!Taken, Paged!Overview!Taken,
     Overview!Within, Paged!Overview!Within, Overview!Leading, Paged!Overview!Leading,
     Overview!Newest, Paged!Overview!Newest, Overview!Cardinality,
     Paged!Overview!Cardinality, Overview!Groups, Paged!Overview!Groups
<1> QED BY <1>1, <1>2, <1>3

LEMMA SameMap ==
    /\ Map!Init => Paged!Map!Init
    /\ Map!Next => Paged!Map!Next
    /\ Paged!Map!MarkersFitPanel => Map!MarkersFitPanel
    /\ Paged!Map!NumbersCoverMap => Map!NumbersCoverMap
<1>1. Map!Init => Paged!Map!Init
  BY DEF Map!Init, Paged!Map!Init, Map!Sent, Paged!Map!Sent, Map!NoData,
     Paged!Map!NoData, Map!NoFilter, Paged!Map!NoFilter
<1>2. Map!Next => Paged!Map!Next
  BY DEF Map!Next, Paged!Map!Next, Map!HandleRefresh, Paged!Map!HandleRefresh,
     Map!OnFilterChange, Paged!Map!OnFilterChange, Map!ReadOrigins,
     Paged!Map!ReadOrigins, Map!ReadCountries, Paged!Map!ReadCountries,
     Map!ReadSummary, Paged!Map!ReadSummary, Map!Land, Paged!Map!Land, Map!Fail,
     Paged!Map!Fail, Map!NoFilter, Paged!Map!NoFilter, Map!Choose, Paged!Map!Choose,
     Map!Ingest, Paged!Map!Ingest, Map!Sent, Paged!Map!Sent, Map!OriginsOf,
     Paged!Map!OriginsOf, Map!Top, Paged!Map!Top, Map!Origins, Paged!Map!Origins,
     Map!page, Paged!Map!page, Map!Cardinality, Paged!Map!Cardinality, Map!Render,
     Paged!Map!Render, Map!RemoveAt, Paged!Map!RemoveAt, Map!Open, Paged!Map!Open,
     Map!NoData, Paged!Map!NoData, Map!HasOrigins, Paged!Map!HasOrigins
<1>3. Paged!Map!MarkersFitPanel => Map!MarkersFitPanel
  BY DEF Map!MarkersFitPanel, Paged!Map!MarkersFitPanel, Map!Open, Paged!Map!Open,
     Map!Markers, Paged!Map!Markers, Map!Selected, Paged!Map!Selected, Map!HasOrigins,
     Paged!Map!HasOrigins, Map!NoFilter, Paged!Map!NoFilter, Map!OriginsOf,
     Paged!Map!OriginsOf, Map!NoData, Paged!Map!NoData
<1>4. Paged!Map!NumbersCoverMap => Map!NumbersCoverMap
  BY DEF Map!NumbersCoverMap, Paged!Map!NumbersCoverMap, Map!NoData, Paged!Map!NoData,
     Map!Cardinality, Paged!Map!Cardinality, Map!Listed, Paged!Map!Listed
<1> QED BY <1>1, <1>2, <1>3, <1>4

LEMMA SameLogs ==
    /\ Logs!Init => Paged!Logs!Init
    /\ Logs!Next => Paged!Logs!Next
    /\ Paged!Logs!QuietShowsQuery => Logs!QuietShowsQuery
<1>1. Logs!Init => Paged!Logs!Init
  BY DEF Logs!Init, Paged!Logs!Init, Logs!Ask, Paged!Logs!Ask, Logs!NoUpload,
     Paged!Logs!NoUpload
<1>2. Logs!Next => Paged!Logs!Next
  BY DEF Logs!Next, Paged!Logs!Next, Logs!Query, Paged!Logs!Query, Logs!ChangeQuery,
     Paged!Logs!ChangeQuery, Logs!Sync, Paged!Logs!Sync, Logs!ChunkStored,
     Paged!Logs!ChunkStored, Logs!Ingest, Paged!Logs!Ingest, Logs!Answer,
     Paged!Logs!Answer, Logs!Land, Paged!Logs!Land, Logs!Lists, Paged!Logs!Lists,
     Logs!Submit, Paged!Logs!Submit, Logs!OtherTab, Paged!Logs!OtherTab, Logs!Arrive,
     Paged!Logs!Arrive, Logs!CanAsk, Paged!Logs!CanAsk, Logs!AskedAgain,
     Paged!Logs!AskedAgain, Logs!NoUpload, Paged!Logs!NoUpload, Logs!Matching,
     Paged!Logs!Matching, Logs!Displayed, Paged!Logs!Displayed, Logs!Ask,
     Paged!Logs!Ask, Logs!SynchronizedLogs, Paged!Logs!SynchronizedLogs
<1>3. Paged!Logs!QuietShowsQuery => Logs!QuietShowsQuery
  BY DEF Logs!QuietShowsQuery, Paged!Logs!QuietShowsQuery, Logs!SynchronizedLogs,
     Paged!Logs!SynchronizedLogs
<1> QED BY <1>1, <1>2, <1>3

LEMMA SameFilters ==
    /\ Filters!Init => Paged!Filters!Init
    /\ Filters!Next => Paged!Filters!Next
    /\ Paged!Filters!ShownMatches => Filters!ShownMatches
    /\ Paged!Filters!PageHasRows => Filters!PageHasRows
<1>1. Filters!Init => Paged!Filters!Init
  BY DEF Filters!Init, Paged!Filters!Init, Filters!Copies, Paged!Filters!Copies,
     Filters!Cardinality, Paged!Filters!Cardinality
<1>2. Filters!Next => Paged!Filters!Next
  BY DEF Filters!Next, Paged!Filters!Next, Filters!Served, Paged!Filters!Served,
     Filters!FallBack, Paged!Filters!FallBack, Filters!Severity,
     Paged!Filters!Severity, Filters!ClickSeverity, Paged!Filters!ClickSeverity,
     Filters!ClickAll, Paged!Filters!ClickAll, Filters!AllSources,
     Paged!Filters!AllSources, Filters!TypeAddress, Paged!Filters!TypeAddress,
     Filters!PickDates, Paged!Filters!PickDates, Filters!ArrowKey,
     Paged!Filters!ArrowKey, Filters!ToggleSource, Paged!Filters!ToggleSource,
     Filters!Entry, Paged!Filters!Entry, Filters!FilterByIp, Paged!Filters!FilterByIp,
     Filters!TypeSearch, Paged!Filters!TypeSearch, Filters!Debounced,
     Paged!Filters!Debounced, Filters!ClearFilters, Paged!Filters!ClearFilters,
     Filters!Previous, Paged!Filters!Previous, Filters!NextPage,
     Paged!Filters!NextPage, Filters!Sync, Paged!Filters!Sync, Filters!Number,
     Paged!Filters!Number, Filters!SetPerPage, Paged!Filters!SetPerPage,
     Filters!SortBy, Paged!Filters!SortBy, Filters!ValidQuery,
     Paged!Filters!ValidQuery, Filters!Displayed, Paged!Filters!Displayed,
     Filters!Cardinality, Paged!Filters!Cardinality, Filters!Matching,
     Paged!Filters!Matching, Filters!filters, Paged!Filters!filters,
     Filters!Synchronized, Paged!Filters!Synchronized, Filters!SetSeverities,
     Paged!Filters!SetSeverities, Filters!SetSources, Paged!Filters!SetSources,
     Filters!SetPlace, Paged!Filters!SetPlace, Filters!Kinds, Paged!Filters!Kinds,
     Filters!FirstPage, Paged!Filters!FirstPage, Filters!activeFilterCount,
     Paged!Filters!activeFilterCount, Filters!Turn, Paged!Filters!Turn,
     Filters!totalPages, Paged!Filters!totalPages, Filters!Numbers,
     Paged!Filters!Numbers, Filters!Slice, Paged!Filters!Slice, Filters!FirstOf,
     Paged!Filters!FirstOf, Filters!Passes, Paged!Filters!Passes, Filters!NoFilters,
     Paged!Filters!NoFilters, Filters!AtRest, Paged!Filters!AtRest
<1>3. Paged!Filters!ShownMatches => Filters!ShownMatches
  BY DEF Filters!ShownMatches, Paged!Filters!ShownMatches, Filters!AtRest,
     Paged!Filters!AtRest, Filters!Passes, Paged!Filters!Passes, Filters!NoFilters,
     Paged!Filters!NoFilters, Filters!activeFilterCount,
     Paged!Filters!activeFilterCount, Filters!Cardinality, Paged!Filters!Cardinality
<1>4. Paged!Filters!PageHasRows => Filters!PageHasRows
  BY DEF Filters!PageHasRows, Paged!Filters!PageHasRows, Filters!AtRest,
     Paged!Filters!AtRest, Filters!Matching, Paged!Filters!Matching, Filters!Passes,
     Paged!Filters!Passes
<1> QED BY <1>1, <1>2, <1>3, <1>4

LEMMA SameThreats ==
    /\ Threats!Init => Paged!Threats!Init
    /\ Threats!Next => Paged!Threats!Next
    /\ Paged!Threats!CountsMatchEntities => Threats!CountsMatchEntities
    /\ Paged!Threats!PageShowsSomething => Threats!PageShowsSomething
<1>1. Threats!Init => Paged!Threats!Init
  BY DEF Threats!Init, Paged!Threats!Init, Threats!Sent, Paged!Threats!Sent,
     Threats!Counts, Paged!Threats!Counts, Threats!All, Paged!Threats!All,
     Threats!Idle, Paged!Threats!Idle, Threats!Category, Paged!Threats!Category,
     Threats!Cardinality, Paged!Threats!Cardinality, Threats!Of, Paged!Threats!Of
<1>2. Threats!Next => Paged!Threats!Next
  BY DEF Threats!Next, Paged!Threats!Next, Threats!Sync, Paged!Threats!Sync,
     Threats!ReadRows, Paged!Threats!ReadRows, Threats!ReadScores,
     Paged!Threats!ReadScores, Threats!FetchThreats, Paged!Threats!FetchThreats,
     Threats!FetchFails, Paged!Threats!FetchFails, Threats!Score, Paged!Threats!Score,
     Threats!Category, Paged!Threats!Category, Threats!All, Paged!Threats!All,
     Threats!SetCategoryFilter, Paged!Threats!SetCategoryFilter,
     Threats!SetSearchQuery, Paged!Threats!SetSearchQuery, Threats!SetSortBy,
     Paged!Threats!SetSortBy, Threats!View, Paged!Threats!View, Threats!SetViewMode,
     Paged!Threats!SetViewMode, Threats!Previous, Paged!Threats!Previous,
     Threats!NextPage, Paged!Threats!NextPage, Threats!Sent, Paged!Threats!Sent,
     Threats!Cardinality, Paged!Threats!Cardinality, Threats!Show, Paged!Threats!Show,
     Threats!Counts, Paged!Threats!Counts, Threats!Set, Paged!Threats!Set,
     Threats!Turn, Paged!Threats!Turn, Threats!TotalPages, Paged!Threats!TotalPages,
     Threats!Idle, Paged!Threats!Idle, Threats!Of, Paged!Threats!Of, Threats!Filtered,
     Paged!Threats!Filtered, Threats!Pages, Paged!Threats!Pages
<1>3. Paged!Threats!CountsMatchEntities => Threats!CountsMatchEntities
  BY DEF Threats!CountsMatchEntities, Paged!Threats!CountsMatchEntities,
     Threats!Category, Paged!Threats!Category, Threats!All, Paged!Threats!All,
     Threats!Cardinality, Paged!Threats!Cardinality, Threats!Of, Paged!Threats!Of,
     Threats!Capsule, Paged!Threats!Capsule, Threats!Tiles, Paged!Threats!Tiles,
     Threats!Distribution, Paged!Threats!Distribution, Threats!CategoryCount,
     Paged!Threats!CategoryCount
<1>4. Paged!Threats!PageShowsSomething => Threats!PageShowsSomething
  BY DEF Threats!PageShowsSomething, Paged!Threats!PageShowsSomething,
     Threats!Filtered, Paged!Threats!Filtered, Threats!Cards, Paged!Threats!Cards,
     Threats!MatrixTable, Paged!Threats!MatrixTable, Threats!Cardinality,
     Paged!Threats!Cardinality, Threats!Footer, Paged!Threats!Footer, Threats!Of,
     Paged!Threats!Of, Threats!paginatedEntities, Paged!Threats!paginatedEntities,
     Threats!All, Paged!Threats!All
<1> QED BY <1>1, <1>2, <1>3, <1>4

LEMMA SameFound ==
    /\ Forecast!Seen = Paged!Forecast(v1)!Seen
    /\ Forecast!Found = Paged!Forecast(v1)!Found
<1>1. Forecast!Seen = Paged!Forecast(v1)!Seen
  BY DEF Forecast!Seen, Paged!Forecast!Seen, Forecast!Kind, Paged!Forecast!Kind
<1>2. Forecast!BruteForce = Paged!Forecast(v1)!BruteForce
  BY DEF Forecast!BruteForce, Paged!Forecast!BruteForce, Forecast!Many,
     Paged!Forecast!Many, Forecast!Of, Paged!Forecast!Of, Forecast!Where,
     Paged!Forecast!Where, Forecast!Max, Paged!Forecast!Max, Forecast!Attack,
     Paged!Forecast!Attack, Forecast!BruteForceChance, Paged!Forecast!BruteForceChance,
     Forecast!Level, Paged!Forecast!Level, Forecast!Cardinality,
     Paged!Forecast!Cardinality, Forecast!Seen, Paged!Forecast!Seen, Forecast!Least,
     Paged!Forecast!Least, Forecast!Kind, Paged!Forecast!Kind
<1>3. Forecast!ReconExploit = Paged!Forecast(v1)!ReconExploit
  BY DEF Forecast!ReconExploit, Paged!Forecast!ReconExploit, Forecast!Many,
     Paged!Forecast!Many, Forecast!Of, Paged!Forecast!Of, Forecast!Where,
     Paged!Forecast!Where, Forecast!Attack, Paged!Forecast!Attack, Forecast!Level,
     Paged!Forecast!Level, Forecast!Never, Paged!Forecast!Never, Forecast!Cardinality,
     Paged!Forecast!Cardinality, Forecast!Seen, Paged!Forecast!Seen, Forecast!Least,
     Paged!Forecast!Least, Forecast!Kind, Paged!Forecast!Kind
<1>4. Forecast!GeographicAnomaly = Paged!Forecast(v1)!GeographicAnomaly
  BY DEF Forecast!GeographicAnomaly, Paged!Forecast!GeographicAnomaly,
     Forecast!Cardinality, Paged!Forecast!Cardinality, Forecast!Where,
     Paged!Forecast!Where, Forecast!Risky, Paged!Forecast!Risky, Forecast!Attack,
     Paged!Forecast!Attack, Forecast!Share, Paged!Forecast!Share, Forecast!Level,
     Paged!Forecast!Level, Forecast!Seen, Paged!Forecast!Seen, Forecast!Least,
     Paged!Forecast!Least, Forecast!Many, Paged!Forecast!Many, Forecast!Kind,
     Paged!Forecast!Kind
<1>5. Forecast!DdosBuildup = Paged!Forecast(v1)!DdosBuildup
  BY DEF Forecast!DdosBuildup, Paged!Forecast!DdosBuildup, Forecast!Many,
     Paged!Forecast!Many, Forecast!Seen, Paged!Forecast!Seen, Forecast!Cardinality,
     Paged!Forecast!Cardinality, Forecast!Where, Paged!Forecast!Where, Forecast!Least,
     Paged!Forecast!Least, Forecast!Share, Paged!Forecast!Share, Forecast!Denied,
     Paged!Forecast!Denied, Forecast!Attack, Paged!Forecast!Attack, Forecast!Level,
     Paged!Forecast!Level, Forecast!Kind, Paged!Forecast!Kind
<1>6. Forecast!DataExfiltration = Paged!Forecast(v1)!DataExfiltration
  BY DEF Forecast!DataExfiltration, Paged!Forecast!DataExfiltration, Forecast!Many,
     Paged!Forecast!Many, Forecast!Of, Paged!Forecast!Of, Forecast!OffHours,
     Paged!Forecast!OffHours, Forecast!Where, Paged!Forecast!Where, Forecast!Seen,
     Paged!Forecast!Seen, Forecast!Attack, Paged!Forecast!Attack, Forecast!Least,
     Paged!Forecast!Least, Forecast!Cardinality, Paged!Forecast!Cardinality,
     Forecast!Level, Paged!Forecast!Level, Forecast!Never, Paged!Forecast!Never,
     Forecast!Kind, Paged!Forecast!Kind
<1>7. Forecast!InsiderThreat = Paged!Forecast(v1)!InsiderThreat
  BY DEF Forecast!InsiderThreat, Paged!Forecast!InsiderThreat, Forecast!Many,
     Paged!Forecast!Many, Forecast!Of, Paged!Forecast!Of, Forecast!OffHours,
     Paged!Forecast!OffHours, Forecast!Cardinality, Paged!Forecast!Cardinality,
     Forecast!Where, Paged!Forecast!Where, Forecast!Users, Paged!Forecast!Users,
     Forecast!Attack, Paged!Forecast!Attack, Forecast!Least, Paged!Forecast!Least,
     Forecast!Level, Paged!Forecast!Level, Forecast!Never, Paged!Forecast!Never,
     Forecast!Seen, Paged!Forecast!Seen, Forecast!Kind, Paged!Forecast!Kind
<1>8. Forecast!MalwarePropagation = Paged!Forecast(v1)!MalwarePropagation
  BY DEF Forecast!MalwarePropagation, Paged!Forecast!MalwarePropagation,
     Forecast!Cardinality, Paged!Forecast!Cardinality, Forecast!Where,
     Paged!Forecast!Where, Forecast!Of, Paged!Forecast!Of, Forecast!Attack,
     Paged!Forecast!Attack, Forecast!Level, Paged!Forecast!Level, Forecast!Seen,
     Paged!Forecast!Seen, Forecast!Least, Paged!Forecast!Least, Forecast!Kind,
     Paged!Forecast!Kind
<1>9. Forecast!ZeroDay = Paged!Forecast(v1)!ZeroDay
  BY DEF Forecast!ZeroDay, Paged!Forecast!ZeroDay, Forecast!Many, Paged!Forecast!Many,
     Forecast!Severe, Paged!Forecast!Severe, Forecast!Of, Paged!Forecast!Of,
     Forecast!Critical, Paged!Forecast!Critical, Forecast!Attack,
     Paged!Forecast!Attack, Forecast!Share, Paged!Forecast!Share, Forecast!Least,
     Paged!Forecast!Least, Forecast!Level, Paged!Forecast!Level, Forecast!Cardinality,
     Paged!Forecast!Cardinality, Forecast!Seen, Paged!Forecast!Seen, Forecast!Kind,
     Paged!Forecast!Kind
<1> QED BY <1>1, <1>2, <1>3, <1>4, <1>5, <1>6, <1>7, <1>8, <1>9
       DEF Forecast!Found, Paged!Forecast!Found

LEMMA SameForecast ==
    /\ Forecast!Init => Paged!Forecast(v1)!Init
    /\ Forecast!Next => Paged!Forecast(v1)!Next
    /\ Paged!Forecast(v1)!ThreeToEight => Forecast!ThreeToEight
<1>1. Forecast!Init => Paged!Forecast(v1)!Init
  BY DEF Forecast!Init, Paged!Forecast!Init, Forecast!Kind, Paged!Forecast!Kind
<1>2. Forecast!Next => Paged!Forecast(v1)!Next
  BY DEF Forecast!Next, Paged!Forecast!Next, Forecast!Kind, Paged!Forecast!Kind,
     Forecast!Add, Paged!Forecast!Add
<1>3. Paged!Forecast(v1)!ThreeToEight => Forecast!ThreeToEight
  <2>1. \A P : Forecast!Padding(P) = Paged!Forecast(v1)!Padding(P)
    BY DEF Forecast!Padding, Paged!Forecast!Padding, Forecast!Baseline,
       Paged!Forecast!Baseline, Forecast!Missing, Paged!Forecast!Missing,
       Forecast!Cardinality, Paged!Forecast!Cardinality, Forecast!Attack,
       Paged!Forecast!Attack, Forecast!Many, Paged!Forecast!Many, Forecast!Of,
       Paged!Forecast!Of, Forecast!Share, Paged!Forecast!Share, Forecast!Denied,
       Paged!Forecast!Denied, Forecast!Risky, Paged!Forecast!Risky, Forecast!Severe,
       Paged!Forecast!Severe, Forecast!Attacks, Paged!Forecast!Attacks, Forecast!Least,
       Paged!Forecast!Least, Forecast!Seen, Paged!Forecast!Seen, Forecast!Kind,
       Paged!Forecast!Kind
  <2>2. Forecast!Predictions = Paged!Forecast(v1)!Predictions
    BY <2>1, SameFound DEF Forecast!Predictions, Paged!Forecast!Predictions
  <2>3. \A P : /\ Forecast!Attacks(P) = Paged!Forecast(v1)!Attacks(P)
               /\ Forecast!Cardinality(P) = Paged!Forecast(v1)!Cardinality(P)
    BY DEF Forecast!Attacks, Paged!Forecast!Attacks, Forecast!Cardinality,
       Paged!Forecast!Cardinality
  <2> QED BY <2>2, <2>3, SameFound DEF Forecast!ThreeToEight, Paged!Forecast!ThreeToEight
<1> QED BY <1>1, <1>2, <1>3

LEMMA SameStands == Paged!Forecast(v1)!Stands => Forecast!Stands
<1>1. (/\ Forecast!Seen = Paged!Forecast(v1)!Seen
       /\ Forecast!Found = Paged!Forecast(v1)!Found)'
  BY SameFound, PTL
<1>2. Forecast!Found' = Paged!Forecast(v1)!Found'
  BY <1>1
<1>3. /\ Forecast!Counted = Paged!Forecast(v1)!Counted
      /\ \A p, q : Forecast!NoWorse(p, q) <=> Paged!Forecast(v1)!NoWorse(p, q)
  BY DEF Forecast!Counted, Paged!Forecast!Counted, Forecast!NoWorse, Paged!Forecast!NoWorse, Forecast!Severity,
     Paged!Forecast!Severity
<1> QED BY <1>2, <1>3, SameFound DEF Forecast!Stands, Paged!Forecast!Stands

LEMMA SameScores ==
    /\ Scores!Init => Operated!Scores!Init
    /\ Scores!Next => Operated!Scores!Next
    /\ Operated!Scores!AlertHasCause => Scores!AlertHasCause
<1>1. Scores!Init => Operated!Scores!Init
  BY DEF Scores!Init, Operated!Scores!Init
<1>2. Scores!Next => Operated!Scores!Next
  BY DEF Scores!Next, Operated!Scores!Next, Scores!Domain, Operated!Scores!Domain,
     Scores!Change, Operated!Scores!Change,
     Scores!Severity, Operated!Scores!Severity
<1>3. Operated!Scores!AlertHasCause => Scores!AlertHasCause
  <2>1. \A p : Scores!PortRisk(p) = Operated!Scores!PortRisk(p)
    BY DEF Scores!PortRisk, Operated!Scores!PortRisk, Scores!KnownPorts,
       Operated!Scores!KnownPorts
  <2>2. Scores!ThreatScore = Operated!Scores!ThreatScore
    BY <2>1 DEF Scores!ThreatScore, Operated!Scores!ThreatScore, Scores!Rounded,
       Operated!Scores!Rounded, Scores!Raw, Operated!Scores!Raw, Scores!CountryRisk,
       Operated!Scores!CountryRisk, Scores!SeverityRisk, Operated!Scores!SeverityRisk
  <2>3. \A c : Scores!Holds(c) = Operated!Scores!Holds(c)
    BY <2>1 DEF Scores!Holds, Operated!Scores!Holds
  <2>4. Scores!Heuristics = Operated!Scores!Heuristics
    BY <2>3 DEF Scores!Heuristics, Operated!Scores!Heuristics, Scores!Cause,
       Operated!Scores!Cause
  <2>5. \A S : Scores!Cardinality(S) = Operated!Scores!Cardinality(S)
    BY DEF Scores!Cardinality, Operated!Scores!Cardinality
  <2>6. Scores!NamedReasons = Operated!Scores!NamedReasons
    BY <2>4, <2>5 DEF Scores!NamedReasons, Operated!Scores!NamedReasons
  <2> QED
    BY <2>2, <2>6 DEF Scores!AlertHasCause, Operated!Scores!AlertHasCause,
       Scores!IsAnomaly, Operated!Scores!IsAnomaly, Scores!NeedsAlert,
       Operated!Scores!NeedsAlert, Scores!AlertThreshold,
       Operated!Scores!AlertThreshold
<1> QED BY <1>1, <1>2, <1>3

LEMMA SameIntake ==
    /\ Intake!Init => Operated!Intake!Init
    /\ Intake!Next => Operated!Intake!Next
    /\ Operated!Intake!SendersFitValidators => Intake!SendersFitValidators
    /\ Operated!Intake!WindowsAlerts => Intake!WindowsAlerts
    /\ Operated!Intake!ClaimsDoNotAlert => Intake!ClaimsDoNotAlert
<1>1. \A l, a : Intake!ThreatOf(l, a) = Operated!Intake!ThreatOf(l, a)
  BY DEF Intake!ThreatOf, Operated!Intake!ThreatOf, Intake!Seen, Operated!Intake!Seen,
     Intake!PortNumber, Operated!Intake!PortNumber, Intake!Verdict!ThreatScore,
     Operated!Intake!Verdict!ThreatScore, Intake!Verdict!Rounded,
     Operated!Intake!Verdict!Rounded, Intake!Verdict!Raw, Operated!Intake!Verdict!Raw,
     Intake!Verdict!PortRisk, Operated!Intake!Verdict!PortRisk,
     Intake!Verdict!CountryRisk, Operated!Intake!Verdict!CountryRisk,
     Intake!Verdict!SeverityRisk, Operated!Intake!Verdict!SeverityRisk,
     Intake!Verdict!KnownPorts, Operated!Intake!Verdict!KnownPorts
<1>2. Intake!Init => Operated!Intake!Init
  BY DEF Intake!Init, Operated!Intake!Init, Intake!NoLog, Operated!Intake!NoLog,
     Intake!NoAlert, Operated!Intake!NoAlert
<1>3. Intake!Next => Operated!Intake!Next
  <2>1. Intake!TakeNext => Operated!Intake!TakeNext
    BY DEF Intake!TakeNext, Operated!Intake!TakeNext, Intake!NoLog,
       Operated!Intake!NoLog, Intake!NoAlert, Operated!Intake!NoAlert
  <2>2. Intake!Collect => Operated!Intake!Collect
    <3>1. Intake!Windows = Operated!Intake!Windows
      BY DEF Intake!Windows, Operated!Intake!Windows, Intake!Queried,
         Operated!Intake!Queried, Intake!Means, Operated!Intake!Means
    <3>2. \A p : Intake!SanitizedPort(p) = Operated!Intake!SanitizedPort(p)
      BY DEF Intake!SanitizedPort, Operated!Intake!SanitizedPort, Intake!PortNumber,
         Operated!Intake!PortNumber
    <3>3. Intake!LogonPort = Operated!Intake!LogonPort
      BY DEF Intake!LogonPort, Operated!Intake!LogonPort
    <3>4. ASSUME NEW id, NEW logon, NEW p
          PROVE  Intake!Normalized(id, logon, p) = Operated!Intake!Normalized(id, logon, p)
      <4>1. Intake!Windows[id] = Operated!Intake!Windows[id]
        BY <3>1
      <4>2. Intake!SanitizedPort(p) = Operated!Intake!SanitizedPort(p)
        BY <3>2
      <4>3. Intake!LogonPort[logon] = Operated!Intake!LogonPort[logon]
        BY <3>3
      <4> QED BY <4>1, <4>2, <4>3 DEF Intake!Normalized, Operated!Intake!Normalized
    <3>5. Intake!Queried = Operated!Intake!Queried /\ Intake!NoPort = Operated!Intake!NoPort
      BY DEF Intake!Queried, Operated!Intake!Queried, Intake!NoPort, Operated!Intake!NoPort
    <3> QED
      BY <3>3, <3>4, <3>5 DEF Intake!Collect, Operated!Intake!Collect, Intake!Send,
         Operated!Intake!Send
  <2>3. Intake!SubmitForm => Operated!Intake!SubmitForm
    BY DEF Intake!SubmitForm, Operated!Intake!SubmitForm, Intake!FormLogs,
       Operated!Intake!FormLogs, Intake!Send, Operated!Intake!Send, Intake!FormEvents,
       Operated!Intake!FormEvents, Intake!Action, Operated!Intake!Action,
       Intake!Severity, Operated!Intake!Severity, Intake!Source, Operated!Intake!Source
  <2>4. Intake!Upload => Operated!Intake!Upload
    BY DEF Intake!Upload, Operated!Intake!Upload, Intake!Written,
       Operated!Intake!Written, Intake!NoPort, Operated!Intake!NoPort, Intake!Send,
       Operated!Intake!Send, Intake!Cleaned, Operated!Intake!Cleaned, Intake!Or,
       Operated!Intake!Or, Intake!NumberOr0, Operated!Intake!NumberOr0
  <2>5. Intake!PostDirectly => Operated!Intake!PostDirectly
    BY DEF Intake!PostDirectly, Operated!Intake!PostDirectly, Intake!Written,
       Operated!Intake!Written, Intake!NoPort, Operated!Intake!NoPort, Intake!Send,
       Operated!Intake!Send
  <2>6. Intake!Receive => Operated!Intake!Receive
    BY DEF Intake!Receive, Operated!Intake!Receive, Intake!Accepted,
       Operated!Intake!Accepted, Intake!Action, Operated!Intake!Action,
       Intake!Severity, Operated!Intake!Severity, Intake!Source,
       Operated!Intake!Source, Intake!Row, Operated!Intake!Row, Intake!NumberOr0,
       Operated!Intake!NumberOr0, Intake!NoPort, Operated!Intake!NoPort
  <2>7. \A l : Intake!EntryValid(l) = Operated!Intake!EntryValid(l)
    BY DEF Intake!EntryValid, Operated!Intake!EntryValid, Intake!PortNumber,
       Operated!Intake!PortNumber
  <2>8. Intake!GoWithout => Operated!Intake!GoWithout
    BY <2>7 DEF Intake!GoWithout, Operated!Intake!GoWithout
  <2>9. Intake!Stumble => Operated!Intake!Stumble
    BY DEF Intake!Stumble, Operated!Intake!Stumble
  <2>10. \A x : /\ Intake!NeedsAlert(x) = Operated!Intake!NeedsAlert(x)
                /\ Intake!SeverityOf(x) = Operated!Intake!SeverityOf(x)
                /\ Intake!AlertTypeOf(x) = Operated!Intake!AlertTypeOf(x)
    BY DEF Intake!NeedsAlert, Operated!Intake!NeedsAlert, Intake!AlertThreshold,
       Operated!Intake!AlertThreshold, Intake!SeverityOf, Operated!Intake!SeverityOf,
       Intake!AlertTypeOf, Operated!Intake!AlertTypeOf
  <2>11. ASSUME NEW a \in Outlier PROVE Intake!Judge(a) => Operated!Intake!Judge(a)
    BY <1>1, <2>7, <2>10 DEF Intake!Judge, Operated!Intake!Judge
  <2> QED BY <2>1, <2>2, <2>3, <2>4, <2>5, <2>6, <2>8, <2>9, <2>11
          DEF Intake!Next, Operated!Intake!Next
<1>4. Operated!Intake!SendersFitValidators => Intake!SendersFitValidators
  <2>1. Intake!PortNumber = Operated!Intake!PortNumber
    BY DEF Intake!PortNumber, Operated!Intake!PortNumber
  <2> QED BY <2>1 DEF Intake!SendersFitValidators, Operated!Intake!SendersFitValidators
<1>5. Operated!Intake!WindowsAlerts => Intake!WindowsAlerts
  BY <1>1 DEF Intake!WindowsAlerts, Operated!Intake!WindowsAlerts, Intake!NoAlert,
     Operated!Intake!NoAlert,
     Intake!NeedsAlert, Operated!Intake!NeedsAlert,
     Intake!AlertThreshold, Operated!Intake!AlertThreshold
<1>6. Operated!Intake!ClaimsDoNotAlert => Intake!ClaimsDoNotAlert
  BY DEF Intake!ClaimsDoNotAlert, Operated!Intake!ClaimsDoNotAlert, Intake!NoAlert,
     Operated!Intake!NoAlert,
     Intake!NeedsAlert, Operated!Intake!NeedsAlert,
     Intake!AlertThreshold, Operated!Intake!AlertThreshold
<1> QED BY <1>2, <1>3, <1>4, <1>5, <1>6

(* A behaviour stays with its component. *)
LEMMA OneComponent ==
  ASSUME [TelemetryNext]_TelemetryVars
  PROVE  /\ which' = which
         /\ which = "Models" => Models!Next \/ UNCHANGED <<v1, v2, v3, v4, v5, v6, v7>>
         /\ which = "Launch" =>
              Launch!Next \/ UNCHANGED <<v1, v2, v3, v4, v5, v6, v7, v8, v9>>
         /\ which = "Seeding" => Seeding!Next \/ UNCHANGED <<v1, v2, v3, v4, v5, v6, v7, v8>>
         /\ which = "Scores" => Scores!Next \/ UNCHANGED v1
         /\ which = "Intake" => Intake!Next \/ UNCHANGED <<v1, v2, v3, v4>>
         /\ which = "Settings" => Settings!Next \/ UNCHANGED <<v1, v2, v3, v4, v5, v6, v7, v8, v9>>
         /\ which = "Forecasts" => Forecasts!Next \/ UNCHANGED <<v1, v2, v3, v4, v5, v6, v7, v8>>
         /\ which = "Alerts" => Alerts!Next \/ UNCHANGED <<v1, v2, v3, v4, v5, v6, v7, v8>>
         /\ which = "Overview" => Overview!Next \/ UNCHANGED <<v1, v2, v3, v4, v5, v6>>
         /\ which = "Map" => Map!Next \/ UNCHANGED <<v1, v2, v3, v4, v5, v6, v7>>
         /\ which = "Logs" => Logs!Next \/ UNCHANGED <<v1, v2, v3, v4, v5, v6, v7>>
         /\ which = "Filters" =>
               Filters!Next \/ UNCHANGED <<v1, v2, v3, v4, v5, v6, v7, v8, v9, v10, v11>>
         /\ which = "Forecast" => Forecast!Next \/ UNCHANGED v1
         /\ which = "Threats" =>
               Threats!Next \/ UNCHANGED <<v1, v2, v3, v4, v5, v6, v7, v8, v9, v10, v11, v12>>
  BY DEF TelemetryNext, TelemetryVars

-------------------------------------------------------------------------------
(* The invariant of each component, of the behaviours of that component.   *)
LEMMA ModelsInvHolds == TelemetrySpec => [](which = "Models" => Operated!ModelInv)
<1>1. TelemetryInit => (which = "Models" => Operated!ModelInv)
  <2>1. TelemetryInit /\ which = "Models" => Models!Init
    BY DEF TelemetryInit
  <2> QED BY <2>1, SameModels, TelemetryAssumption, Operated!ModelInit
<1>2. (which = "Models" => Operated!ModelInv) /\ [TelemetryNext]_TelemetryVars
        => (which = "Models" => Operated!ModelInv)'
  <2> SUFFICES ASSUME which = "Models" => Operated!ModelInv, [TelemetryNext]_TelemetryVars,
                      which' = "Models"
               PROVE  Operated!ModelInv'
    OBVIOUS
  <2>1. [Operated!Models!Next]_(Operated!Models!vars)
    BY OneComponent, SameModels DEF Operated!Models!vars
  <2> QED BY <2>1, OneComponent, TelemetryAssumption, Operated!ModelNext
<1> QED BY <1>1, <1>2, PTL DEF TelemetrySpec

LEMMA LaunchInvHolds == TelemetrySpec => [](which = "Launch" => Operated!LaunchInv)
<1>1. TelemetryInit => (which = "Launch" => Operated!LaunchInv)
  <2>1. TelemetryInit /\ which = "Launch" => Launch!Init
    BY DEF TelemetryInit
  <2> QED BY <2>1, SameLaunch, Assumed, Operated!LaunchInit
<1>2. (which = "Launch" => Operated!LaunchInv) /\ [TelemetryNext]_TelemetryVars
        => (which = "Launch" => Operated!LaunchInv)'
  <2> SUFFICES ASSUME which = "Launch" => Operated!LaunchInv, [TelemetryNext]_TelemetryVars,
                      which' = "Launch"
               PROVE  Operated!LaunchInv'
    OBVIOUS
  <2>1. [Operated!Launch!Next]_(Operated!Launch!vars)
    BY OneComponent, SameLaunch DEF Operated!Launch!vars
  <2> QED BY <2>1, OneComponent, Assumed, Operated!LaunchNext
<1> QED BY <1>1, <1>2, PTL DEF TelemetrySpec

LEMMA SeedingInvHolds == TelemetrySpec => [](which = "Seeding" => Operated!SeedInv)
<1>1. TelemetryInit => (which = "Seeding" => Operated!SeedInv)
  <2>1. TelemetryInit /\ which = "Seeding" => Seeding!Init
    BY DEF TelemetryInit
  <2> QED BY <2>1, SameSeeding, Assumed, Operated!SeedInit
<1>2. (which = "Seeding" => Operated!SeedInv) /\ [TelemetryNext]_TelemetryVars
        => (which = "Seeding" => Operated!SeedInv)'
  <2> SUFFICES ASSUME which = "Seeding" => Operated!SeedInv, [TelemetryNext]_TelemetryVars,
                      which' = "Seeding"
               PROVE  Operated!SeedInv'
    OBVIOUS
  <2>1. [Operated!Seeding!Next]_(Operated!Seeding!vars)
    BY OneComponent, SameSeeding DEF Operated!Seeding!vars
  <2> QED BY <2>1, OneComponent, Assumed, Operated!SeedNext
<1> QED BY <1>1, <1>2, PTL DEF TelemetrySpec

LEMMA SettingsInvHolds == TelemetrySpec => [](which = "Settings" => Paged!SettingsInv)
<1>1. TelemetryInit => (which = "Settings" => Paged!SettingsInv)
  <2>1. TelemetryInit /\ which = "Settings" => Settings!Init
    BY DEF TelemetryInit
  <2> QED BY <2>1, SameSettings, Assumed, Paged!SettingsInit
<1>2. (which = "Settings" => Paged!SettingsInv) /\ [TelemetryNext]_TelemetryVars
        => (which = "Settings" => Paged!SettingsInv)'
  <2> SUFFICES ASSUME which = "Settings" => Paged!SettingsInv, [TelemetryNext]_TelemetryVars,
                      which' = "Settings"
               PROVE  Paged!SettingsInv'
    OBVIOUS
  <2>1. [Paged!Settings!Next]_(Paged!Settings!vars)
    BY OneComponent, SameSettings DEF Paged!Settings!vars
  <2> QED BY <2>1, OneComponent, Assumed, Paged!SettingsNext
<1> QED BY <1>1, <1>2, PTL DEF TelemetrySpec

LEMMA ForecastsInvHolds == TelemetrySpec => [](which = "Forecasts" => Paged!ForecastsInv)
<1>1. TelemetryInit => (which = "Forecasts" => Paged!ForecastsInv)
  <2>1. TelemetryInit /\ which = "Forecasts" => Forecasts!Init
    BY DEF TelemetryInit
  <2> QED BY <2>1, SameForecasts, Assumed, Paged!ForecastsInit
<1>2. (which = "Forecasts" => Paged!ForecastsInv) /\ [TelemetryNext]_TelemetryVars
        => (which = "Forecasts" => Paged!ForecastsInv)'
  <2> SUFFICES ASSUME which = "Forecasts" => Paged!ForecastsInv, [TelemetryNext]_TelemetryVars,
                      which' = "Forecasts"
               PROVE  Paged!ForecastsInv'
    OBVIOUS
  <2>1. [Paged!Forecasts!Next]_(Paged!Forecasts!vars)
    BY OneComponent, SameForecasts DEF Paged!Forecasts!vars
  <2> QED BY <2>1, OneComponent, Assumed, Paged!ForecastsNext
<1> QED BY <1>1, <1>2, PTL DEF TelemetrySpec

LEMMA AlertsInvHolds == TelemetrySpec => [](which = "Alerts" => Paged!AlertsInv)
<1>1. TelemetryInit => (which = "Alerts" => Paged!AlertsInv)
  <2>1. TelemetryInit /\ which = "Alerts" => Alerts!Init
    BY DEF TelemetryInit
  <2> QED BY <2>1, SameAlerts, Assumed, Paged!AlertsInitInv
<1>2. (which = "Alerts" => Paged!AlertsInv) /\ [TelemetryNext]_TelemetryVars
        => (which = "Alerts" => Paged!AlertsInv)'
  <2> SUFFICES ASSUME which = "Alerts" => Paged!AlertsInv, [TelemetryNext]_TelemetryVars,
                      which' = "Alerts"
               PROVE  Paged!AlertsInv'
    OBVIOUS
  <2>1. [Paged!Alerts!Next]_(Paged!Alerts!vars)
    BY OneComponent, SameAlerts DEF Paged!Alerts!vars
  <2> QED BY <2>1, OneComponent, Assumed, Paged!AlertsNext
<1> QED BY <1>1, <1>2, PTL DEF TelemetrySpec

LEMMA OverviewInvHolds == TelemetrySpec => [](which = "Overview" => Paged!OverviewInv)
<1>1. TelemetryInit => (which = "Overview" => Paged!OverviewInv)
  <2>1. TelemetryInit /\ which = "Overview" => Overview!Init
    BY DEF TelemetryInit
  <2> QED BY <2>1, SameOverview, Assumed, Paged!OverviewInit
<1>2. (which = "Overview" => Paged!OverviewInv) /\ [TelemetryNext]_TelemetryVars
        => (which = "Overview" => Paged!OverviewInv)'
  <2> SUFFICES ASSUME which = "Overview" => Paged!OverviewInv, [TelemetryNext]_TelemetryVars,
                      which' = "Overview"
               PROVE  Paged!OverviewInv'
    OBVIOUS
  <2>1. [Paged!Overview!Next]_(Paged!Overview!vars)
    BY OneComponent, SameOverview DEF Paged!Overview!vars
  <2> QED BY <2>1, OneComponent, Assumed, Paged!OverviewNext
<1> QED BY <1>1, <1>2, PTL DEF TelemetrySpec

LEMMA MapInvHolds == TelemetrySpec => [](which = "Map" => Paged!MapInv)
<1>1. TelemetryInit => (which = "Map" => Paged!MapInv)
  <2>1. TelemetryInit /\ which = "Map" => Map!Init
    BY DEF TelemetryInit
  <2> QED BY <2>1, SameMap, Assumed, Paged!MapInit
<1>2. (which = "Map" => Paged!MapInv) /\ [TelemetryNext]_TelemetryVars
        => (which = "Map" => Paged!MapInv)'
  <2> SUFFICES ASSUME which = "Map" => Paged!MapInv, [TelemetryNext]_TelemetryVars,
                      which' = "Map"
               PROVE  Paged!MapInv'
    OBVIOUS
  <2>1. [Paged!Map!Next]_(Paged!Map!vars)
    BY OneComponent, SameMap DEF Paged!Map!vars
  <2> QED BY <2>1, OneComponent, Assumed, Paged!MapNext
<1> QED BY <1>1, <1>2, PTL DEF TelemetrySpec

LEMMA LogsInvHolds == TelemetrySpec => [](which = "Logs" => Paged!LogsInv)
<1>1. TelemetryInit => (which = "Logs" => Paged!LogsInv)
  <2>1. TelemetryInit /\ which = "Logs" => Logs!Init
    BY DEF TelemetryInit
  <2> QED BY <2>1, SameLogs, Assumed, Paged!LogsInit
<1>2. (which = "Logs" => Paged!LogsInv) /\ [TelemetryNext]_TelemetryVars
        => (which = "Logs" => Paged!LogsInv)'
  <2> SUFFICES ASSUME which = "Logs" => Paged!LogsInv, [TelemetryNext]_TelemetryVars,
                      which' = "Logs"
               PROVE  Paged!LogsInv'
    OBVIOUS
  <2>1. [Paged!Logs!Next]_(Paged!Logs!vars)
    BY OneComponent, SameLogs DEF Paged!Logs!vars
  <2> QED BY <2>1, OneComponent, Assumed, Paged!LogsNext
<1> QED BY <1>1, <1>2, PTL DEF TelemetrySpec

LEMMA FiltersInvHolds == TelemetrySpec => [](which = "Filters" => Paged!FiltersInv)
<1>1. TelemetryInit => (which = "Filters" => Paged!FiltersInv)
  <2>1. TelemetryInit /\ which = "Filters" => Filters!Init
    BY DEF TelemetryInit
  <2> QED BY <2>1, SameFilters, Assumed, Paged!FiltersInit
<1>2. (which = "Filters" => Paged!FiltersInv) /\ [TelemetryNext]_TelemetryVars
        => (which = "Filters" => Paged!FiltersInv)'
  <2> SUFFICES ASSUME which = "Filters" => Paged!FiltersInv, [TelemetryNext]_TelemetryVars,
                      which' = "Filters"
               PROVE  Paged!FiltersInv'
    OBVIOUS
  <2>1. [Paged!Filters!Next]_(Paged!Filters!vars)
    BY OneComponent, SameFilters DEF Paged!Filters!vars, Paged!Filters!filters
  <2> QED BY <2>1, OneComponent, Assumed, Paged!FiltersNext
<1> QED BY <1>1, <1>2, PTL DEF TelemetrySpec

LEMMA ThreatsInvHolds == TelemetrySpec => [](which = "Threats" => Paged!ThreatsInv)
<1>1. TelemetryInit => (which = "Threats" => Paged!ThreatsInv)
  <2>1. TelemetryInit /\ which = "Threats" => Threats!Init
    BY DEF TelemetryInit
  <2> QED BY <2>1, SameThreats, Assumed, Paged!ThreatsInit
<1>2. (which = "Threats" => Paged!ThreatsInv) /\ [TelemetryNext]_TelemetryVars
        => (which = "Threats" => Paged!ThreatsInv)'
  <2> SUFFICES ASSUME which = "Threats" => Paged!ThreatsInv, [TelemetryNext]_TelemetryVars,
                      which' = "Threats"
               PROVE  Paged!ThreatsInv'
    OBVIOUS
  <2>1. [Paged!Threats!Next]_(Paged!Threats!vars)
    BY OneComponent, SameThreats DEF Paged!Threats!vars
  <2> QED BY <2>1, OneComponent, Assumed, Paged!ThreatsNext
<1> QED BY <1>1, <1>2, PTL DEF TelemetrySpec

LEMMA ForecastInvHolds == TelemetrySpec => [](which = "Forecast" => Paged!ForecastInv)
<1>1. TelemetryInit => (which = "Forecast" => Paged!ForecastInv)
  <2>1. TelemetryInit /\ which = "Forecast" => Forecast!Init
    BY DEF TelemetryInit
  <2> QED BY <2>1, SameForecast, Assumed, Paged!ForecastInit
<1>2. (which = "Forecast" => Paged!ForecastInv) /\ [TelemetryNext]_TelemetryVars
        => (which = "Forecast" => Paged!ForecastInv)'
  <2> SUFFICES ASSUME which = "Forecast" => Paged!ForecastInv, [TelemetryNext]_TelemetryVars,
                      which' = "Forecast"
               PROVE  Paged!ForecastInv'
    OBVIOUS
  <2>1. which = "Forecast" /\ (Forecast!Next \/ UNCHANGED v1)
    BY OneComponent
  <2>2. CASE Forecast!Next
    BY <2>1, <2>2, SameForecast, Assumed, Paged!ForecastNext
  <2>3. CASE UNCHANGED v1
    BY <2>1, <2>3 DEF Paged!ForecastInv
  <2> QED BY <2>1, <2>2, <2>3
<1> QED BY <1>1, <1>2, PTL DEF TelemetrySpec

LEMMA ScoresInvHolds == TelemetrySpec => [](which = "Scores" => Operated!Scores!ScorerTypeOK)
<1>1. TelemetryInit => (which = "Scores" => Operated!Scores!ScorerTypeOK)
  <2>1. TelemetryInit /\ which = "Scores" => Scores!Init
    BY DEF TelemetryInit
  <2> QED BY <2>1, SameScores, Assumed, Operated!ScoresInit
<1>2. (which = "Scores" => Operated!Scores!ScorerTypeOK) /\ [TelemetryNext]_TelemetryVars
        => (which = "Scores" => Operated!Scores!ScorerTypeOK)'
  <2> SUFFICES ASSUME which = "Scores" => Operated!Scores!ScorerTypeOK, [TelemetryNext]_TelemetryVars,
                      which' = "Scores"
               PROVE  Operated!Scores!ScorerTypeOK'
    OBVIOUS
  <2>1. [Operated!Scores!Next]_v1
    BY OneComponent, SameScores
  <2> QED BY <2>1, OneComponent, Assumed, Operated!ScoresNext
<1> QED BY <1>1, <1>2, PTL DEF TelemetrySpec

LEMMA IntakeInvHolds == TelemetrySpec => [](which = "Intake" => Operated!IntakeInv)
<1>1. TelemetryInit => (which = "Intake" => Operated!IntakeInv)
  <2>1. TelemetryInit /\ which = "Intake" => Intake!Init
    BY DEF TelemetryInit
  <2> QED BY <2>1, SameIntake, Assumed, Operated!IntakeInit
<1>2. (which = "Intake" => Operated!IntakeInv) /\ [TelemetryNext]_TelemetryVars
        => (which = "Intake" => Operated!IntakeInv)'
  <2> SUFFICES ASSUME which = "Intake" => Operated!IntakeInv, [TelemetryNext]_TelemetryVars,
                      which' = "Intake"
               PROVE  Operated!IntakeInv'
    OBVIOUS
  <2>1. [Operated!Intake!Next]_(Operated!Intake!vars)
    BY OneComponent, SameIntake DEF Operated!Intake!vars
  <2> QED BY <2>1, OneComponent, Assumed, Operated!IntakeNext
<1> QED BY <1>1, <1>2, PTL DEF TelemetrySpec

-------------------------------------------------------------------------------
(* Wherever trainings were cut short, memory and files hold the statistics *)
(* of the newest only with all of its parts, and a loaded detector has all *)
(* that predict asserts; it is of one training, and the one a restart      *)
(* would load, unless one was cut short since the last that finished       *)
(* (anomaly_detector.py, main.py).                                         *)
THEOREM DetectorIsOfOneTraining == TelemetrySpec => []LoadedIsOneTraining
<1>1. Operated!ModelInv => Models!LoadedIsOneTraining
  BY SameModels DEF Operated!ModelInv, Operated!FilesFit, Operated!MetaIsLast,
     Operated!Models!LoadedIsOneTraining
<1>2. (which = "Models" => Operated!ModelInv)
        => LoadedIsOneTraining
  BY <1>1 DEF LoadedIsOneTraining
<1> QED BY <1>2, ModelsInvHolds, PTL

(* When the stop script is done, and nothing was started since it began,   *)
(* every container, listener and window that is left is one that a step    *)
(* tried to end and did not (start-all.ps1, stop-all.ps1).                 *)
THEOREM NothingIsLeftRunning == TelemetrySpec => []StopStopsAll
<1>1. Operated!LaunchInv => Launch!StopStopsAll
  BY SameLaunch, Operated!LaunchShown
<1>2. (which = "Launch" => Operated!LaunchInv)
        => StopStopsAll
  BY <1>1 DEF StopStopsAll
<1> QED BY <1>2, LaunchInvHolds, PTL

(* A seed that ends undisturbed leaves exactly the seeded data, whatever   *)
(* was there before and however many seeds were cut short (seed.ts).       *)
THEOREM SeedLeavesItsData == TelemetrySpec => []SeedConverges
<1>1. Operated!SeedInv => Seeding!SeedConverges
  BY SameSeeding, Assumed, Operated!SeedShown
<1>2. (which = "Seeding" => Operated!SeedInv)
        => SeedConverges
  BY <1>1 DEF SeedConverges
<1> QED BY <1>2, SeedingInvHolds, PTL

(* A settings form at rest knows what is stored, unless since its last     *)
(* fetch or save a request failed or crossed, or somebody else wrote       *)
(* (platform-settings.tsx handleSave).                                     *)
THEOREM RulesAreKnown == TelemetrySpec => []SavedIsStored
<1>1. Paged!SettingsInv => Settings!SavedIsStored
  BY SameSettings, Paged!SettingsShown
<1>2. (which = "Settings" => Paged!SettingsInv)
        => SavedIsStored
  BY <1>1 DEF SavedIsStored
<1> QED BY <1>2, SettingsInvHolds, PTL

(* A forecast at rest is of the window and the source that the page shows  *)
(* as chosen, as long as no two requests crossed (predictions/page.tsx).   *)
THEOREM ForecastIsAsked == TelemetrySpec => []QuietForecastIsAsked
<1>1. Paged!ForecastsInv => Forecasts!QuietForecastIsAsked
  BY SameForecasts, Paged!ForecastsShown
<1>2. (which = "Forecasts" => Paged!ForecastsInv)
        => QuietForecastIsAsked
  BY <1>1 DEF QuietForecastIsAsked
<1> QED BY <1>2, ForecastsInvHolds, PTL

(* An alerts page at rest shows what it was served, unless something       *)
(* happened during an action; a live page lists rows only                  *)
(* (alerts/page.tsx handleStatusUpdate).                                   *)
THEOREM AlertsAreServed == TelemetrySpec => []AlertsPageIsServed
<1>1. Paged!AlertsInv => Alerts!QuietPageIsServed /\ Alerts!LivePageListsRows
  BY SameAlerts, Paged!AlertsShown
<1>2. (which = "Alerts" => Paged!AlertsInv)
        => AlertsPageIsServed
  BY <1>1 DEF AlertsPageIsServed
<1> QED BY <1>2, AlertsInvHolds, PTL

(* No panel of a live overview shows a log oftener than the numbers count  *)
(* it, and what nothing cuts off it shows as often, unless something       *)
(* failed or was stored since a refresh at rest (overview/page.tsx,        *)
(* dashboard.service.ts, telemetry-store.ts); the markers of the map are   *)
(* those of the panel beside it, and its numbers cover them (geo-map).     *)
THEOREM PanelsFitTogether == TelemetrySpec => []PanelsAgree
<1>1. Paged!OverviewInv => Overview!PanelsAgree
  BY SameOverview, Assumed, Paged!OverviewShown
<1>2. Paged!MapInv => Map!MarkersFitPanel /\ Map!NumbersCoverMap
  BY SameMap, Assumed, Paged!MapShown
<1>3. (which = "Overview" => Paged!OverviewInv) /\ (which = "Map" => Paged!MapInv)
        => PanelsAgree
  BY <1>1, <1>2 DEF PanelsAgree
<1> QED BY <1>3, OverviewInvHolds, MapInvHolds, PTL

(* A table of logs at rest shows what its query asks for, unless the last  *)
(* answer had been overtaken; its rows pass the filters, the way to reset  *)
(* them is offered when there are some, and a page turned to when it was   *)
(* there has rows while logs match (logs/page.tsx, log-filters.tsx).       *)
THEOREM TableIsAsked == TelemetrySpec => []QuietShowsQuery
<1>1. Paged!LogsInv => Logs!QuietShowsQuery
  BY SameLogs, Paged!LogsShown
<1>2. Paged!FiltersInv => Filters!ShownMatches /\ Filters!PageHasRows
  BY SameFilters, Assumed, Paged!FiltersShown
<1>3. (which = "Logs" => Paged!LogsInv) /\ (which = "Filters" => Paged!FiltersInv)
        => QuietShowsQuery
  BY <1>1, <1>2 DEF QuietShowsQuery
<1> QED BY <1>3, LogsInvHolds, FiltersInvHolds, PTL

(* On the page of threat scores the tiles, the capsule and the chart count *)
(* what the page holds, unless a row came between the two reads of its     *)
(* answer, and a page of the list shows as many as its footer says, unless *)
(* an answer came in while a later page was shown (threats/page.tsx,       *)
(* threats.service.ts).                                                    *)
THEOREM ThreatsAreCounted == TelemetrySpec => []ThreatsPageFits
<1>1. Paged!ThreatsInv => Threats!CountsMatchEntities /\ Threats!PageShowsSomething
  BY SameThreats, Assumed, Paged!CountsShown, Paged!PageShown
<1>2. (which = "Threats" => Paged!ThreatsInv) => ThreatsPageFits
  BY <1>1 DEF ThreatsPageFits
<1> QED BY <1>2, ThreatsInvHolds, PTL

(* Every list of logs gets three to eight predictions, each of another     *)
(* attack, however many heuristics find something; and a longer list hides *)
(* none that was found, but the flood that goes by rates, and lowers       *)
(* neither probability nor severity where a heuristic counts, across all   *)
(* of its bands (predictor.py).                                            *)
THEOREM MoreLogsHideNothing == TelemetrySpec => ForecastStands
<1>1. (which = "Forecast" => Paged!ForecastInv)
        => (which = "Forecast" => Forecast!ThreeToEight)
  BY SameForecast, Assumed, Paged!ThreeToEightHolds DEF Paged!ForecastInv
<1>2. (which = "Forecast" => Paged!ForecastInv)
        /\ (which = "Forecast" => Forecast!ThreeToEight)'
        /\ [TelemetryNext]_TelemetryVars
        => [which = "Forecast" => Forecast!ThreeToEight' /\ Forecast!Stands]_TelemetryVars
  <2> SUFFICES ASSUME Paged!ForecastInv, (which = "Forecast" => Forecast!ThreeToEight)',
                      TelemetryNext, which = "Forecast"
               PROVE  Forecast!ThreeToEight' /\ Forecast!Stands
    OBVIOUS
  <2>1. Forecast!Next /\ which' = which
    BY DEF TelemetryNext
  <2>2. Paged!Forecast(v1)!Stands
    BY <2>1, SameForecast, Assumed, Paged!ForecastStep
  <2> QED BY <2>1, <2>2, SameStands
<1> QED BY <1>1, <1>2, ForecastInvHolds, PTL DEF TelemetrySpec, ForecastStands

(* What becomes an alert has a cause that the explainer names, and service *)
(* and worker agree on it (threat_scorer.py, explainer.py); from the       *)
(* collector's normalizer.py to logs.processor.ts a log that its sender    *)
(* writes as it should is judged, and alerts as its kind can.              *)
THEOREM AlertsAreJustified == TelemetrySpec => []AlertHasCause
<1>1. Operated!Scores!ScorerTypeOK => Scores!AlertHasCause
  BY SameScores, Assumed, Operated!ScoresFit
<1>2. Operated!IntakeInv => /\ Intake!SendersFitValidators /\ Intake!WindowsAlerts
                            /\ Intake!ClaimsDoNotAlert
  BY SameIntake, Assumed, Operated!IntakeFits
<1>3. (which = "Scores" => Operated!Scores!ScorerTypeOK)
        /\ (which = "Intake" => Operated!IntakeInv)
        => AlertHasCause
  BY <1>1, <1>2 DEF AlertHasCause
<1> QED BY <1>3, ScoresInvHolds, IntakeInvHolds, PTL

-------------------------------------------------------------------------------
(* The types *)
LEMMA ThreatsTypeHolds ==
  TelemetrySpec => [](which = "Threats" => Paged!Threats!ThreatsTypeOK)
<1>1. TelemetryInit => (which = "Threats" => Paged!Threats!ThreatsTypeOK)
  <2>1. TelemetryInit /\ which = "Threats" => Threats!Init
    BY DEF TelemetryInit
  <2> QED BY <2>1, SameThreats, Assumed, Paged!ThreatsTypedInit
<1>2. /\ which = "Threats" => Paged!ThreatsInv
      /\ (which = "Threats" => Paged!ThreatsInv)'
      /\ which = "Threats" => Paged!Threats!ThreatsTypeOK
      /\ [TelemetryNext]_TelemetryVars
      => (which = "Threats" => Paged!Threats!ThreatsTypeOK)'
  <2> SUFFICES ASSUME which = "Threats" => Paged!ThreatsInv,
                      (which = "Threats" => Paged!ThreatsInv)',
                      which = "Threats" => Paged!Threats!ThreatsTypeOK,
                      [TelemetryNext]_TelemetryVars, which' = "Threats"
               PROVE  Paged!Threats!ThreatsTypeOK'
    OBVIOUS
  <2>1. [Paged!Threats!Next]_(Paged!Threats!vars)
    BY OneComponent, SameThreats DEF Paged!Threats!vars
  <2> QED BY <2>1, OneComponent, Assumed, Paged!ThreatsTypedNext
<1> QED BY <1>1, <1>2, ThreatsInvHolds, PTL DEF TelemetrySpec

LEMMA IntakeTypedHolds == TelemetrySpec => [](which = "Intake" => Operated!IntakeTyped)
<1>1. TelemetryInit => (which = "Intake" => Operated!IntakeTyped)
  <2>1. TelemetryInit /\ which = "Intake" => Intake!Init
    BY DEF TelemetryInit
  <2> QED BY <2>1, SameIntake, Operated!IntakeTypedInit
<1>2. /\ which = "Intake" => Operated!IntakeInv
      /\ which = "Intake" => Operated!IntakeTyped
      /\ [TelemetryNext]_TelemetryVars
      => (which = "Intake" => Operated!IntakeTyped)'
  <2> SUFFICES ASSUME which = "Intake" => Operated!IntakeInv,
                      which = "Intake" => Operated!IntakeTyped,
                      [TelemetryNext]_TelemetryVars, which' = "Intake"
               PROVE  Operated!IntakeTyped'
    OBVIOUS
  <2>1. [Operated!Intake!Next]_(Operated!Intake!vars)
    BY OneComponent, SameIntake DEF Operated!Intake!vars
  <2> QED BY <2>1, OneComponent, Assumed, Operated!IntakeTypedNext
<1> QED BY <1>1, <1>2, IntakeInvHolds, PTL DEF TelemetrySpec

LEMMA SameTypes ==
    /\ Paged!Alerts!TypeOK => Alerts!TypeOK
    /\ Paged!Logs!LogsTypeOK => Logs!LogsTypeOK
    /\ Paged!Filters!FiltersTypeOK => Filters!FiltersTypeOK
    /\ Paged!Map!MapTypeOK => Map!MapTypeOK
    /\ Paged!Overview!OverviewTypeOK => Overview!OverviewTypeOK
    /\ Paged!Threats!ThreatsTypeOK => Threats!ThreatsTypeOK
    /\ Paged!Forecasts!PredictionsTypeOK => Forecasts!PredictionsTypeOK
    /\ Paged!Forecast(v1)!ForecasterTypeOK => Forecast!ForecasterTypeOK
    /\ Operated!Scores!ScorerTypeOK => Scores!ScorerTypeOK
    /\ Operated!Intake!IntakeTypeOK => Intake!IntakeTypeOK
    /\ Operated!Models!ModelTypeOK => Models!ModelTypeOK
    /\ Paged!Settings!SettingsTypeOK => Settings!SettingsTypeOK
    /\ Operated!Launch!LauncherTypeOK => Launch!LauncherTypeOK
    /\ Operated!Seeding!SeedTypeOK => Seeding!SeedTypeOK
<1>1. Paged!Alerts!TypeOK => Alerts!TypeOK
  BY DEF Alerts!TypeOK, Paged!Alerts!TypeOK, Alerts!Status, Paged!Alerts!Status,
     Alerts!Lists, Paged!Alerts!Lists, Alerts!Id, Paged!Alerts!Id, Alerts!Demo,
     Paged!Alerts!Demo, Alerts!Counters, Paged!Alerts!Counters, Alerts!Free,
     Paged!Alerts!Free, Alerts!Slot, Paged!Alerts!Slot
<1>2. Paged!Logs!LogsTypeOK => Logs!LogsTypeOK
  BY DEF Logs!LogsTypeOK, Paged!Logs!LogsTypeOK, Logs!Query, Paged!Logs!Query,
     Logs!Fetches, Paged!Logs!Fetches, Logs!Row, Paged!Logs!Row
<1>3. Paged!Filters!FiltersTypeOK => Filters!FiltersTypeOK
  BY DEF Filters!FiltersTypeOK, Paged!Filters!FiltersTypeOK, Filters!Copies,
     Paged!Filters!Copies, Filters!Severity, Paged!Filters!Severity, Filters!Entry,
     Paged!Filters!Entry, Filters!Cardinality, Paged!Filters!Cardinality
<1>4. Paged!Map!MapTypeOK => Map!MapTypeOK
  BY DEF Map!MapTypeOK, Paged!Map!MapTypeOK, Map!Answers, Paged!Map!Answers,
     Map!NoData, Paged!Map!NoData, Map!NoFilter, Paged!Map!NoFilter, Map!Cardinality,
     Paged!Map!Cardinality
<1>5. Paged!Overview!OverviewTypeOK => Overview!OverviewTypeOK
  BY DEF Overview!OverviewTypeOK, Paged!Overview!OverviewTypeOK
<1>6. Paged!Threats!ThreatsTypeOK => Threats!ThreatsTypeOK
  BY DEF Threats!ThreatsTypeOK, Paged!Threats!ThreatsTypeOK, Threats!Category,
     Paged!Threats!Category, Threats!All, Paged!Threats!All, Threats!View,
     Paged!Threats!View, Threats!Cardinality, Paged!Threats!Cardinality
<1>7. Paged!Forecasts!PredictionsTypeOK => Forecasts!PredictionsTypeOK
  BY DEF Forecasts!PredictionsTypeOK, Paged!Forecasts!PredictionsTypeOK,
     Forecasts!Nothing, Paged!Forecasts!Nothing, Forecasts!Forecast,
     Paged!Forecasts!Forecast, Forecasts!None, Paged!Forecasts!None, Forecasts!Payload,
     Paged!Forecasts!Payload
<1>8. Operated!Scores!ScorerTypeOK => Scores!ScorerTypeOK
  BY DEF Scores!ScorerTypeOK, Operated!Scores!ScorerTypeOK, Scores!Domain,
     Operated!Scores!Domain, Scores!Severity, Operated!Scores!Severity
<1>9. Operated!Intake!IntakeTypeOK => Intake!IntakeTypeOK
  BY DEF Intake!IntakeTypeOK, Operated!Intake!IntakeTypeOK, Intake!NoLog,
     Operated!Intake!NoLog, Intake!Stage, Operated!Intake!Stage, Intake!NoAlert,
     Operated!Intake!NoAlert, Intake!Score, Operated!Intake!Score, Intake!Severity,
     Operated!Intake!Severity
<1>10. Operated!Models!ModelTypeOK => Models!ModelTypeOK
  BY DEF Models!ModelTypeOK, Operated!Models!ModelTypeOK, Models!Part,
     Operated!Models!Part, Models!Training, Operated!Models!Training, Models!None,
     Operated!Models!None, Models!Unfitted, Operated!Models!Unfitted, Models!Torn,
     Operated!Models!Torn, Models!FitOrder, Operated!Models!FitOrder
<1>11. Paged!Settings!SettingsTypeOK => Settings!SettingsTypeOK
  BY DEF Settings!SettingsTypeOK, Paged!Settings!SettingsTypeOK, Settings!Default,
     Paged!Settings!Default, Settings!Unset, Paged!Settings!Unset, Settings!Patch,
     Paged!Settings!Patch
<1>12. Operated!Launch!LauncherTypeOK => Launch!LauncherTypeOK
  BY DEF Launch!LauncherTypeOK, Operated!Launch!LauncherTypeOK, Launch!Containers,
     Operated!Launch!Containers, Launch!App, Operated!Launch!App, Launch!Listener,
     Operated!Launch!Listener
<1>13. Operated!Seeding!SeedTypeOK => Seeding!SeedTypeOK
  BY DEF Seeding!SeedTypeOK, Operated!Seeding!SeedTypeOK, Seeding!Table,
     Operated!Seeding!Table, Seeding!Stages, Operated!Seeding!Stages
<1>14. Paged!Forecast(v1)!ForecasterTypeOK => Forecast!ForecasterTypeOK
  BY DEF Forecast!ForecasterTypeOK, Paged!Forecast!ForecasterTypeOK, Forecast!Kind,
     Paged!Forecast!Kind
<1> QED BY <1>1, <1>2, <1>3, <1>4, <1>5, <1>6, <1>7, <1>8, <1>9, <1>10, <1>11, <1>12, <1>13,
           <1>14

(* The component the run is about is one of the fourteen. *)
OneOfThem == which \in {"Alerts", "Logs", "Filters", "Map", "Overview", "Threats",
                       "Forecasts", "Forecast", "Scores", "Intake", "Models", "Settings",
                       "Launch", "Seeding"}

(* The types of the components. *)
OperationsTyped ==
    /\ which = "Models" => Models!ModelTypeOK
    /\ which = "Launch" => Launch!LauncherTypeOK
    /\ which = "Seeding" => Seeding!SeedTypeOK
    /\ which = "Settings" => Settings!SettingsTypeOK
    /\ which = "Forecasts" => Forecasts!PredictionsTypeOK

ListsTyped ==
    /\ which = "Alerts" => Alerts!TypeOK
    /\ which = "Overview" => Overview!OverviewTypeOK
    /\ which = "Map" => Map!MapTypeOK
    /\ which = "Logs" => Logs!LogsTypeOK
    /\ which = "Filters" => Filters!FiltersTypeOK

ScoresTyped ==
    /\ which = "Forecast" => Forecast!ForecasterTypeOK
    /\ which = "Threats" => Threats!ThreatsTypeOK
    /\ which = "Scores" => Scores!ScorerTypeOK
    /\ which = "Intake" => Intake!IntakeTypeOK

(* Every variable of every component keeps to its type. *)
THEOREM TelemetryTypeCorrect == TelemetrySpec => []TelemetryTypeOK
<1>1. TelemetryInit => OneOfThem
  BY DEF TelemetryInit, OneOfThem
<1>2. OneOfThem /\ [TelemetryNext]_TelemetryVars => OneOfThem'
  BY OneComponent DEF OneOfThem
<1>3. (which = "Models" => Operated!ModelInv) => (which = "Models" => Models!ModelTypeOK)
  BY SameTypes DEF Operated!ModelInv, Operated!FilesFit
<1>4. (which = "Launch" => Operated!LaunchInv) => (which = "Launch" => Launch!LauncherTypeOK)
  BY SameTypes DEF Operated!LaunchInv
<1>5. (which = "Seeding" => Operated!SeedInv) => (which = "Seeding" => Seeding!SeedTypeOK)
  BY SameTypes DEF Operated!SeedInv
<1>6. (which = "Settings" => Paged!SettingsInv) => (which = "Settings" => Settings!SettingsTypeOK)
  BY SameTypes DEF Paged!SettingsInv
<1>7. (which = "Forecasts" => Paged!ForecastsInv) => (which = "Forecasts" => Forecasts!PredictionsTypeOK)
  BY SameTypes DEF Paged!ForecastsInv
<1>8. (which = "Alerts" => Paged!AlertsInv) => (which = "Alerts" => Alerts!TypeOK)
  BY SameTypes DEF Paged!AlertsInv
<1>9. (which = "Overview" => Paged!OverviewInv) => (which = "Overview" => Overview!OverviewTypeOK)
  BY SameTypes DEF Paged!OverviewInv
<1>10. (which = "Map" => Paged!MapInv) => (which = "Map" => Map!MapTypeOK)
  BY SameTypes DEF Paged!MapInv
<1>11. (which = "Logs" => Paged!LogsInv) => (which = "Logs" => Logs!LogsTypeOK)
  BY SameTypes DEF Paged!LogsInv
<1>12. (which = "Filters" => Paged!FiltersInv) => (which = "Filters" => Filters!FiltersTypeOK)
  BY SameTypes DEF Paged!FiltersInv
<1>13. (which = "Forecast" => Paged!ForecastInv) => (which = "Forecast" => Forecast!ForecasterTypeOK)
  BY SameTypes DEF Paged!ForecastInv
<1>14. (which = "Threats" => Paged!Threats!ThreatsTypeOK) => (which = "Threats" => Threats!ThreatsTypeOK)
  BY SameTypes
<1>15. (which = "Scores" => Operated!Scores!ScorerTypeOK) => (which = "Scores" => Scores!ScorerTypeOK)
  BY SameTypes
<1>16. (which = "Intake" => Operated!IntakeTyped) => (which = "Intake" => Intake!IntakeTypeOK)
  BY SameTypes DEF Operated!IntakeTyped
<1>17. OneOfThem /\ OperationsTyped /\ ListsTyped /\ ScoresTyped => TelemetryTypeOK
  <2> SUFFICES ASSUME OneOfThem,
                      which = "Models" => Models!ModelTypeOK,
                      which = "Launch" => Launch!LauncherTypeOK,
                      which = "Seeding" => Seeding!SeedTypeOK,
                      which = "Settings" => Settings!SettingsTypeOK,
                      which = "Forecasts" => Forecasts!PredictionsTypeOK,
                      which = "Alerts" => Alerts!TypeOK,
                      which = "Overview" => Overview!OverviewTypeOK,
                      which = "Map" => Map!MapTypeOK,
                      which = "Logs" => Logs!LogsTypeOK,
                      which = "Filters" => Filters!FiltersTypeOK,
                      which = "Forecast" => Forecast!ForecasterTypeOK,
                      which = "Threats" => Threats!ThreatsTypeOK,
                      which = "Scores" => Scores!ScorerTypeOK,
                      which = "Intake" => Intake!IntakeTypeOK
               PROVE  TelemetryTypeOK
    BY DEF OperationsTyped, ListsTyped, ScoresTyped
  <2>1. CASE which = "Models"
    BY <2>1 DEF TelemetryTypeOK
  <2>2. CASE which = "Launch"
    BY <2>2 DEF TelemetryTypeOK
  <2>3. CASE which = "Seeding"
    BY <2>3 DEF TelemetryTypeOK
  <2>4. CASE which = "Settings"
    BY <2>4 DEF TelemetryTypeOK
  <2>5. CASE which = "Forecasts"
    BY <2>5 DEF TelemetryTypeOK
  <2>6. CASE which = "Alerts"
    BY <2>6 DEF TelemetryTypeOK
  <2>7. CASE which = "Overview"
    BY <2>7 DEF TelemetryTypeOK
  <2>8. CASE which = "Map"
    BY <2>8 DEF TelemetryTypeOK
  <2>9. CASE which = "Logs"
    BY <2>9 DEF TelemetryTypeOK
  <2>10. CASE which = "Filters"
    BY <2>10 DEF TelemetryTypeOK
  <2>11. CASE which = "Forecast"
    BY <2>11 DEF TelemetryTypeOK
  <2>12. CASE which = "Threats"
    BY <2>12 DEF TelemetryTypeOK
  <2>13. CASE which = "Scores"
    BY <2>13 DEF TelemetryTypeOK
  <2>14. CASE which = "Intake"
    BY <2>14 DEF TelemetryTypeOK
  <2> QED BY <2>1, <2>2, <2>3, <2>4, <2>5, <2>6, <2>7, <2>8,
             <2>9, <2>10, <2>11, <2>12, <2>13, <2>14 DEF OneOfThem
<1>18. TelemetrySpec => []OneOfThem
  BY <1>1, <1>2, PTL DEF TelemetrySpec
<1>19. TelemetrySpec => []OperationsTyped
  BY <1>3, <1>4, <1>5, <1>6, <1>7, ModelsInvHolds, LaunchInvHolds, SeedingInvHolds,
     SettingsInvHolds, ForecastsInvHolds, PTL DEF OperationsTyped
<1>20. TelemetrySpec => []ListsTyped
  BY <1>8, <1>9, <1>10, <1>11, <1>12, AlertsInvHolds, OverviewInvHolds, MapInvHolds,
     LogsInvHolds, FiltersInvHolds, PTL DEF ListsTyped
<1>21. TelemetrySpec => []ScoresTyped
  BY <1>13, <1>14, <1>15, <1>16, ForecastInvHolds, ThreatsTypeHolds, ScoresInvHolds,
     IntakeTypedHolds, PTL DEF ScoresTyped
<1> QED BY <1>17, <1>18, <1>19, <1>20, <1>21, PTL

===============================================================================
