------------------------------ MODULE MCTelemetry ------------------------------
(***************************************************************************)
(* Small instances, side by side, of the components that deal with         *)
(* telemetry.  They do not interact: a behaviour is one of one component,  *)
(* told by `which`, whose variables are v1, v2, and so on.                 *)
(***************************************************************************)
EXTENDS Integers, Sequences, FiniteSets, TLC

CONSTANTS
    l1, l2, t1, t2, t3, m1, m2, k1, k2,   \* model values
    MaxTrainings,                         \* of ModelStore
    Container, MaxStarts,                 \* of Launcher
    Seeded, Guest, Key, Amount,
    MaxRows, MaxRuns,                     \* of Seed
    Rule, Threshold, Value,
    EventScore, MaxSaves,                 \* of SettingsForm
    Window, Day, Preset, Request,         \* of PredictionsPage
    MaxAlerts, AlertLimit, MaxPending,
    MaxCount, DemoList, AlertSeverity,
    Target,                               \* of AlertTriage
    Log, Narrow, MaxFetch,                \* of LogsPage
    Logged, Stopped, LastDays, TypeOf,
    AddressOf, TimeOf, TypeLimit,
    SourceLimit, MergedLimit,
    ActivityLimit, CopyLimit, Panel,
    MaxAsked,                             \* of OverviewPage
    Located, IpOf, CountryOf, Serious,
    OriginLimit, CountryLimit,
    MockOrigin, Search,                   \* of AttackMap, with MaxAsked
    Line, DemoLine, LineSeverity,
    LineSource, SeverityOrder, Sender,
    Admitted, Hit, Near, Recent, PerPage,
    Field, LineRank, BaseTotal,
    MaxPage, MaxKinds,                    \* of LogFilters
    Estimate, DestPort,                   \* of Scorer
    RawPort, GivenType, Claimed, Outlier, \* of LogIntake
    Entity, CategoryOf, MockEntity,
    Wanted, RowLimit, PageSize, Sort,
    EntityRank,                           \* of ThreatsPage
    Shape, Hours, MaxLogs                 \* of Forecaster

(* One demo alert; ids of the demo list never meet those of the table. *)
MCDemoList == (-1) :> "NEW"

MCSeverityOf == [a \in (-1)..3 |-> IF a = 1 THEN "HIGH" ELSE "LOW"]

MCSourceOf == [l \in 1..3 |-> IF l = 1 THEN "IDS" ELSE "WINDOWS_SECURITY"]

(* Two logs from two addresses, of two types, one after the other. *)
MCTypeOf == l1 :> "BRUTE_FORCE" @@ l2 :> "PORT_SCAN"
MCAddressOf == l1 :> "i1" @@ l2 :> "i2"
MCTimeOf == l1 :> 1 @@ l2 :> 2

(* Three attacks from two addresses and from two countries. *)
MCIpOf == [l \in {"a1", "a2", "a3"} |-> IF l = "a3" THEN "i2" ELSE "i1"]
MCCountryOf == [l \in {"a1", "a2", "a3"} |-> IF l = "a1" THEN "c1" ELSE "c2"]

(* The severities as they follow each other, and places of two logs. *)
MCSeverityOrder == <<"HIGH", "LOW">>

MCRank == [timestamp |-> [l \in 1..3 |-> l], severity |-> [l \in 1..3 |-> IF l = 1 THEN 4 ELSE l]]

MCCategoryOf ==
    t1 :> "HIGH_RISK" @@ t2 :> "LOW_RISK" @@ t3 :> "LOW_RISK" @@ m1 :> "HIGH_RISK"
      @@ m2 :> "LOW_RISK"

MCThreatRank ==
    [score_desc |-> t1 :> 1 @@ t2 :> 2 @@ t3 :> 3 @@ m1 :> 4 @@ m2 :> 5,
     last_seen |-> t1 :> 3 @@ t2 :> 1 @@ t3 :> 2 @@ m1 :> 5 @@ m2 :> 4]

MCPageSize == [grid |-> 1, table |-> 2]

MCLog(class, ip, dest, severity, action, country, risky, users, offHours) ==
    [class |-> class, ip |-> ip, dest |-> dest, severity |-> severity, action |-> action,
     country |-> country, risky |-> risky, users |-> users, offHours |-> offHours]

(* A kind of log for every heuristic but the rates, which come of themselves. *)
MCShape ==
    [failure |-> MCLog({"FAILURE", "COMMON"}, "i1", "d1", "LOW", "DENY", "home", FALSE,
                       {"u1", "n1"}, FALSE),
     scan |-> MCLog({"RECON"}, "i1", "d2", "HIGH", "ALLOW", "risk1", TRUE, {}, FALSE),
     transfer |-> MCLog({"DATA", "COMMON"}, "i2", "d1", "MEDIUM", "ALLOW", "home", FALSE,
                        {"u2", "n2"}, TRUE),
     sudo |-> MCLog({"PRIV"}, "i2", "d3", "LOW", "ALLOW", "home", FALSE, {"u3"}, TRUE),
     worm |-> MCLog({"MALWARE"}, "i3", "d2", "CRITICAL", "BLOCK", "risk2", TRUE, {}, FALSE)]

MCMaxLogs == [failure |-> 21, scan |-> 2, transfer |-> 3, sudo |-> 1, worm |-> 2]

(* A fraction or a negative number, and one above every port. *)
MCRawPort == {-2, 70000}

(* The containers that are waited for. *)
MCContainer == <<"postgres", "ml">>

(* Rows that a seed inserts. *)
MCAmount ==
    [t \in {"log", "alert", "threatScore", "blockedIP", "auditLog", "report"} |->
        IF t = "report" THEN 0 ELSE 1]

VARIABLES
    which,   \* the component
    v1, v2, v3, v4, v5, v6, v7, v8, v9, v10, v11, v12

TelemetryVars == <<which, v1, v2, v3, v4, v5, v6, v7, v8, v9, v10, v11, v12>>

Alerts == INSTANCE AlertTriage WITH
    Limit <- AlertLimit, SeverityOf <- AlertSeverity, raised <- v1,
    status <- v2, resolved <- v3, page <- v4, answer <- v5, pending <- v6,
    served <- v7, mixed <- v8

Logs == INSTANCE LogsPage WITH
    stored <- v1, copies <- v2, query <- v3, fetches <- v4, shown <- v5,
    upload <- v6, stale <- v7

Filters == INSTANCE LogFilters WITH
    Log <- Line, Mock <- DemoLine, SeverityOf <- LineSeverity,
    SourceOf <- LineSource, Source <- Sender, Accepted <- Admitted,
    Found <- Hit, Rank <- LineRank, stored <- v1, copies <- v2, typed <- v3,
    search <- v4, severities <- v5, sources <- v6, place <- v7, view <- v8,
    due <- v9, table <- v10, sure <- v11

Map == INSTANCE AttackMap WITH
    Log <- Located, Critical <- Serious, Demo <- MockOrigin, stored <- v1,
    asked <- v2, data <- v3, isLoading <- v4, filter <- v5, filtered <- v6,
    due <- v7

Overview == INSTANCE OverviewPage WITH
    Log <- Logged, Denied <- Stopped, SourceOf <- AddressOf, stored <- v1,
    copies <- v2, data <- v3, answered <- v4, asked <- v5, settled <- v6

Threats == INSTANCE ThreatsPage WITH
    Mock <- MockEntity, Matching <- Wanted, Limit <- RowLimit,
    Rank <- EntityRank, stored <- v1, fetch <- v2, entities <- v3,
    summary <- v4, demo <- v5, filter <- v6, search <- v7, sort <- v8,
    view <- v9, page <- v10, replaced <- v11, torn <- v12

Forecasts == INSTANCE PredictionsPage WITH
    Slot <- Request, windowHours <- v1, inputMode <- v2, selectedPreset <- v3,
    isLoading <- v4, error <- v5, data <- v6, underway <- v7, crossed <- v8

Forecast == INSTANCE Forecaster WITH
    Window <- Hours, count <- v1

Scores == INSTANCE Scorer WITH
    Anomaly <- Estimate, Port <- DestPort, Threshold <- 60, log <- v1

Intake == INSTANCE LogIntake WITH
    Given <- GivenType, Anomaly <- Outlier, log <- v1, stage <- v2,
    threat <- v3, alert <- v4

Models == INSTANCE ModelStore WITH
    phase <- v1, memory <- v2, loaded <- v3, disk <- v4, step <- v5,
    trainings <- v6, broken <- v7

Settings == INSTANCE SettingsForm WITH
    Score <- EventScore, saved <- v1, initial <- v2, form <- v3, phase <- v4,
    sent <- v5, saves <- v6, patches <- v7, clean <- v8, alerts <- v9

Launch == INSTANCE Launcher WITH
    docker <- v1, container <- v2, app <- v3, start <- v4, at <- v5,
    stop <- v6, starts <- v7, overlap <- v8, survived <- v9

Seeding == INSTANCE Seed WITH
    users <- v1, settings <- v2, keys <- v3, rows <- v4, stage <- v5,
    left <- v6, runs <- v7, disturbed <- v8

(* What the proofs take for granted. *)
ASSUME TelemetryAssumption ==
    /\ MaxTrainings \in Nat
    /\ Container \in Seq(Launch!Containers) /\ MaxStarts \in Nat
    /\ Amount \in [Seeding!Table -> Nat] /\ Amount["report"] = 0
    /\ MaxRows \in Nat /\ MaxRuns \in Nat
    /\ Value \in SUBSET Nat /\ MaxSaves \in Nat
    /\ Day \in Window
    /\ \A p \in Preset : p \notin {"stored", "synthetic", "empty", "none yet", "no preset"}
    /\ MaxAlerts \in Nat /\ MaxPending \in Nat /\ Target \in SUBSET Alerts!Status
    /\ IsFiniteSet(Alerts!Demo) /\ DemoList \in [Alerts!Demo -> Alerts!Status]
    /\ Narrow \subseteq Log /\ MaxFetch \in Nat \ {0}
    /\ IsFiniteSet(Logged) /\ Stopped \subseteq Logged /\ LastDays \subseteq Logged
    /\ TypeLimit \in Nat /\ SourceLimit \in Nat /\ MergedLimit \in 0..SourceLimit
    /\ ActivityLimit \in Nat /\ CopyLimit \in 0..ActivityLimit
    /\ "stats" \in Panel /\ Panel \subseteq Overview!AllPanels /\ MaxAsked \in Nat \ {0}
    /\ IsFiniteSet(Located) /\ Serious \subseteq Located
    /\ "none" \notin Located \cup MockOrigin
    /\ OriginLimit \in Nat /\ CountryLimit \in Nat
    /\ IsFiniteSet(Line) /\ IsFiniteSet(DemoLine) /\ SeverityOrder \in Seq(STRING)
    /\ PerPage \subseteq Nat \ {0} /\ BaseTotal \in Nat /\ MaxPage \in Nat \ {0}
    /\ Estimate \subseteq 0..100 /\ DestPort \subseteq Nat /\ Outlier \subseteq 0..100
    /\ RowLimit \in Nat /\ IsFiniteSet(Entity)
    /\ MockEntity \subseteq Entity /\ MockEntity # {}
    /\ CategoryOf \in [Entity -> Threats!Category] /\ PageSize \in [Threats!View -> Nat \ {0}]
    /\ \A s \in Sort : /\ \A e \in Entity : EntityRank[s][e] \in Int
                       /\ \A e, d \in Entity : EntityRank[s][e] = EntityRank[s][d] => e = d
    /\ IsFiniteSet(DOMAIN Shape) /\ \A k \in DOMAIN Shape : IsFiniteSet(Shape[k].users)
    /\ MaxLogs \in [DOMAIN Shape -> Nat]
    /\ \A f \in Field, l \in Line : LineRank[f][l] \in Int
    /\ \A f \in Field, l, k \in Line : LineRank[f][l] = LineRank[f][k] => l = k

-------------------------------------------------------------------------------
Unused == ""   \* what a variable holds that the component does not have

TelemetryInit ==
    \/ /\ which = "Alerts" /\ Alerts!Init
       /\ v9 = Unused /\ v10 = Unused /\ v11 = Unused /\ v12 = Unused
    \/ /\ which = "Logs" /\ Logs!Init
       /\ v8 = Unused /\ v9 = Unused /\ v10 = Unused /\ v11 = Unused
       /\ v12 = Unused
    \/ /\ which = "Filters" /\ Filters!Init
       /\ v12 = Unused
    \/ /\ which = "Map" /\ Map!Init
       /\ v8 = Unused /\ v9 = Unused /\ v10 = Unused /\ v11 = Unused
       /\ v12 = Unused
    \/ /\ which = "Overview" /\ Overview!Init
       /\ v7 = Unused /\ v8 = Unused /\ v9 = Unused /\ v10 = Unused
       /\ v11 = Unused /\ v12 = Unused
    \/ /\ which = "Threats" /\ Threats!Init
    \/ /\ which = "Forecasts" /\ Forecasts!Init
       /\ v9 = Unused /\ v10 = Unused /\ v11 = Unused /\ v12 = Unused
    \/ /\ which = "Forecast" /\ Forecast!Init
       /\ v2 = Unused /\ v3 = Unused /\ v4 = Unused /\ v5 = Unused
       /\ v6 = Unused /\ v7 = Unused /\ v8 = Unused /\ v9 = Unused
       /\ v10 = Unused /\ v11 = Unused /\ v12 = Unused
    \/ /\ which = "Scores" /\ Scores!Init
       /\ v2 = Unused /\ v3 = Unused /\ v4 = Unused /\ v5 = Unused
       /\ v6 = Unused /\ v7 = Unused /\ v8 = Unused /\ v9 = Unused
       /\ v10 = Unused /\ v11 = Unused /\ v12 = Unused
    \/ /\ which = "Intake" /\ Intake!Init
       /\ v5 = Unused /\ v6 = Unused /\ v7 = Unused /\ v8 = Unused
       /\ v9 = Unused /\ v10 = Unused /\ v11 = Unused /\ v12 = Unused
    \/ /\ which = "Models" /\ Models!Init
       /\ v8 = Unused /\ v9 = Unused /\ v10 = Unused /\ v11 = Unused
       /\ v12 = Unused
    \/ /\ which = "Settings" /\ Settings!Init
       /\ v10 = Unused /\ v11 = Unused /\ v12 = Unused
    \/ /\ which = "Launch" /\ Launch!Init
       /\ v10 = Unused /\ v11 = Unused /\ v12 = Unused
    \/ /\ which = "Seeding" /\ Seeding!Init
       /\ v9 = Unused /\ v10 = Unused /\ v11 = Unused /\ v12 = Unused

TelemetryNext ==
    \/ which = "Alerts" /\ Alerts!Next /\ UNCHANGED <<which, v9, v10, v11, v12>>
    \/ which = "Logs" /\ Logs!Next /\ UNCHANGED <<which, v8, v9, v10, v11, v12>>
    \/ which = "Filters" /\ Filters!Next /\ UNCHANGED <<which, v12>>
    \/ which = "Map" /\ Map!Next /\ UNCHANGED <<which, v8, v9, v10, v11, v12>>
    \/ which = "Overview" /\ Overview!Next /\ UNCHANGED <<which, v7, v8, v9, v10, v11, v12>>
    \/ which = "Threats" /\ Threats!Next /\ UNCHANGED <<which>>
    \/ which = "Forecasts" /\ Forecasts!Next /\ UNCHANGED <<which, v9, v10, v11, v12>>
    \/ which = "Forecast" /\ Forecast!Next /\ UNCHANGED <<which, v2, v3, v4, v5, v6, v7, v8, v9, v10, v11, v12>>
    \/ which = "Scores" /\ Scores!Next /\ UNCHANGED <<which, v2, v3, v4, v5, v6, v7, v8, v9, v10, v11, v12>>
    \/ which = "Intake" /\ Intake!Next /\ UNCHANGED <<which, v5, v6, v7, v8, v9, v10, v11, v12>>
    \/ which = "Models" /\ Models!Next /\ UNCHANGED <<which, v8, v9, v10, v11, v12>>
    \/ which = "Settings" /\ Settings!Next /\ UNCHANGED <<which, v10, v11, v12>>
    \/ which = "Launch" /\ Launch!Next /\ UNCHANGED <<which, v10, v11, v12>>
    \/ which = "Seeding" /\ Seeding!Next /\ UNCHANGED <<which, v9, v10, v11, v12>>

TelemetrySpec == TelemetryInit /\ [][TelemetryNext]_TelemetryVars

-------------------------------------------------------------------------------
(* Each is the property of that name of its component, explained there. *)

TelemetryTypeOK ==
    CASE which = "Alerts" -> Alerts!TypeOK
      [] which = "Logs" -> Logs!LogsTypeOK
      [] which = "Filters" -> Filters!FiltersTypeOK
      [] which = "Map" -> Map!MapTypeOK
      [] which = "Overview" -> Overview!OverviewTypeOK
      [] which = "Threats" -> Threats!ThreatsTypeOK
      [] which = "Forecasts" -> Forecasts!PredictionsTypeOK
      [] which = "Forecast" -> Forecast!ForecasterTypeOK
      [] which = "Scores" -> Scores!ScorerTypeOK
      [] which = "Intake" -> Intake!IntakeTypeOK
      [] which = "Models" -> Models!ModelTypeOK
      [] which = "Settings" -> Settings!SettingsTypeOK
      [] which = "Launch" -> Launch!LauncherTypeOK
      [] which = "Seeding" -> Seeding!SeedTypeOK

(* alerts/page.tsx: the page at rest shows what was served, and never demo *)
(* alerts as live ones.                                                    *)
AlertsPageIsServed ==
    which = "Alerts" => Alerts!QuietPageIsServed /\ Alerts!LivePageListsRows

(* logs/page.tsx: at rest the table is the answer to its query. *)
QuietShowsQuery ==
    /\ which = "Logs" => Logs!QuietShowsQuery
    /\ which = "Filters" => Filters!ShownMatches /\ Filters!PageHasRows

(* overview/page.tsx: no panel of a page at rest shows a log oftener than  *)
(* its numbers count it, and one with room for all shows it as often;      *)
(* geo-map/page.tsx: the map and its numbers fit the panel beside it.      *)
PanelsAgree ==
    /\ which = "Overview" => Overview!PanelsAgree
    /\ which = "Map" => Map!MarkersFitPanel /\ Map!NumbersCoverMap

(* threats/page.tsx: tiles, list and pages fit together. *)
ThreatsPageFits ==
    which = "Threats" => Threats!CountsMatchEntities /\ Threats!PageShowsSomething

(* predictions/page.tsx: the forecast at rest is the one asked for. *)
QuietForecastIsAsked == which = "Forecasts" => Forecasts!QuietForecastIsAsked

(* predictor.py: a list with logs gets three to eight predictions, each of *)
(* another attack, and more logs hide no attack found before.              *)
ForecastStands ==
    [][which = "Forecast" => Forecast!ThreeToEight' /\ Forecast!Stands]_TelemetryVars

(* threat_scorer.py, explainer.py: what becomes an alert has a cause; from *)
(* normalizer.py to logs.processor.ts: every log that its sender writes as *)
(* it should is judged, and alerts as its kind can.                        *)
AlertHasCause ==
    /\ which = "Scores" => Scores!AlertHasCause
    /\ which = "Intake" =>
          Intake!SendersFitValidators /\ Intake!WindowsAlerts /\ Intake!ClaimsDoNotAlert

(* anomaly_detector.py: the parts in use are of one training, and never the  *)
(* newest statistics with older parts.                                      *)
LoadedIsOneTraining == which = "Models" => Models!LoadedIsOneTraining

(* platform-settings.tsx: a form at rest knows what is stored. *)
SavedIsStored == which = "Settings" => Settings!SavedIsStored

(* start-all.ps1, stop-all.ps1: a stop that nothing overlaps passes nothing over. *)
StopStopsAll == which = "Launch" => Launch!StopStopsAll

(* seed.ts: a seed that ends leaves exactly the seeded data. *)
SeedConverges == which = "Seeding" => Seeding!SeedConverges

===============================================================================
