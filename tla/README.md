# CyberShield AI: specification and verification

TLA+ models of the CyberShield AI threat-intelligence platform, the TLC runs
that check them on small instances, and TLAPS proofs for all instances. Every
definition is translated from the source under `src/`; `PROJECT.json` says which
lines each definition stands for, which run checks which property, which
changed definition ("mutant") each property catches, and where the code is
exposed to what hazard.

## 1. The system

```
 Windows event log ──> collector.py ──┐  POST /api/logs/bulk
 browser (Next.js) ── lib/api.ts ─────┤
                                      v
      NestJS backend: LogsService ──> MongoDB  security_logs
                          │
                          └─ logQueue.add ──> Redis / BullMQ "log-processing"
                                                   │ at least once
                                                   v
      LogsProcessor.process ── POST /api/v1/detect ──> ML service (FastAPI)
             │  findByIdAndUpdate ──> MongoDB
             └─ alert.create, threatScore.create ──> PostgreSQL
      AlertsService, ReportsService, AuthService, UsersService,
      SettingsService, ThreatsService, DashboardService  <──> PostgreSQL, MongoDB
```

### Inventory

| part | state it keeps | operations | hard behaviour | what makes it correct |
|---|---|---|---|---|
| Log ingest, `logs.service.ts` | documents in MongoDB (`isProcessed`, scores) | `create`, `createBulk`; reads `findAll`, `findOne`, `getStats` | store first, enqueue after; each enqueue may fail; `insertMany` with `ordered: false` may write some documents and throw; clients may submit the triage fields themselves | a job never outruns its document; a stored log is triaged or there is a named cause |
| Log worker, `logs.processor.ts`, with BullMQ | one job per log, the run in progress, Alert and ThreatScore rows | `process` | at-least-once delivery, lost locks with the old run still going, a crash at every await, three stores without a transaction, errors swallowed | bounded duplicates, rows only for marked logs, rows and document agree, the mark is final |
| Windows collector, `collector.py` | high-water marks and signatures, in memory and in a file | `run_cycle`, `authenticate`, `ingest_logs_bulk` | a cycle that fails half way; a time-out after the backend stored the batch; the file is overwritten in place | no event sent twice by a life, none skipped without a cause |
| Senders and validators, `normalizer.py`, forms of `logs/page.tsx`, `create-log.dto.ts`, `models.py` | none | normalise, validate, default | three validators in three languages, fields a sender may claim | what a sender writes as it should is stored and judged |
| Alerts, `alerts.service.ts`, `alerts/page.tsx` | Alert rows; on the page a list, counters, a demo flag and a snapshot per action | `update`; `fetchAlerts`, `handleAlertAction` | optimistic edits rolled back to a snapshot of the click, over what came since | the page at rest shows what the backend served; demo alerts never pass for live ones |
| Authentication, `auth.service.ts`, `jwt.strategy.ts` | users; tokens are stateless | `register`, `login`, `refreshTokens`, `logout` | check-then-create on a unique email; deactivation against tokens and requests under way | what was revoked lets nothing in; one account per email |
| Users, `users.service.ts`, `users/page.tsx` | `role`, `isActive`; cards and dialogs of the page | `update`, `remove` (soft) | administrators overlapping; forms that send role and status of an old copy; every failure swallowed by the page | only a request that says so brings an account back; the cards are the newest rows |
| Session, `lib/api.ts`, `auth-store.ts`, `login/page.tsx`, `register/page.tsx`, `(dashboard)/layout.tsx` | tokens and user in localStorage; the store and the forms in front of the dashboard | requests, refresh, sign-in and -out, the gate | several 401s at once; sign-out during a refresh; a router that arrives later, effects that run later | who is shown as signed in has tokens, and those of that account; nobody else stays on the dashboard |
| Settings, `settings.service.ts` and its forms | a notification row per user, platform keys | look-up (creates), upserts, `changePassword` | check-then-create on a unique user id; four requests for one save; a form left while its request goes on | a form at rest knows what is stored |
| Reports, `reports.service.ts`, `reports/page.tsx` and its dialogs | Report rows, two files per report; table, tiles, drawer, form | `generateReport`, `remove`, `findAll`, `findOne`, `getDownloadStream`, preview | files first, row after, nothing is cleaned up; two deletes at once; numbers from many queries; the drawer opens before its answer | a listed report can be downloaded; its numbers add up; drawer, preview and tiles show what they say |
| Threats and dashboard | none (reads); the pages' filters, orders and page numbers | aggregates, `useApi` | counts from several queries without a snapshot; answers out of order | panels, tiles and list agree; the page shown exists |
| Log browser, `logs/page.tsx`, `telemetry-store.ts` | copies of uploads in localStorage, the query, the table | query, upload by chunks, filters, pages | answers out of order; a chunk that fails; copies beside stored logs | at rest the table is the answer to its query |
| Predictions, `predictions.service.ts`, `predictor.py` | none; the page's source, window and forecast | `runPrediction`, `predict` | overlapping requests; bands, shares and padding | the forecast shown is the one asked for; more evidence hides no attack |
| ML detector, `anomaly_detector.py`, `main.py` | models in memory and in four files | `load`, `train`, `detect` | four dumps that are not atomic; a training that fails half way | the parts in use are of one training |
| ML scorer, `threat_scorer.py`, `explainer.py` | none | `score`, `explain` | weights, rounding to even, a threshold kept in two programs | what becomes an alert has a reason |
| Seed, `seed.ts` | all tables | one run | no transaction, reruns after failures | a seed that ends leaves its data and nothing else |
| Scripts, `start-all.ps1`, `stop-all.ps1` | containers, windows, ports | start, stop | one deadline shared by the waits, windows that do not listen yet, steps that fail in silence | a stop nothing overlaps passes nothing over |
| Attack map, `getGeoAttacks`, `geo-map/page.tsx` | none in the backend; the page's answer, filter and markers | three reads for one answer; a filter told to the page by an effect | markers and numbers fit the panel beside them |
| Presentation, plumbing, bulk generator | none that a protocol depends on | - | - | not modelled (section 7) |

## 2. Modules

| module | models | instance |
|---|---|---|
| `ScoreBands` | the bands of the threat score in `logs.processor.ts` | - |
| `LogPipeline` | `LogsService.create` / `createBulk`, `LogsProcessor.process`, and what the code relies on in BullMQ, MongoDB and PostgreSQL | `MCLogPipeline` |
| `LogTriage` | the promise to readers of the stores, which `LogPipeline` implements: a log is received once, its mark is final, rows are only added, only after the mark, only so many | `MCLogPipeline` |
| `Collector` | `collector.py` and `win_events.py`: the reader, the client, the state file, the cycle | `MCCollector` |
| `ReportStore` | `reports.service.ts`: generation, removal, download and preview of stored reports | `MCReportStore` |
| `ReportArchive` | the promise to clients of the reports, which `ReportStore` implements: a report is listed once, withdrawn before it is deleted, never comes back, is sent whole, and one client at most is told that it is gone | `MCReportStore` |
| `LogPipelineProofs`, `CollectorProofs`, `ReportStoreProofs` | theorems about these three | - |
| `AlertTriage` | alert rows and the page of alerts | `MCTelemetry`, `MCAlertTriage` |
| `LogsPage` | the page of logs: queries, uploads, copies | `MCTelemetry` |
| `LogFilters` | what that page looks for: toolbar, order, pages, validation, fallback | `MCTelemetry` |
| `OverviewPage` | the dashboard's panels and `useApi` | `MCTelemetry` |
| `AttackMap` | `getGeoAttacks` and the page of the map with its panel | `MCTelemetry` |
| `ThreatsPage` | the page of threat scores and the two queries behind it | `MCTelemetry` |
| `PredictionsPage` | the forecast page and the prediction proxy | `MCTelemetry` |
| `Forecaster` | `predictor.py`: heuristics and padding | `MCTelemetry` |
| `Scorer` | `threat_scorer.py`, the reasons of `explainer.py`, the verdict of `main.py` (extends `ScoreBands`) | `MCTelemetry` |
| `LogIntake` | one log from its sender (`normalizer.py`, the forms of `logs/page.tsx`, a client) through `CreateLogDto`, the schema and `LogEntry` to the verdict (instantiates `Scorer`) and the type of its alert | `MCTelemetry` |
| `ModelStore` | `anomaly_detector.py`: training, dumps, loading | `MCTelemetry` |
| `SettingsForm` | the platform rules: form, rows, and the log worker that ignores them | `MCTelemetry`, itself |
| `Launcher` | `start-all.ps1`, `stop-all.ps1` | `MCTelemetry` |
| `Seed` | `prisma/seed.ts` | `MCTelemetry` |
| `OperationsProofs` | theorems about `ModelStore`, `Launcher`, `Seed`, `Scorer`, `LogIntake` | - |
| `PageProofs` | theorems about `SettingsForm`, `PredictionsPage`, `AlertTriage`, `OverviewPage`, `AttackMap`, `LogsPage`, `LogFilters`, `ThreatsPage`, and about `Forecaster` | - |
| `TelemetryProofs` | the same as theorems about `MCTelemetry` | - |
| `TokenRefresh` | `lib/api.ts`, `auth-store.ts` | `MCOffice` |
| `SignIn` | the forms of login and registration, the gate of the dashboard, the store they share | `MCOffice` |
| `Accounts` | registration, login, tokens, administration, passwords | `MCOffice` |
| `UsersPage` | the page of accounts over the backend's rows | `MCOffice`, `MCUsersPage` |
| `NotificationForm` | notification preferences: row and form in several tabs | `MCOffice` |
| `AccountForms` | a user's own name and password: two forms and their handlers | `MCOffice` |
| `ReportsPage` | table, drawer, deletion and generation on the page of reports | `MCOffice` |
| `ReportForm` | the generator's form, its preview and its payloads | `MCOffice` |
| `ReportList` | table, tiles, filters and downloads of that page | `MCOffice` |
| `ReportNumbers` | the aggregation behind a report | `MCOffice` |
| `OfficePartProofs` | theorems about `Accounts`, `TokenRefresh`, `SignIn`, `NotificationForm`, `AccountForms`, `UsersPage`, `ReportForm`, `ReportsPage`, `ReportList`, `ReportNumbers` | - |
| `OfficeProofs` | the same as theorems about `MCOffice` | - |

The modules meet at the interfaces of the program. What `Collector` posts is
what `LogPipeline`'s `CreateBulk` takes, and `Collector` allows that insert
every outcome `CreateBulk` has (all, a part, none, with or without an answer).
The page of logs posts to the same handler. `Accounts` is the backend that
answers `TokenRefresh`, which allows a refusal at any time; `UsersPage` allows
its requests the answers of `Accounts`' handlers. Each page module contains the
handlers behind its own requests, as far as the page can tell them apart, so
that page and store are composed in one module.

`MCTelemetry` and `MCOffice` hold small instances of many components side by
side: `which` names the component a behaviour is of, and the variables `v1`,
`v2`, ... are that component's. The components of one instance have no step in
common, so nothing is lost by not interleaving them, and each of the properties
speaks of its own component. To follow one component in a counterexample, read
the `INSTANCE` that says which of its variables each `v` stands for. The
constants of the components that something is proved about are constants of
these two modules, which the configuration gives small values and about which
`TelemetryAssumption` and `OfficeAssumption` say what the proofs need; the
other components' are written into the instances.

Some modules contain, before a definition, changed forms of it (an edit that
takes its snapshot late, a cleaning that forgets a table). No specification
uses them; replacing the definition by one of them violates a property. Those
that `PROJECT.json` lists under "mutants" show that each property can fail.

### LogPipeline

*State.* `stored` and `doc` are the MongoDB collection (of a document only the
triage fields `isProcessed`, `anomalyScore`, `threatScore`). `pending[b]` is
what the ingest requests running in process `b` have stored and not yet
enqueued. `job`, `deliveries`, `stalls` are the BullMQ queue, one job per log
(the code adds a job in one place for each insert). `worker[b]` is the run of
`process()` in `b` - one at a time, since the processor sets no concurrency -
with the await it is about to issue (`phase`) and the local variables that
survive an await. `alerts` and `risks` are the PostgreSQL rows, kept per log
with the delivery that wrote them; the tables themselves have no column that
leads back to the log. `faults` is a history variable used only in properties.

*Actions.*

| action | code |
|---|---|
| `Create`, `CreateBulk` | `save()` / `insertMany`; the set given to `CreateBulk` is what the unordered insert wrote; the call may throw after it wrote, and then nothing is enqueued |
| `Enqueue` | one turn of the loop around `logQueue.add`; a rejection is logged |
| `Take`, `Stall` | BullMQ hands out a waiting job; its stalled check finds an active job without a live lock and puts it back, or fails it after `maxStalledCount` |
| `FindLog`, `Detect`, `UpdateLog`, `CreateAlert`, `CreateThreatScore`, `Recover` | the awaits of `process()` with their outcomes: success, the caught error, and - for the MongoDB update - the error of a write that was applied |
| `Return` | `process()` returns; it never throws, so the job is completed, unless the lock is lost |
| `Crash` | the backend process dies: requests and run are gone, stores and queue stay |

A stall may hit a job whose run is alive (a blocked event loop, a slow ML
call): the run goes on, without the lock, beside the new one. The delivery
number stands for the lock token.

*Abstracted.* The ML verdict is any pair of scores (the ML service is another
component); message, address and the other columns are carried along by the
code and decide nothing here. Requests are not identified: what they store is disjoint, so
`pending[b]` is the union over the requests of a process.

### Collector

*State.* `logged[c]` counts what the machine has logged on channel `c`; an event
is its channel and record id, which count up. `mark` and `seen` are
`StateManager`'s high-water marks and signatures in memory, `file` is the state
file: absent, torn, or whole with both. `phase` and `batch` say where
`run_cycle` is with which `new_events`. `token` is whether the client believes
its token. `stored[e]` counts how often the backend has stored an event;
`lives` the starts of the process; `missed` is a history variable with the
reason why an event may be missing.

| action | code |
|---|---|
| `Log` | the Windows event log (external) |
| `Start`, `Stop` | `load()` and the end of the process, at any point |
| `Collect(A)` | `collect_available_events` and the filter through `is_duplicate`; the channels outside `A` fail, which counts as no events; each channel lists its newest `Limit` events only |
| `Expire`, `Authenticate` | the renewal due by the client's clock; a login and its failure |
| `Post(S)`, `PostUnauthorized` | the request of `ingest_logs_bulk`: the backend stores `S`, answered or not; a 401 leads to a login and another post |
| `MarkAndOpen`, `WriteState` | `mark_processed` for the batch, then `save()`: opening empties the file, writing may fail |

*Abstracted.* What a log says (`normalizer.py` is in `LogIntake`) and the dry
run. Clearing a channel (record ids starting over) is not modelled.

### ReportStore

*State.* `gen[r]` is where `generateReport` is, `file[r]` what the storage
directory holds of the report and its JSON companion (nothing, a part, all),
`row[r]` whether PostgreSQL lists it. `req[q]` is a request being served: a
removal after its look-up and after its unlinks, a download or a preview after
its look-up, after `existsSync`, and with the file open. `removals[r]` counts
the removals that were answered with success. `begun` and `cause` are history.

| action | code |
|---|---|
| `Generate`, `Write`, `FinishMain`, `FinishCompanion`, `Persist`, `FailWriting` | the steps of `generateReport` and of `buildPdfReport` / `buildCsvReport`, and its `catch`, which removes nothing |
| `Remove`, `Unlink`, `DeleteRow` | `remove`: the look-up; the unlinks, which run in one turn of the event loop and swallow failures; the delete, which throws when there is no row any more |
| `Read`, `Check`, `Open`, `Answer` | `getDownloadStream` (main file) and `findOne` (companion) |
| `Die` | the backend process dies, by itself or by the unhandled error of a stream that finds no file |

`ArchiveStage` and `Sent` are the state as clients see it, for `ReportArchive`.
A process that dies between two unlinks leaves what `Unlink` leaves when the
later ones fail. The numbers in a report are in `ReportNumbers`.

### The pages and their backends

In every one of these modules a request is a record in a slot (or a set of
requests), sent by one action, served by another and landed or failed by a
third; other clients write in between. Histories mark when the code cannot be
expected to agree (a request crossed another, something failed, somebody else
wrote), and the properties speak of pages at rest without such a mark, which is
the claim that nothing but the known races spoils them. They do not say that
the races are harmless, which they are not: an overtaken answer that lands last
stays on the page of logs (and an upload of which chunks were not sent is
announced in full), a list that shrinks leaves a later page of the threat
scores empty, the second of two forecasts under way takes the page whatever is
chosen, and a sign-out during a refresh is undone by its answer. The marks
(`stale`, `replaced`, `crossed`, `carried`) are exactly these cases, and the
properties say that there are no others, and that where the code asks again at
rest the mark goes away.

Of the overview's list of activities the alerts are left out, but may take any
of its places; which copies come first in it, and logs that drop out of the 30
days with time, are not told. Of a log the module knows type, address, time,
whether it counts as an attack and whether it is of those days.

| module | state | actions and their code |
|---|---|---|
| `AlertTriage` | `status`, `resolved` (rows); `page` (list, counters, demo), `pending[k]` with the snapshot | `Sync`, `Serve`, `Land`, `FetchFails` (`fetchAlerts`); `Act`, `ActOnDemo`, `Refused` (`handleAlertAction`, whose route does not exist); `Update` (a client of the API); `Raise` (the worker) |
| `LogsPage` | `stored`, `copies`, `query`, `fetches`, `shown`, `upload` | `ChangeQuery`, `Sync`, `Answer`, `Land` (`fetchLogs`); `Submit`, `ChunkStored`, `Ingest` (upload); `OtherTab`, `Arrive` |
| `LogFilters` | the filters, `view` (page, length, order), `due`, `table` | the handlers of the toolbar, heads, rows and page controls; `Debounced`; `Displayed`, `Served`, `FallBack` |
| `OverviewPage` | `data[p]`, `asked[p]` for each panel | `HandleRefreshAll`, `Serve`, `Land`, `Fail` (`useApi`); `Upload`, `Copy`, `ClearUploadedLogs`; `Answers(p)` are the logs an aggregate answers with (its match, its limit, its days), `Views(p)` what a panel may show of its answer and of the copies |
| `AttackMap` | `stored`, `asked` (answers half read), `data`, `filter` of the panel, `filtered` at the page | `ReadOrigins`, `ReadCountries`, `ReadSummary` (`getGeoAttacks`); `HandleRefresh`, `Land`, `Fail` (`useApi`); `Choose`, `OnFilterChange` (the panel and its effect); `Ingest` |
| `ThreatsPage` | `entities`, `summary`, the filters, `page` | `Sync`, `ReadRows`, `ReadScores`, `FetchThreats`, `FetchFails`; the setters and `Turn`; tiles, capsule, cards and footer as operators |
| `PredictionsPage` | the page's state by its names, `underway[s]` | `ChooseWindow`, `HandleInputModeChange`, `HandlePresetRun`, `Rerun`; `Succeeds`, `Fails` |
| `UsersPage` | `rows` and the `order` of their registration, `shown`, `dialog`, `req[s]` | `FetchUsers`, the dialogs, `Submit`, `ToggleStatus`, `Serve`, `Fail`, `Land`; `Others`, `Registered` |
| `NotificationForm` | `row`, `tab[t]` | `Find`, `Create` (two statements), `Edit`, `Discard`, `Save`, `Upsert`, `SaveFails` (the upsert may still come), `Reopen` with saves left under way |
| `AccountForms` | `stored`, `known`, `open`, `text`, `calls` | `SetActiveTab`, `SetName`, `HandleDiscard`, `SaveName`, `SavePassword`, `Mismatch`; `UpdateProfile`, `ComparePassword`, `StorePassword` (the service); `Succeed`, `Refused`, `Lose`, `Drop` (what becomes of the answer) |
| `SettingsForm` | `saved`, `initial`, `form`, `patches` | `Fetched`, `Save`, `Upsert`, `PatchFailed`, `Saved`, `Reenter`; `RaiseAlert` |
| `ReportsPage` | `archive`, `list` (its newest `Limit`), `drawer`, `making`, `deleting` | `HandleInspect`, `HandleDelete`, `HandleQuickPreset`, `HandleGenerate`, `HandleRefresh` and what lands of each |
| `ReportForm` | `form`, `preview`, `shown`, `making` | the setters, `HandleComputePreview`, `HandleGenerate`; `PreviewPayload`, `GeneratePayload`, `DateRange` |
| `ReportList` | `rows`, `stats`, `downloading`, `marker` | `HandleRefresh`, `ReadRows`, `GetReportStats` (four queries), `HandleDownload` |

### Backend, scripts and the ML service

| module | state | actions and their code |
|---|---|---|
| `Accounts` | `account`, `tokens`, `req[q]`: a request past its first await | `Register`, `Create`, `ValidateUser`, `Login`, `Refresh`, `GenerateTokens`; `AskUpdate`, `Update`, `AskRemove`, `Remove`; `AskPassword`, `Compare`, `StorePassword`; `Expire` |
| `TokenRefresh` | `pair`, `user` (localStorage), `signedIn`, `leaving`, `req[q]` | `Send`, `Answered`, `Unauthorized`, `Refreshed`, `RefreshFailed`, `RetryRefused`; `LogIn`, `Logout`, `Load` |
| `SignIn` | `route`, `going`, `due` (the effect to come), `panel`, `local`, the store, `kept` | `Arrive`, `Gate`, `Visit`, `Expire`, `OtherTab`; `SignInSubmit`, `SignUpSubmit`, `RegisterSubmit`, `HandleChange`, `Switch`, `SignInLink`; `Accepted`, `Refused`, `SignOut` |
| `ReportNumbers` | `alerts`, `logs`; `left`, `number`, `top` of the report being made | `Ask`, `Count(n)` for each query of `Promise.all`, `GroupTypes`, then `CountLogs`, `ListLogs`, `AskLogs` in order; `Raise`, `Triage`, `Log` in between; `Posture`, `Recommendations`, `Csv`, `Pdf` |
| `ModelStore` | `memory[p]`, `disk[p]` for the four parts, by training | `Start`, `TrainModels`, `Fit`, `Save`, `Raises`, `Crash` |
| `Scorer` | `log`, one log's fields | `Change` of a field; `ThreatScore`, `Categorised`, `IsAnomaly`, `NamedReasons` |
| `LogIntake` | `log`, `stage`, `threat`, `alert` of the log looked at | `Collect`, `SubmitForm`, `Upload`, `PostDirectly`, each with the sender's own normalisation; `Receive` (DTO and defaults), `Judge`, `GoWithout`, `Stumble` (the outcomes of `process`); `AlertTypeOf` |
| `Forecaster` | `count[k]`, the logs of each kind | `Add`; one operator per heuristic, `Found`, `Padding`, `Predictions` |
| `Seed` | tables by row counts or keys, `stage`, `left` | `Start`, `Proceed` (one statement), `Fail`; what the backend writes meanwhile |
| `Launcher` | `docker`, `container`, `app`, the steps of both scripts | `StartAll`, `Docker`, `Compose`, `AwaitContainer`, `Open`, `AwaitApp`; `StopAll`, `KillWindows`, `StopPortListener`, `ComposeDown`, each of which may leave some of what it is to end; `survived` is what they left |

`Scorer` and `Forecaster` are pure functions of the code. Their behaviours
change the input step by step, so that TLC visits every input of the instance
and a step compares two neighbouring inputs.

## 3. Runs

| run | instance | checks | shows |
|---|---|---|---|
| `overlap` | 1 log, 2 backends, 2 crashes, scores 0/59/60, anomaly 0/1, clients that claim the log is processed, fairness | `TypeOK`, `OneRowPerDelivery`, `RowsFollowTriage`, `RowsAgreeWithLog`, `ImplementsTriage`, `StoredLogSettles` | two runs of one job interleaved at every await leave bounded, consistent rows, the pipeline implements `LogTriage`, and under fairness no log is worked on for ever |
| `batch` | 2 logs, 2 backends, 1 crash, symmetry | `JobHasDocument`, `TriagedOnce`, `LossHasCause` | partial bulk inserts, lost enqueues; exactly-once without faults; each loss has one of the listed causes |
| `promotes` (violation) | 1 log | `PromotesHighScores` | README.md:141 against the swallowed failure of the alert insert |
| `collector_lives` | 1 channel, 3 events, 2 per query, 3 lives, 1 signature kept, fairness | `TypeOK`, `OncePerLife`, `MissingHasCause`, `MarkSubsumesSignatures`, `SavedNeverResent`, `EventsAreMarked` | duplicates come from restarts alone, never of what a readable file covers; pruning signatures is harmless; what is marked and not in the backend was passed over or lost with its post; the marks reach every event |
| `collector_reboot` (violation) | 1 channel, 1 event | `NoDuplicateIngestion` | section 4 |
| `report_archive` | 2 reports, 2 requests at a time, symmetry | `TypeOK`, `ListedIsWhole`, `ServedIsWhole`, `OrphansHaveCause`, `ImplementsArchive` | files and row, which no transaction ties together, stay consistent for the clients, who see a `ReportArchive` |
| `report_delete` (violation) | 1 report, 2 requests | `DeletedFromStorage` | section 4 |
| `telemetry` | the instances of `MCTelemetry` | `TelemetryTypeOK` and the eleven properties below | the pages and services around logs, alerts and scores |
| `office` | the instances of `MCOffice`, symmetry of names, passwords and slots | `OfficeTypeOK` and the seven properties below | accounts, sessions, settings and reports |
| `alert_actions` (violation) | 1 alert, 1 demo alert, 1 action | `ActionsArePersisted` | section 4 |
| `user_created` (violation) | 1 account and an administrator, 2 roles | `ChosenRoleIsGiven` | section 4 |
| `settings_threshold` (violation) | 2 rules, thresholds 50 and 75, a score of 60, after a save that succeeded | `AlertsFollowThreshold` | section 4 |

| property of `telemetry` | says |
|---|---|
| `AlertsPageIsServed` | a live page of alerts with no action under way, and none that overlapped since its list came, shows what the backend served, tiles and capsule count what a click on them lists; whatever overlaps, no rollback brings demo alerts into a page that calls itself live |
| `QuietShowsQuery` | a page of logs whose last answer was not overtaken shows the answer to its query with the copies there are; rows match the filters they were asked with, and a page that was there when it was turned to has rows |
| `PanelsAgree` | on a live dashboard at rest, if nothing failed or came since its panels were last asked at rest, no panel shows a log oftener than the numbers count it, and what neither a match, the 30 days nor a limit cuts off it shows as often (the list of activities promises the first only); the map shows the markers that its panel selects, one of an address, and its numbers cover them |
| `ThreatsPageFits` | tiles and capsule fit the entities of the page, the chart adds up, and cards or table show what the footer says |
| `QuietForecastIsAsked` | unless requests crossed, the forecast on the page is one of the window and source chosen |
| `ForecastStands` | three to eight predictions, each of another attack; no log hides an attack found before, none lowers a heuristic that goes by counts |
| `AlertHasCause` | the service's verdict and the worker's alert agree, and a flagged log has a reason the explainer names. Every log of the collector passes both validators and one of the form the backend's; the service refuses a stored log for a port alone. A Windows log that alerts is a failed logon, never critical, or a critical event at the least grade, which takes an anomaly score above 0.97. A score that a sender wrote never alerts |
| `LoadedIsOneTraining` | wherever trainings were cut short, a detector that counts as loaded has all parts `predict` asserts, and neither memory nor files pair the newest statistics with parts of an older training; unless one was cut short since the last that finished, the parts are of one training and those a restart loads |
| `SavedIsStored` | a form of rules at rest knows what is stored, unless a request failed, crossed or somebody else wrote |
| `StopStopsAll` | when the stop script is done, what still runs is what one of its steps tried to end and did not, unless something was started meanwhile: nothing is passed over |
| `SeedConverges` | a seed that ends leaves just its data, whatever was there before |

| property of `office` | says |
|---|---|
| `SessionIsWhole` | a tab shown as signed in has tokens or is on its way to the login; they are those of the stored user, and a tab signed out stays so, unless requests outlived the change. In front of the dashboard, who is signed in gets in and nobody else stays, a loading form waits for its request, and forms that are sent have what the backend asks for |
| `RevokedIsOut` | a replaced password or a deactivated account lets nothing in once the requests it had let in are over |
| `DisabledUntilReactivated` | only a PATCH that carries `isActive = true`, from somebody who is not out himself, brings a deactivated account back |
| `ShownIsStored` | at rest every card is its row, and an account without one does not exist, is deactivated or is older than the newest that are listed, unless something failed, crossed or was done by others |
| `PreferencesShown` | a clean form at rest shows the stored preferences, unless another form saved; name and password as the page knows them are those stored, unless a save crossed another or was lost, the open form waits for one request of its own, and unsaved changes are shown to who typed only |
| `ReportsPageShowsArchive` | the drawer's summary is of its report, the table shows the newest of the archive, the preview is of the form and the title names the type, tiles and table fit, and a marked download runs |
| `ReportAddsUp` | severities, types, statuses and logs of a report add up as far as nothing changed while they were counted, its posture and advice follow from its data |

*Bounds.* `MaxStalled = 1` is BullMQ's default. One log suffices for
`overlap`: the actions touch one log each, and the two runs on it are the
interaction; two backends are as many as can be on one job when it stalls
once, and the second crash lets both die. Two logs are needed where a batch
is split. 59 and 60 are the two sides of the threshold. Deadlock is not
checked there: clients may stop submitting, and then everything rests.
In `Collector`, three lives give a life that reads a file which a life that
itself read a file has written; with `Limit` below `MaxRecord` the reader
passes events over. The safety properties relate events of one channel, and are
proved for any number of channels. In `ReportStore` two requests at a time are the pairs that
interact (two removals, a removal and a read), and a second report is there for
the crash that ends the generation of one report while another is removed.

In `telemetry` and `office` two requests of a kind are under way at a time,
which is what it takes for one to overtake another, and there are two or three
things to act on. Pages are one or two rows long, so that there are several of
them, and of an enumeration as many values are taken as the component tells
apart (two severities, a category inside and one outside the tiles, a source
the backend accepts and one it refuses). `Forecaster` has a kind of log for
every heuristic, and as many failures as lead through all bands of the
brute-force heuristic; with its window of one minute the rates come of
themselves. `Scorer` runs through all of its fields; the anomaly scores are the
ends and 0.69, and the ports one of each risk. `LogIntake` takes all events the
collector asks for and all choices of the form; its anomaly scores are either
side of the one from which a critical event of Windows alerts. `MaxTrainings` is 3 for a
training that follows one cut short and one that finished. `MaxPairs` is 4 for
two sign-ins and a refresh by each of two requests.
`AttackMap` has three attacks from two addresses and from two countries, one of
them with both, and shows two origins, so that an address is left out;
`Container` has two containers for the shared deadline, and `MaxStarts = 2` is
a start that meets what another left. In `AccountForms` two calls are a save
and the one of the form opened again.
The overview has two logs of different types and addresses, all its limits are 1, and one of
the logs is of the last 30 days; the run looks at the panels whose answers a
limit cuts and which merge copies in (numbers, sources, activities), the
theorem at all six. The lists of users and of reports hold one, with two
accounts or reports beside each other, so that one drops out of the list.
`Scorer` and worker share the threshold 60: the run fixes it, while config.py:42
would take another from the environment variable `THREAT_THRESHOLD`.
`MaxTrouble = 1` loses one request or lets others write once, which suffices to
tell a page that notices from one that does not. In `ReportNumbers` two alerts
are one that is there and one that comes. Both runs need `CHECK_DEADLOCK
FALSE`: with their bounds used up, components stop.

*Fairness* (`overlap`, `promotes`). Weak fairness of `Process(b)`: an await in
these handlers ends, the drivers and `fetch` have timeouts and the event loop
goes on. Of `Enqueue`: the loop goes on. Of `Take` for each log: BullMQ hands
out jobs in order, and a worker that is idle asks. Of `Stall` only for a job
no live run owns: the stalled check runs every 30 s and finds it. Nothing
forces a client to submit, a process to crash, or the lock of a live run to
expire.

`collector_lives`: weak fairness of `Start` (somebody starts the collector
again), of `Authenticate`, `MarkAndOpen` and `WriteState` (the calls have
timeouts and errors are caught). Strong fairness of `Collect(Readable)`, as a
query may fail now and then and a stop may fall between any two cycles, and of
the post, as a token may expire or be refused again and again but not for ever.

The pages have no fairness and no liveness properties: the browser's `fetch`
is given no timeout, so that a request may stay unanswered for ever.

## 4. Hazards and findings

`PROJECT.json` lists the hazards with their lines and the properties that watch
them. Six statements about the program are refuted, each by a run that ends in
a violation:

- `promotes`: README.md:141 says workers promote *any* event of score 60 or more
  to an alert; a failed insert of the alert is swallowed and never repeated.
- `collector_reboot`: README.md:277 says the state file prevents duplicate
  ingestion across reboots; it is saved after the post and emptied before it is
  written, so a stop in between repeats the batch.
- `report_delete`: `remove` reports success with a file left in the storage.
- `alert_actions`: the buttons of the alerts page patch `/alerts/:id/status`,
  which no controller routes, so that every action is rolled back.
- `user_created`: the form that says it assigns roles (users/page.tsx:980)
  creates an analyst, its default, as a viewer, the default of the table.
- `settings_threshold`: the page says that what it saved was "propagated"
  (platform-settings.tsx:124); after a save of the threshold that nothing
  disturbed the worker still alerts from its constant 60 on.

Other things the models follow the code in, where a comment, a text on the
screen or plain expectation says otherwise; no run of their own:

- A ThreatScore row is added for every log of score 60 or more, under a comment that says
  "Create / update" (logs.processor.ts:170).
- The collector's comment says "re-authenticating once" (collector.py:122); the
  recursion has no limit. A batch is marked as processed whatever became of its
  post (collector.py:254).
- The file of a download may vanish between the check and the opening
  (reports.service.ts:922), which ends the backend process.
- Two administrators may deactivate each other, and the last himself
  (users.service.ts:136).
- The edit form sends role and status as they were when it was opened
  (users/page.tsx:331): an edit of the role brings back an account deactivated
  meanwhile. The dialog that removes an account says that its tokens "will be
  revoked" (users/page.tsx:1220); they stay good, and are refused by the look-up
  of every use.
- The page of users asks for no page (users/page.tsx:192) and gets the newest
  20 (users.controller.ts:38); older accounts can be neither seen nor edited.
- The stop script ends with "All development servers and containers have been stopped"
  (stop-all.ps1:69) whatever its steps did: what `taskkill`, `Stop-Process` and
  `docker compose down` answer is not looked at (24-33, 38, 54-55).
- The worker's bands of severity and category (logs.processor.ts:233, 241) are
  not those of the ML service, whose category it does not use.
- "Ctrl/Shift+Click to multi-select" (log-filters.tsx:310) sends the severities
  as one string, which `@IsEnum` refuses (query-logs.dto.ts:46), as it does the
  source WINDOWS_SECURITY; the page then falls back to demo logs. README.md:135
  names filters of protocol, action and country that have no control.
- The page of logs puts its own copies on top of the stored logs also where an
  address or dates filter the latter, and counts them on top of the total
  (logs/page.tsx:730-738).
- The table of reports holds the newest 20; its filters, and "no reports
  match", work on these only (reports/page.tsx:187). Without a backend the
  tiles say 6 reports and the table lists the demo reports (mock-data.ts:573).
- A port that is none (70000, -1, 22.5) passes the form, the DTO and the schema
  (create-log.dto.ts:57, security-log.schema.ts:62) and is refused by `LogEntry`
  (models.py:25): the log counts as processed with scores 0 and never alerts.
- The form's "Login Failure", "Port Scan" and "Malware Detected" are not the
  names the worker knows (logs.processor.ts:217): their alerts are all
  SUSPICIOUS_LOGIN. The Defender ids 1006, 1007, 1008 and 1119, which the
  collector asks for (win_events.py:57), become harmless ANTIVIRUS_EVENTs
  (normalizer.py:154), and under the weights of the scorer malware that Defender
  finds alerts as MEDIUM at most, and not at all up to an anomaly score of 0.97.
- A report's range may end before it begins; nothing refuses it.
- Containers share one deadline in the start script, so that the last may be
  given no time at all, and its closing table says "HEALTHY" in any case.

## 5. Proofs

`LogPipelineProofs` holds for every set of logs and backends, every score set
within 0..100, every `MaxStalled` and `MaxCrashes` (`PipelineAssumption`, which
TLC evaluates in every run).

- `TypeCorrect`: `Spec => []TypeOK`.
- `RowInv` is the inductive invariant. The properties about rows are not
  inductive: that a delivery writes one alert needs to know that a run yet to
  write has a delivery number no row carries (`RowsAreDeliveries`), which needs
  that two runs never share a delivery (`RunsAreDeliveries`), and the bound on
  rows needs the bookkeeping between deliveries, stalls and the job's state
  (`QueueCounts`). That rows follow the mark needs that a run past the update
  has marked the log with the score it holds (`WritersHaveMarked`), and that a
  log is enqueued once (`EnqueuedOnce`), or the queue's counts would start over.
  One lemma per action shows that it preserves `RowInv`.
- `RowsBounded`, `RowsAfterMark`, `RowsShowLogScore`, `DocumentFound` follow
  from it; `NumberedRowsBound` counts rows by an injection into the deliveries.
- `TriageIsExactlyOnce` and `EveryLossHasACause` tell, log by log, the story
  from its insertion to its rows (`StoryInv` = `RowInv` and a `Story` of every
  log): stalls are faults (`StallsAreFaults`); as long as no fault has harmed
  a log, it is pending, or waits in the queue unmarked, or has a single run,
  the phase of which says what is marked and written so far, or is completed
  with all of it (`StoryGoesOn`); and unless an insert failed or a backend
  died, a delivery has an alert exactly if it has a ThreatScore row or its run
  is between the two (`RowsArePaired`). A step about one log leaves the stories of the others
  (`SameStory`).
- `PipelineImplementsTriage`: `Spec => ImplementsTriage`, with the invariant,
  by one lemma for each step of `LogTriage`.

`CollectorProofs` holds for every set of channels, every limit and all bounds
(`CollectorAssumption`). `CollectorInv` adds to the three safety properties
that memory is never behind the state file (`FileNotAhead`; otherwise a restart
could post what the file covers), that what is about to be posted is above the
marks and what this life has posted is below them or about to be marked
(`BatchIsNew`; hence once per life), and that each event a mark is about to
pass is in the batch or has a cause (`BatchIsAccounted`). The mark is the
maximum of a set of record ids: lemma `Greatest` shows that it exists, from the
well-foundedness of the naturals. `TypeCorrect`, `StoredOncePerLife`,
`MissingAccounted`, `SignaturesRedundant` follow, and `SavedOnce` - an action
property - from the invariant and the steps that post.

`ReportStoreProofs` holds for every set of reports and any number of requests.
`ReportInv` adds that the generation of a report that is or was listed is over
(`ListedHasEnded`), so that only removals touch its files, and that a removal
about to delete the row has unlinked every file or left a cause
(`RequestsAreListed`). `TypeCorrect`, `ListedWhole`, `ServedWhole`,
`OrphansAccounted` and `OneRemovalSucceeds` (`RemovedOnce`, which the archive
includes) follow. `StoreImplementsArchive` is `Spec => ImplementsArchive`: the
stage of a report is read off its row and whether a removal has reached its
files, and one lemma shows each step to be one of `ReportArchive` or a stutter.
The invariant gives the rest: a row that appears is of a report no removal has
touched, the row that a removal deletes is of a withdrawn report, and what a
read opens is whole.

`OperationsProofs` is about what operates the system.

- `ModelStore` (`MaxTrainings \in Nat`): `LoadedIsOneTraining` is not inductive
  either, as it says nothing of the files between two dumps. `ModelInv` adds
  that the parts fitted so far, and then the files written so far, are of the
  training under way (`TrainingIsUnderWay`), and that between trainings all
  four files are of one, unless a save was cut short (`DiskIsOneTraining`); and,
  for what is left when one was, that no part is of a later training than the
  last and that one under way has not placed its statistics (`MetaIsLast`).
  `ModelTypeCorrect` and `OneTrainingLoaded` follow.
- `Launcher`, for every list of containers and number of starts: `LaunchInv`
  counts the windows a start may have opened (`WindowsCounted`), lets
  containers live with the daemon only (`ContainersNeedDocker`), and says what
  a stop that nothing overlaps has closed, or left for `survived`, by each of
  its steps, and that it stays so (`StopProgress`). `AllStops` follows.
- `Seed`, for every size of its data: `SeedProgress` says, of each table and of
  the stage of an undisturbed seed, that the table is as before until its turn,
  empty until it is filled and complete afterwards. `SeedEndsWell` follows, for
  whatever was stored before, and however often seeds were cut short.
- `Scorer`, for every anomaly score from 0 to 100 and every set of ports: a log
  none of whose fields is a reason comes to 44 at most (country 4.5, port 10.35,
  severity 4.5, anomaly 24.15), which is below the threshold: a case
  distinction for the fields, arithmetic for ports and scores (`ScoresFit`).
- `LogIntake`, for the same: a log of the collector is what an event was
  normalized to (`Collected`), whatever the stage;
  what a stage says of the row (`StageFits`: a row with a score nobody computed
  has the one its sender claimed, or none), and that an alert is of a score the
  service computed for this row (`AlertFits`). That a failed logon stays below
  85 and any other event below 70, and below 60 unless it is critical and the
  detector gives it more than 97, is arithmetic over the weights
  (`CollectedScore`).

`PageProofs` is about pages, for every set of what they show and any number of
requests. Each invariant says what becomes true when the requests under way
have landed, which is what the property at rest needs one step earlier:
`FormKnows` (a saving form of rules has the value of the click under way for
every rule, or it is stored), `OneRequest` (until requests cross, there is one
forecast under way, of what is chosen), `OneAction` (until something happens
during an action, the page or the snapshot of its one action is the list
served; with `ListsAreOfRows` rows and demo alerts never mix),
`SettledIsStored` (after a refresh at rest the one answer under way of each panel
is one to the logs stored; that no group larger than those listed is left out,
and so that nothing is cut where all have a place, is `AllLead` and
`FewerGroups`),
`Covering` and `PanelToldPage` (what an answer to the map has read so far fits
the logs there are, and goes on to as logs come; here the numbers are proved by
injections and `FS_` theorems about cardinalities), and `NewestFits` (overtaken
fetches come before those that are not; the newest is of the query, or its
answer is shown). The theorems are `RulesAreKnown`, `ForecastIsAsked`,
`AlertsAreServed`, `PanelsCountAlike`, `MapFitsPanel` and `QueryIsShown`.
Of `LogFilters` the invariant says that a page with an answer shows the one to
what is asked for (`AnswerStands`) and that a page turned to while it was there
begins within the logs that match (`PageIsThere`). That such a page then has a
row needs no induction over a sorted list: in an order without ties the places of
the logs count from zero without a gap (`Places`, an injection into as many
numbers as there are logs is onto), so that a log has the place with which the
page begins (`SliceHasRow`, `FiltersShown`).
Of `ThreatsPage` it says that the scores a request has read hold the rows it has
read, and are those rows if there are fewer than the limit, unless it is torn
(`RequestFits`); that the counts of the page are those of such an answer, from
which the entities are (`AnswerFits`); and that the page begins within the list
unless the list was replaced under it (`NumberFits`). `ThreatsFit` follows: the
bars of the chart add up because the whole is the union of five disjoint sets
(`DisjointUnion`), and a page shows as many as its footer says because the
places of the listed entities are a bijection onto the numbers from zero
(`Places` again).
`Forecaster`, whose forecast one of the pages shows, is instantiated with the
list of logs as a parameter, `Forecast(c)`, so that lemmas compare the forecasts
of two lists of which one is longer (`Grows`). What the heuristics count - logs,
addresses, destinations, users - is a cardinality, and grows by `FS_Subset`;
what they make of it grows across all bands (`BruteForceStands`, ...,
`FoundStands`). Three to eight predictions: an attack is found by one heuristic
only, so the list has as many predictions as attacks (`AttacksCount`), of eight
names; and `Places` counts what the padding adds (`ThreeToEightHolds`).
`ForecastHolds` follows.

`OfficePartProofs` is about people and reports, for every set of accounts,
passwords, requests, tabs and reports.

- `Accounts`: a request past its first await names rows that exist
  (`RowsStay`); a revoked credential is relied on by no request, and a step is
  safe if what a request newly relies on is in force (`StaysOut`).
  `RevocationHolds` follows, and from the steps the action property
  `NobodyRevived`.
- `TokenRefresh`: `OneSession` says that until a call outlives a change of the
  session, tokens, user and all calls under way are of one account.
  `SessionHasTokens`, `SessionOfOneUser`.
- `SignIn`: a page whose effect has run and whose user does not belong there is
  being left (`StrangersLeave`). `GateHolds`.
- `NotificationForm`: a form that nobody has overtaken departs from the row
  (`TabsFit`). `CleanFormShowsRow`.
- `AccountForms`: the open form waits for one request, the answer of which gets
  through (`WaitsForOne`); a request that met no other is the only one of its
  kind, and what it has written is still there (`AloneIsOnly`); of a kind that
  is settled, stored and known agree, or an answer that says so is on its way
  (`SettledIsTold`). `OwnFormsKnow`.
- `UsersPage`: a request speaks of an account that has a card
  (`CardsHaveRows`) and holds what its form said (`ChangesAreFilled`); a fetch
  that is alone carries the newest rows there are (`LoneFetch`); and the heart of it,
  an equation between the two ends of every request: on a clean page the card
  of an account, changed by what the page will do when the answer lands, is the
  row, changed by what the backend will still do (`CleanWillAgree`, over
  `WillAgree`). At rest there is no request left to wait for.
  `CleanCardsAreRows`.
- `ReportForm`: a preview marked as of this form has the payload the form would
  send, through every edit that changes a range and every one that does not
  (`FormInv`, `EditKeeps`). `PreviewIsTrue`.
- `ReportsPage`: a request for the list that has no other beside it brings the
  newest of the archive (`LoneListing`); a quiet table is those unless such a request,
  or an answer that makes one, is on its way (`CleanIsArchive`); inspections
  that did not cross are one, of the drawer's report (`DrawerWaitsForOne`).
  `TableIsArchive`.
- `ReportList`: what each of the two requests has read so far is of the archive
  as it is, unless it changed (`RowsTell`, `TilesTell`). That their answers
  then fit is arithmetic about "the newest so many": lemma `Ranks` shows that
  the numbers of reports above each report count from zero without a gap (an
  injection into as many numbers as there are reports is onto), so that a table
  is full if the archive does not fit (`NewestAre`, `AnswersFit`).
  `TilesAreOfTable`.
- `ReportNumbers`: what the aggregates under way have counted is of the alerts
  and logs there are, as long as nothing changed since the first of them
  (`CountsTell`, `LogsTell`), and what has not been counted holds nothing
  (`NotYet`). The rest says that the numbers then fit each other, and is about
  sums. `Total` adds counts up as the number of pairs of a kind and one of its
  logs (`SumOver`), so that no law of sums needs an induction: that the fibres
  of a classification add up to the whole is a bijection onto such pairs
  (`PartsAddUp`, `SumCounts`), that a part is no more than the whole is
  `FS_Subset` (`SumGrows`, `SumPositive`), and the shares and the score are
  arithmetic over quotients (`HundredTimes`, `Quotient`). `NumbersFitHolds` and
  `AdviceFitsHolds` give `NumbersAddUp`.

`OfficeProofs` and `TelemetryProofs` state the properties of the two runs
themselves, as theorems about `OfficeSpec` and `TelemetrySpec`. They
instantiate the modules above with the variables `v1`, `v2`, ... and argue in
three steps: a component's definitions mean the same under the name of
`MCTelemetry` and under that of the proof module (lemmas `Same...`); a step of
the sum is a step of the one component that `which` names, or leaves its
variables alone (`OneComponent`); so the component's invariant, under the
condition that the behaviour is one of it, is an invariant of the sum
(`...InvHolds`). From `OfficeAssumption` follow `RevokedStaysOut`,
`DisabledStaysOff`, `SessionStaysWhole`, `SettingsAreTrue`, `CardsAreStored`,
`ArchiveIsShown`, `NumbersAddUp` and `OfficeTypeCorrect`; from
`TelemetryAssumption` `DetectorIsOfOneTraining`, `NothingIsLeftRunning`,
`SeedLeavesItsData`, `RulesAreKnown`, `ForecastIsAsked`, `AlertsAreServed`,
`PanelsFitTogether`, `TableIsAsked` (all of `QuietShowsQuery`: `LogsPage` and
`LogFilters`), `AlertsAreJustified` (all of `AlertHasCause`: `Scorer` and
`LogIntake`), `ThreatsAreCounted`, `TelemetryTypeCorrect` and, of the action
property `ForecastStands`, `MoreLogsHideNothing`. The two type invariants are
those of all components: most are part of the inductive invariants, those of
`ThreatsPage` (a page number is at most the number of entities, and a page is in
demo mode exactly if it shows nothing but the demo list) and of `LogIntake` have
lemmas of their own (`ThreatsTypedNext`, `IntakeTypedNext`).

The assumptions are those the code meets: bounds are natural numbers, a
day is one of the windows offered, statuses that a click sets are statuses, the
demo list is finite and has other ids than the table, the seed inserts no
reports, analyst and viewer are roles, a report is a PDF or a CSV, the table of
reports has at least one row, pages of logs and of threat scores have rows, an
order of logs or of threat scores has no ties (a sort that leaves equal values
in their order is one), there are finitely many entities, each of a category,
the demo list of entities is not empty, there are finitely many kinds of logs in a
forecast, each naming finitely many users, and finitely many alerts, types and
kinds of logs in a report, its list of addresses has a row, an anomaly score is between 0 and 100 hundredths, as the detector cuts it, and a
port is a natural number. TLC evaluates them in every run of the module.

Model-checked only: the liveness properties `StoredLogSettles` and
`EventsAreMarked` (liveness under fairness is beyond the prover). Every
other property that a passing run checks is a theorem.

## 6. What is left

- Liveness of the pages is not claimed (see fairness above).

## 7. Not modelled

- Rendering: charts, maps, animation, dialogs' looks, formats and texts; the
  parser of uploaded files and the export of logs; the details of a card, an
  entity or a forecast. No state of the protocol depends on them.
- The layers of the attack map, and where it flies to.
- The numerical content of the estimators and of feature extraction, the
  confidence of a forecast, and the wording of reasons, advice and reports.
- The drawing of a PDF and the streams' back-pressure.
- Framework wiring, envelopes of answers, containers' own behaviour, and the
  generator of random logs.
- Clearing a Windows channel (record ids starting over), and the collector's
  dry run.

`PROJECT.json` gives the status of each component.
