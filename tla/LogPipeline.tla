------------------------------ MODULE LogPipeline ------------------------------
(***************************************************************************)
(* From an HTTP ingest to an alert: LogsService.create/createBulk write    *)
(* the log document to MongoDB and then add a job to the BullMQ queue;     *)
(* LogsProcessor.process takes the job, asks the ML service for a verdict, *)
(* writes the verdict back to the document and, from a threat score of 60  *)
(* on, inserts an Alert and a ThreatScore row into PostgreSQL.             *)
(*                                                                         *)
(* Every await is a step of its own, so a crash, a failure of a store or   *)
(* another process may come between any two of them.  BullMQ delivers at   *)
(* least once: a job whose lock is lost is given to a worker again.        *)
(***************************************************************************)
EXTENDS Naturals, Sequences, ScoreBands

CONSTANTS
    Log,          \* the log documents clients may submit
    Backend,      \* backend processes: one queue worker (concurrency 1) each
    Anomaly,      \* anomaly scores, 0 included (the scale does not matter here)
    Threat,       \* threat scores the ML service returns, 0 included
    SubmittedDoc, \* what a client may put into the triage fields of a new log
    MaxStalled,   \* BullMQ's maxStalledCount
    MaxCrashes    \* bound: process crashes in a behaviour

Doc == [isProcessed : BOOLEAN, anomalyScore : Anomaly, threatScore : Threat]

ASSUME PipelineAssumption ==
    /\ Anomaly \subseteq Nat /\ 0 \in Anomaly
    /\ Threat \subseteq Score /\ 0 \in Threat
    /\ SubmittedDoc \subseteq Doc
    /\ MaxStalled \in Nat
    /\ MaxCrashes \in Nat

VARIABLES
    stored,     \* the logs MongoDB holds
    doc,        \* doc[l]: the triage fields of log l's document
    pending,    \* pending[b]: logs b's ingest requests have stored, not yet enqueued
    job,        \* job[l]: the state of log l's job in the queue
    deliveries, \* deliveries[l]: times the queue handed the job to a worker
    stalls,     \* stalls[l]: times the queue found the job without a live lock
    worker,     \* worker[b]: the run of LogsProcessor.process in b, or Idle
    alerts,     \* alerts[l]: the Alert rows written for log l, oldest first
    risks,      \* risks[l]: the ThreatScore rows written for log l
    faults,     \* history: what has gone wrong for log l
    crashes     \* crashes so far (bounded by MaxCrashes)

queueVars == <<job, deliveries, stalls>>
rowVars   == <<alerts, risks>>
docVars   == <<stored, doc>>
vars      == <<docVars, pending, queueVars, worker, rowVars, faults, crashes>>

-------------------------------------------------------------------------------
JobState == {"none", "waiting", "active", "completed", "failed"}

Fault == {"enqueue", "mongo", "ml", "alert", "risk", "crash", "stall"}

(* Where a run of process() is: the await it is about to issue. *)
Phase == {"find", "detect", "update", "alert", "risk", "recover", "return"}

Idle == [phase |-> "idle"]

Run == [phase : Phase, log : Log, no : Nat, anomaly : Anomaly, threat : Threat]

(* The columns of an Alert row that triage decides, with the run it came   *)
(* from; the table itself has no column that leads back to the log.        *)
AlertRow == [no : Nat, threatScore : Threat, severity : Severity]

RiskRow == [no : Nat, score : Threat, category : ThreatCategory, confidence : Anomaly]

TypeOK ==
    /\ stored \in SUBSET Log
    /\ doc \in [Log -> Doc]
    /\ pending \in [Backend -> SUBSET Log]
    /\ job \in [Log -> JobState]
    /\ deliveries \in [Log -> Nat]
    /\ stalls \in [Log -> Nat]
    /\ worker \in [Backend -> Run \cup {Idle}]
    /\ alerts \in [Log -> Seq(AlertRow)]
    /\ risks \in [Log -> Seq(RiskRow)]
    /\ faults \in [Log -> SUBSET Fault]
    /\ crashes \in Nat

(* The schema's defaults for the triage fields. *)
FreshDoc == [isProcessed |-> FALSE, anomalyScore |-> 0, threatScore |-> 0]

Init ==
    /\ stored = {}
    /\ doc = [l \in Log |-> FreshDoc]
    /\ pending = [b \in Backend |-> {}]
    /\ job = [l \in Log |-> "none"]
    /\ deliveries = [l \in Log |-> 0]
    /\ stalls = [l \in Log |-> 0]
    /\ worker = [b \in Backend |-> Idle]
    /\ alerts = [l \in Log |-> <<>>]
    /\ risks = [l \in Log |-> <<>>]
    /\ faults = [l \in Log |-> {}]
    /\ crashes = 0

Blame(S, f) == faults' = [l \in Log |-> IF l \in S THEN faults[l] \cup {f} ELSE faults[l]]

-------------------------------------------------------------------------------
(* Ingest: LogsService.create and createBulk. *)

(* The documents of S reach MongoDB, with the triage fields as submitted.  *)
Insert(S, submitted) ==
    /\ stored' = stored \cup S
    /\ doc' = [l \in Log |-> IF l \in S THEN submitted[l] ELSE doc[l]]

(* The handler goes on to the queue. *)
Accept(b, S) == pending' = [pending EXCEPT ![b] = @ \cup S] /\ UNCHANGED faults

(* The insert call throws although documents were written: the handler     *)
(* answers 500 and enqueues none of them.                                  *)
ThrowAfterInsert(S) == Blame(S, "mongo") /\ UNCHANGED pending

Create(b, l) ==
    /\ l \notin stored
    /\ \E d \in SubmittedDoc : Insert({l}, [k \in {l} |-> d])
    /\ Accept(b, {l}) \/ ThrowAfterInsert({l})
    /\ UNCHANGED <<queueVars, worker, rowVars, crashes>>

(* Mutant of CreateBulk: the loop runs over the request, not the result. *)
CreateBulkRequested(b, S) ==
    /\ S # {} /\ S \cap stored = {}
    /\ \E T \in SUBSET S : \E submitted \in [T -> SubmittedDoc] : Insert(T, submitted)
    /\ Accept(b, S)
    /\ UNCHANGED <<queueVars, worker, rowVars, crashes>>

(* insertMany with ordered: false writes what it can; S is what it wrote.  *)
CreateBulk(b, S) ==
    /\ S # {} /\ S \cap stored = {}
    /\ \E submitted \in [S -> SubmittedDoc] : Insert(S, submitted)
    /\ Accept(b, S) \/ ThrowAfterInsert(S)
    /\ UNCHANGED <<queueVars, worker, rowVars, crashes>>

(* logQueue.add for one stored log; a rejected add is only warned about.   *)
Enqueue(b, l) ==
    /\ l \in pending[b]
    /\ pending' = [pending EXCEPT ![b] = @ \ {l}]
    /\ \/ job' = [job EXCEPT ![l] = "waiting"] /\ UNCHANGED faults
       \/ Blame({l}, "enqueue") /\ UNCHANGED job
    /\ UNCHANGED <<docVars, deliveries, stalls, worker, rowVars, crashes>>

-------------------------------------------------------------------------------
(* The queue and the run of LogsProcessor.process it starts. *)

Take(b, l) ==
    /\ worker[b] = Idle
    /\ job[l] = "waiting"
    /\ job' = [job EXCEPT ![l] = "active"]
    /\ deliveries' = [deliveries EXCEPT ![l] = @ + 1]
    /\ worker' = [worker EXCEPT ![b] =
            [phase |-> "find", log |-> l, no |-> deliveries[l] + 1,
             anomaly |-> 0, threat |-> 0]]
    /\ UNCHANGED <<docVars, pending, stalls, rowVars, faults, crashes>>

At(b, phase) == worker[b].phase = phase

GoTo(b, phase) == worker' = [worker EXCEPT ![b].phase = phase]

(* findById: the document, or none (warn and return), or the call throws   *)
(* and control passes to the outer catch.                                  *)
FindLog(b) ==
    /\ At(b, "find")
    /\ \/ /\ GoTo(b, IF worker[b].log \in stored THEN "detect" ELSE "return")
          /\ UNCHANGED faults
       \/ GoTo(b, "recover") /\ Blame({worker[b].log}, "mongo")
    /\ UNCHANGED <<docVars, pending, queueVars, rowVars, crashes>>

(* Mutant of Detect: an unavailable ML service ends the run. *)
DetectOrGiveUp(b) ==
    /\ At(b, "detect")
    /\ \/ /\ \E a \in Anomaly, t \in Threat :
               worker' = [worker EXCEPT ![b].phase = "update",
                                        ![b].anomaly = a, ![b].threat = t]
          /\ UNCHANGED faults
       \/ GoTo(b, "return") /\ Blame({worker[b].log}, "ml")
    /\ UNCHANGED <<docVars, pending, queueVars, rowVars, crashes>>

(* Mutant of Detect: a run without a verdict starts over. *)
DetectRestarting(b) ==
    /\ At(b, "detect")
    /\ \/ /\ \E a \in Anomaly, t \in Threat :
               worker' = [worker EXCEPT ![b].phase = "update",
                                        ![b].anomaly = a, ![b].threat = t]
          /\ UNCHANGED faults
       \/ GoTo(b, "find") /\ Blame({worker[b].log}, "ml")
    /\ UNCHANGED <<docVars, pending, queueVars, rowVars, crashes>>

(* POST /api/v1/detect: a verdict, or (not ok, no result, an exception)    *)
(* the default scores 0 and 0.                                             *)
Detect(b) ==
    /\ At(b, "detect")
    /\ \/ /\ \E a \in Anomaly, t \in Threat :
               worker' = [worker EXCEPT ![b].phase = "update",
                                        ![b].anomaly = a, ![b].threat = t]
          /\ UNCHANGED faults
       \/ GoTo(b, "update") /\ Blame({worker[b].log}, "ml")
    /\ UNCHANGED <<docVars, pending, queueVars, rowVars, crashes>>

(* Mutant of WriteVerdict: the threat score is left out of the update. *)
WriteVerdictWithoutThreat(r) ==
    doc' = [doc EXCEPT ![r.log].isProcessed = TRUE, ![r.log].anomalyScore = r.anomaly]

(* The run's verdict replaces whatever triage fields the document had. *)
WriteVerdict(r) ==
    doc' = [doc EXCEPT ![r.log] =
        [isProcessed |-> TRUE, anomalyScore |-> r.anomaly, threatScore |-> r.threat]]

(* Mutant of UpdateLog: a failed update is only logged, like a failed row. *)
UpdateLogAndGoOn(b) ==
    LET r == worker[b] IN
    /\ At(b, "update")
    /\ \/ WriteVerdict(r) /\ UNCHANGED faults
       \/ UNCHANGED doc /\ Blame({r.log}, "mongo")
    /\ GoTo(b, IF NeedsAlert(r.threat) THEN "alert" ELSE "return")
    /\ UNCHANGED <<stored, pending, queueVars, rowVars, crashes>>

(* findByIdAndUpdate: applied; or it throws, applied or not. *)
UpdateLog(b) ==
    LET r == worker[b] IN
    /\ At(b, "update")
    /\ \/ /\ WriteVerdict(r)
          /\ GoTo(b, IF NeedsAlert(r.threat) THEN "alert" ELSE "return")
          /\ UNCHANGED faults
       \/ /\ WriteVerdict(r) \/ UNCHANGED doc
          /\ GoTo(b, "recover")
          /\ Blame({r.log}, "mongo")
    /\ UNCHANGED <<stored, pending, queueVars, rowVars, crashes>>

(* Mutant of CreateAlert: the run ends with the alert. *)
CreateAlertOnly(b) ==
    LET r == worker[b]
        row == [no |-> r.no, threatScore |-> r.threat, severity |-> SeverityOf(r.threat)]
    IN
    /\ At(b, "alert")
    /\ alerts' = [alerts EXCEPT ![r.log] = Append(@, row)]
    /\ GoTo(b, "return")
    /\ UNCHANGED <<docVars, pending, queueVars, risks, faults, crashes>>

(* prisma.alert.create; a failure is logged and the run goes on. *)
CreateAlert(b) ==
    LET r == worker[b]
        row == [no |-> r.no, threatScore |-> r.threat, severity |-> SeverityOf(r.threat)]
    IN
    /\ At(b, "alert")
    /\ \/ alerts' = [alerts EXCEPT ![r.log] = Append(@, row)] /\ UNCHANGED faults
       \/ Blame({r.log}, "alert") /\ UNCHANGED alerts
    /\ GoTo(b, "risk")
    /\ UNCHANGED <<docVars, pending, queueVars, risks, crashes>>

(* Mutant of CreateThreatScore: a failure repeats both inserts. *)
CreateThreatScoreRetrying(b) ==
    LET r == worker[b]
        row == [no |-> r.no, score |-> r.threat,
                category |-> ThreatCategoryOf(r.threat), confidence |-> r.anomaly]
    IN
    /\ At(b, "risk")
    /\ \/ risks' = [risks EXCEPT ![r.log] = Append(@, row)] /\ UNCHANGED faults
          /\ GoTo(b, "return")
       \/ Blame({r.log}, "risk") /\ UNCHANGED risks /\ GoTo(b, "alert")
    /\ UNCHANGED <<docVars, pending, queueVars, alerts, crashes>>

(* prisma.threatScore.create; a failure is logged and the run ends. *)
CreateThreatScore(b) ==
    LET r == worker[b]
        row == [no |-> r.no, score |-> r.threat,
                category |-> ThreatCategoryOf(r.threat), confidence |-> r.anomaly]
    IN
    /\ At(b, "risk")
    /\ \/ risks' = [risks EXCEPT ![r.log] = Append(@, row)] /\ UNCHANGED faults
       \/ Blame({r.log}, "risk") /\ UNCHANGED risks
    /\ GoTo(b, "return")
    /\ UNCHANGED <<docVars, pending, queueVars, alerts, crashes>>

(* Mutant of Recover: the catch unmarks the log so that it can be retried. *)
RecoverUnmarking(b) ==
    LET l == worker[b].log IN
    /\ At(b, "recover")
    /\ doc' = [doc EXCEPT ![l].isProcessed = FALSE, ![l].anomalyScore = 0]
    /\ GoTo(b, "return")
    /\ UNCHANGED <<stored, pending, queueVars, rowVars, faults, crashes>>

(* The outer catch: mark the log processed, anomaly score 0, the threat    *)
(* score as it is; a second failure is logged and swallowed.               *)
Recover(b) ==
    LET l == worker[b].log IN
    /\ At(b, "recover")
    /\ \/ doc' = [doc EXCEPT ![l].isProcessed = TRUE, ![l].anomalyScore = 0]
       \/ UNCHANGED doc
    /\ GoTo(b, "return")
    /\ UNCHANGED <<stored, pending, queueVars, rowVars, faults, crashes>>

(* A run still owns its job if the queue has not given the job up since:   *)
(* the delivery number plays the lock token.                               *)
HoldsLock(b) ==
    /\ job[worker[b].log] = "active"
    /\ deliveries[worker[b].log] = worker[b].no

(* process() returns, never throws: the worker reports the job completed,  *)
(* which the queue ignores when the lock is lost.                          *)
Return(b) ==
    /\ At(b, "return")
    /\ job' = IF HoldsLock(b) THEN [job EXCEPT ![worker[b].log] = "completed"] ELSE job
    /\ worker' = [worker EXCEPT ![b] = Idle]
    /\ UNCHANGED <<docVars, pending, deliveries, stalls, rowVars, faults, crashes>>

-------------------------------------------------------------------------------
(* What the environment does. *)

(* The backend process dies and is started again: its ingest requests and  *)
(* its run are gone, what the stores and the queue hold stays.             *)
Crash(b) ==
    /\ crashes < MaxCrashes
    /\ pending[b] # {} \/ worker[b] # Idle
    /\ crashes' = crashes + 1
    /\ pending' = [pending EXCEPT ![b] = {}]
    /\ worker' = [worker EXCEPT ![b] = Idle]
    /\ Blame(pending[b] \cup (IF worker[b] = Idle THEN {} ELSE {worker[b].log}), "crash")
    /\ UNCHANGED <<docVars, queueVars, rowVars>>

(* The queue's stalled check finds an active job whose lock has expired:   *)
(* back to waiting, or failed once it stalled more than MaxStalled times.  *)
Stall(l) ==
    /\ job[l] = "active"
    /\ stalls' = [stalls EXCEPT ![l] = @ + 1]
    /\ job' = [job EXCEPT ![l] = IF stalls[l] < MaxStalled THEN "waiting" ELSE "failed"]
    /\ Blame({l}, "stall")
    /\ UNCHANGED <<docVars, pending, deliveries, worker, rowVars, crashes>>

-------------------------------------------------------------------------------
Process(b) ==
    \/ FindLog(b) \/ Detect(b) \/ UpdateLog(b) \/ CreateAlert(b)
    \/ CreateThreatScore(b) \/ Recover(b) \/ Return(b)

Next ==
    \/ \E b \in Backend :
         \/ \E l \in Log : Create(b, l) \/ Enqueue(b, l) \/ Take(b, l)
         \/ \E S \in SUBSET Log : CreateBulk(b, S)
         \/ Process(b)
         \/ Crash(b)
    \/ \E l \in Log : Stall(l)

Spec == Init /\ [][Next]_vars

(* No run in any process holds the lock of the job. *)
Orphaned(l) ==
    /\ job[l] = "active"
    /\ ~ \E b \in Backend : worker[b] # Idle /\ worker[b].log = l /\ HoldsLock(b)

(* A running process goes on: every await in these handlers ends (the      *)
(* drivers and fetch have timeouts), an idle worker takes a waiting job,   *)
(* and the queue's stalled check runs every 30 s.  Nothing makes a client  *)
(* submit, a process crash, or the lock of a live run expire.              *)
Fairness ==
    /\ \A b \in Backend : WF_vars(Process(b)) /\ WF_vars(\E l \in Log : Enqueue(b, l))
    /\ \A l \in Log : WF_vars(\E b \in Backend : Take(b, l))
    /\ \A l \in Log : WF_vars(Orphaned(l) /\ Stall(l))

FairSpec == Spec /\ Fairness

-------------------------------------------------------------------------------
(* Properties. *)

RunsOn(l) == {b \in Backend : worker[b] # Idle /\ worker[b].log = l}

(* Nothing that is under way will touch log l or its rows again. *)
Quiet(l) ==
    /\ \A b \in Backend : l \notin pending[b]
    /\ job[l] \notin {"waiting", "active"}
    /\ RunsOn(l) = {}

(* A job never outruns its document: whatever createBulk's partial insert  *)
(* wrote, process() never meets a log id MongoDB does not hold, so its     *)
(* "not found, skipping" branch is never taken.                            *)
JobHasDocument == \A l \in Log : job[l] # "none" => l \in stored

(* Redelivery is the only source of duplicates: each delivery of a job     *)
(* writes at most one Alert and one ThreatScore row, and the queue         *)
(* delivers a job at most MaxStalled + 1 times, however often processes    *)
(* crash and locks expire.                                                 *)
OneRowPerDelivery ==
    \A l \in Log : \A rows \in {alerts[l], risks[l]} :
        /\ Len(rows) <= MaxStalled + 1
        /\ \A i, j \in 1..Len(rows) : rows[i].no = rows[j].no => i = j

(* process() writes the document before the rows: whoever sees an Alert or *)
(* a ThreatScore row finds its log marked processed, and no row comes from *)
(* a score below the threshold.                                            *)
RowsFollowTriage ==
    \A l \in Log :
        /\ alerts[l] # <<>> \/ risks[l] # <<>> => l \in stored /\ doc[l].isProcessed
        /\ \A i \in 1..Len(alerts[l]) : NeedsAlert(alerts[l][i].threatScore)
        /\ \A i \in 1..Len(risks[l]) : NeedsAlert(risks[l][i].score)

(* Unless its job was redelivered, a log's Alert and ThreatScore rows carry *)
(* the threat score its document shows, whatever failed along the way.      *)
RowsAgreeWithLog ==
    \A l \in Log : stalls[l] = 0 =>
        /\ \A i \in 1..Len(alerts[l]) : alerts[l][i].threatScore = doc[l].threatScore
        /\ \A i \in 1..Len(risks[l]) : risks[l][i].score = doc[l].threatScore

(* Without a fault the pipeline is exactly-once: the document is processed, *)
(* and there is one Alert and one ThreatScore row when its score reaches    *)
(* the threshold and none otherwise, whatever the client had submitted.     *)
TriagedOnce ==
    \A l \in stored : Quiet(l) /\ faults[l] = {} =>
        LET rows == IF NeedsAlert(doc[l].threatScore) THEN 1 ELSE 0 IN
        doc[l].isProcessed /\ Len(alerts[l]) = rows /\ Len(risks[l]) = rows

(* What each loss is owed to.  An unavailable ML service alone costs        *)
(* neither the mark nor the rows of a score that was written; a failed      *)
(* insert of one row never costs the other one.                             *)
LossHasCause ==
    \A l \in stored : Quiet(l) =>
        /\ ~doc[l].isProcessed =>
              faults[l] \cap {"enqueue", "mongo", "crash", "stall"} # {}
        /\ NeedsAlert(doc[l].threatScore) /\ alerts[l] = <<>> =>
              faults[l] \cap {"enqueue", "mongo", "alert", "crash", "stall"} # {}
        /\ Len(alerts[l]) # Len(risks[l]) =>
              faults[l] \cap {"alert", "risk", "crash"} # {}

(* The inductive strengthening of the three properties about rows: what     *)
(* the queue's counters, the runs under way and the rows know of each other. *)

(* Each delivery that is not the current or last one ended in a stall. *)
QueueCounts ==
    \A l \in Log :
        /\ deliveries[l] = stalls[l] + (IF job[l] \in {"active", "completed"} THEN 1 ELSE 0)
        /\ stalls[l] <= (IF job[l] = "failed" THEN MaxStalled + 1 ELSE MaxStalled)
        /\ job[l] = "none" => stalls[l] = 0

(* A stored log waits for its job in at most one process, and has none yet. *)
EnqueuedOnce ==
    /\ \A b \in Backend : \A l \in pending[b] : l \in stored /\ job[l] = "none"
    /\ \A b, c \in Backend : b # c => pending[b] \cap pending[c] = {}
    /\ JobHasDocument

(* Two processes may run the same log, but never the same delivery of it. *)
RunsAreDeliveries ==
    \A b \in Backend : worker[b] # Idle =>
        /\ worker[b].no \in 1..deliveries[worker[b].log]
        /\ \A c \in Backend \ {b} : worker[c] # Idle /\ worker[c].log = worker[b].log
                                     => worker[c].no # worker[b].no

(* Rows are numbered by distinct deliveries, other than those of the runs   *)
(* that have yet to write their row.                                        *)
RowsAreDeliveries(rows, before) ==
    \A l \in Log :
        /\ \A i \in 1..Len(rows[l]) : rows[l][i].no \in 1..deliveries[l]
        /\ \A i, j \in 1..Len(rows[l]) : rows[l][i].no = rows[l][j].no => i = j
        /\ \A b \in Backend : worker[b].phase \in before /\ worker[b].log = l =>
              \A i \in 1..Len(rows[l]) : rows[l][i].no # worker[b].no

BeforeAlert == {"find", "detect", "update", "alert"}
BeforeRisk == BeforeAlert \cup {"risk"}

(* A run about to write a row has marked the log with the score it holds;   *)
(* the mark is final, the score is unless the job was redelivered.          *)
WritersHaveMarked ==
    \A b \in Backend : worker[b].phase \in {"alert", "risk"} =>
        LET l == worker[b].log IN
        /\ l \in stored /\ doc[l].isProcessed /\ NeedsAlert(worker[b].threat)
        /\ stalls[l] = 0 => doc[l].threatScore = worker[b].threat

RowInv ==
    /\ TypeOK /\ QueueCounts /\ EnqueuedOnce /\ RunsAreDeliveries
    /\ RowsAreDeliveries(alerts, BeforeAlert) /\ RowsAreDeliveries(risks, BeforeRisk)
    /\ WritersHaveMarked /\ RowsFollowTriage /\ RowsAgreeWithLog

(* The inductive strengthening of TriagedOnce and LossHasCause: what may    *)
(* still be missing of a log, and which run, request or fault owes it.      *)

(* Nothing that could end the triage of log l early has happened. *)
Unharmed(l) == faults[l] \cap {"enqueue", "mongo", "crash", "stall"} = {}

AlertTold(l) == NeedsAlert(doc[l].threatScore) => alerts[l] # <<>> \/ "alert" \in faults[l]
RiskTold(l)  == NeedsAlert(doc[l].threatScore) => risks[l] # <<>> \/ "risk" \in faults[l]
Told(l)      == doc[l].isProcessed /\ AlertTold(l) /\ RiskTold(l)

(* The queue gives a job up only after a stall. *)
StallsAreFaults(l) == "stall" \notin faults[l] => stalls[l] = 0 /\ job[l] # "failed"

(* A log nothing has harmed has a request that will enqueue it, a job, a    *)
(* run, or the end of its story behind it.                                  *)
StoryGoesOn(l) ==
    l \in stored /\ Unharmed(l) =>
        /\ job[l] = "none" => \E b \in Backend : l \in pending[b]
        /\ job[l] = "active" <=> RunsOn(l) # {}
        /\ job[l] = "completed" => Told(l)
        /\ \A b \in RunsOn(l) :
              /\ worker[b].phase # "recover"
              /\ worker[b].phase = "risk" => AlertTold(l)
              /\ worker[b].phase = "return" => Told(l)

(* The delivery wrote its row, or a run is between its two rows. *)
Wrote(rows, n) == \E i \in 1..Len(rows) : rows[i].no = n

BetweenRows(l, n) ==
    \E b \in Backend : worker[b].phase = "risk" /\ worker[b].log = l /\ worker[b].no = n

(* Each delivery that wrote an alert wrote a threat score, or is about to. *)
RowsArePaired(l) ==
    faults[l] \cap {"alert", "risk", "crash"} = {} =>
        \A n \in 1..deliveries[l] :
            Wrote(alerts[l], n) <=> Wrote(risks[l], n) \/ BetweenRows(l, n)

Story(l) == StallsAreFaults(l) /\ StoryGoesOn(l) /\ RowsArePaired(l)

StoryInv == RowInv /\ \A l \in Log : Story(l)

(* Every log that reached MongoDB comes to rest: its job is not redelivered *)
(* for ever, and no worker or request waits on it for ever.                 *)
StoredLogSettles == \A l \in Log : l \in stored ~> Quiet(l)

(* Every log, seen from outside: its mark and how many rows tell of it. *)
TriageStage ==
    [l \in Log |-> IF l \notin stored THEN "unseen"
                   ELSE IF doc[l].isProcessed THEN "processed" ELSE "received"]

AlertCount == [l \in Log |-> Len(alerts[l])]
RiskCount  == [l \in Log |-> Len(risks[l])]

Triage == INSTANCE LogTriage WITH MaxRows <- MaxStalled + 1, stage <- TriageStage,
                                  alertCount <- AlertCount, riskCount <- RiskCount

(* The pipeline implements LogTriage: the mark is final although a          *)
(* redelivered run writes the document again and the catch writes it once   *)
(* more, and a late run that lost its lock adds no row too many.            *)
ImplementsTriage == Triage!Spec

(* README.md:141: "Background workers automatically promote any event with  *)
(* ThreatScore >= 60 into a formal PostgreSQL Alert".                       *)
PromotesHighScores ==
    \A l \in Log : (l \in stored /\ doc[l].isProcessed /\ NeedsAlert(doc[l].threatScore))
                      ~> alerts[l] # <<>>

===============================================================================
