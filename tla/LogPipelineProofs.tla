--------------------------- MODULE LogPipelineProofs ---------------------------
(***************************************************************************)
(* Proofs about LogPipeline for every set of logs and of backends, every   *)
(* choice of scores, every number of crashes and every maxStalledCount.    *)
(***************************************************************************)
EXTENDS LogPipeline, FiniteSetTheorems, TLAPS

-------------------------------------------------------------------------------
(* EXCEPT keeps a function in its function space. *)
LEMMA UpdateType ==
  ASSUME NEW S, NEW T, NEW f \in [S -> T], NEW x \in S, NEW v \in T
  PROVE  [f EXCEPT ![x] = v] \in [S -> T]
  OBVIOUS

(* Lemmas about the operators the actions are made of. *)

(* mapScoreToSeverity yields one of the alert severities. *)
LEMMA SeverityType == ASSUME NEW t \in Score PROVE SeverityOf(t) \in Severity
  BY DEF SeverityOf, Severity, Score

(* mapScoreToThreatCategory yields one of the threat categories. *)
LEMMA CategoryType == ASSUME NEW t \in Score PROVE ThreatCategoryOf(t) \in ThreatCategory
  BY DEF ThreatCategoryOf, ThreatCategory, Score

(* A backend at one of the awaits of process() has a run. *)
LEMMA BusyRun ==
  ASSUME TypeOK, NEW b \in Backend, NEW p \in Phase, At(b, p)
  PROVE  worker[b] \in Run /\ worker[b] # Idle /\ worker[b].log \in Log
  BY DEF TypeOK, Run, Idle, At, Phase

(* Going to the next await changes nothing but the run's phase. *)
LEMMA GoToType ==
  ASSUME TypeOK, NEW b \in Backend, worker[b] \in Run, NEW p \in Phase, GoTo(b, p)
  PROVE  /\ worker' \in [Backend -> Run \cup {Idle}]
         /\ worker'[b] = [worker[b] EXCEPT !.phase = p]
         /\ \A c \in Backend \ {b} : worker'[c] = worker[c]
  BY DEF TypeOK, GoTo, Run

(* The fault history keeps its type. *)
LEMMA BlameType ==
  ASSUME TypeOK, NEW S, NEW f \in Fault, Blame(S, f)
  PROVE  faults' \in [Log -> SUBSET Fault]
  BY DEF TypeOK, Blame

(* Documents keep their type when submitted fields are written. *)
LEMMA InsertType ==
  ASSUME TypeOK, NEW S \in SUBSET Log, NEW d \in [S -> SubmittedDoc], Insert(S, d)
  PROVE  stored' \in SUBSET Log /\ doc' \in [Log -> Doc]
  BY PipelineAssumption DEF TypeOK, Insert

-------------------------------------------------------------------------------
(* Every variable keeps its type. *)
LEMMA TypeInit == Init => TypeOK
  BY PipelineAssumption DEF Init, TypeOK, FreshDoc, Doc, JobState, Fault

(* Every step keeps every variable's type. *)
LEMMA TypeNext == TypeOK /\ [Next]_vars => TypeOK'
<1> SUFFICES ASSUME TypeOK, [Next]_vars PROVE TypeOK'
  OBVIOUS
<1> USE DEF docVars, queueVars, rowVars
<1>1. ASSUME NEW b \in Backend, NEW l \in Log, Create(b, l) PROVE TypeOK'
  <2>1. PICK d \in SubmittedDoc : Insert({l}, [k \in {l} |-> d])
    BY <1>1 DEF Create
  <2>2. stored' \in SUBSET Log /\ doc' \in [Log -> Doc]
    BY <2>1, InsertType
  <2>3. faults' \in [Log -> SUBSET Fault] /\ pending' \in [Backend -> SUBSET Log]
    <3>1. CASE Accept(b, {l})
      BY <3>1 DEF Accept, TypeOK
    <3>2. CASE ThrowAfterInsert({l})
      BY <3>2, BlameType DEF ThrowAfterInsert, TypeOK, Fault
    <3> QED BY <1>1, <3>1, <3>2 DEF Create
  <2> QED BY <1>1, <2>2, <2>3 DEF Create, TypeOK
<1>2. ASSUME NEW b \in Backend, NEW S \in SUBSET Log, CreateBulk(b, S) PROVE TypeOK'
  <2>1. PICK d \in [S -> SubmittedDoc] : Insert(S, d)
    BY <1>2 DEF CreateBulk
  <2>2. stored' \in SUBSET Log /\ doc' \in [Log -> Doc]
    BY <2>1, InsertType
  <2>3. faults' \in [Log -> SUBSET Fault] /\ pending' \in [Backend -> SUBSET Log]
    <3>1. CASE Accept(b, S)
      BY <3>1 DEF Accept, TypeOK
    <3>2. CASE ThrowAfterInsert(S)
      BY <3>2, BlameType DEF ThrowAfterInsert, TypeOK, Fault
    <3> QED BY <1>2, <3>1, <3>2 DEF CreateBulk
  <2> QED BY <1>2, <2>2, <2>3 DEF CreateBulk, TypeOK
<1>3. ASSUME NEW b \in Backend, NEW l \in Log, Enqueue(b, l) PROVE TypeOK'
  <2>1. faults' \in [Log -> SUBSET Fault] /\ job' \in [Log -> JobState]
    BY <1>3, BlameType DEF Enqueue, TypeOK, JobState, Fault
  <2> QED BY <1>3, <2>1 DEF Enqueue, TypeOK
<1>4. ASSUME NEW b \in Backend, NEW l \in Log, Take(b, l) PROVE TypeOK'
  <2>1. worker' \in [Backend -> Run \cup {Idle}]
    BY <1>4, PipelineAssumption DEF Take, TypeOK, Run, Phase
  <2> QED BY <1>4, <2>1 DEF Take, TypeOK, JobState
<1>5. ASSUME NEW b \in Backend, FindLog(b) PROVE TypeOK'
  <2>1. worker[b] \in Run
    BY <1>5, BusyRun DEF FindLog, Phase
  <2>2. worker' \in [Backend -> Run \cup {Idle}]
    <3>1. \E p \in Phase : GoTo(b, p)
      BY <1>5 DEF FindLog, Phase
    <3> QED BY <3>1, <2>1, GoToType
  <2>3. faults' \in [Log -> SUBSET Fault]
    BY <1>5, BlameType DEF FindLog, TypeOK, Fault
  <2> QED BY <1>5, <2>2, <2>3 DEF FindLog, TypeOK
<1>6. ASSUME NEW b \in Backend, Detect(b) PROVE TypeOK'
  <2>1. worker[b] \in Run
    BY <1>6, BusyRun DEF Detect, Phase
  <2>2. worker' \in [Backend -> Run \cup {Idle}]
    <3>1. CASE GoTo(b, "update")
      BY <3>1, <2>1, GoToType DEF Phase
    <3>2. ASSUME NEW a \in Anomaly, NEW t \in Threat,
                 worker' = [worker EXCEPT ![b].phase = "update",
                                          ![b].anomaly = a, ![b].threat = t]
          PROVE  worker' \in [Backend -> Run \cup {Idle}]
      <4>1. [worker[b] EXCEPT !.phase = "update", !.anomaly = a, !.threat = t] \in Run
        BY <2>1 DEF Run, Phase
      <4>2. worker' = [worker EXCEPT ![b] =
                 [worker[b] EXCEPT !.phase = "update", !.anomaly = a, !.threat = t]]
        BY <3>2
      <4> QED BY <4>1, <4>2 DEF TypeOK
    <3> QED BY <1>6, <3>1, <3>2 DEF Detect
  <2>3. faults' \in [Log -> SUBSET Fault]
    BY <1>6, BlameType DEF Detect, TypeOK, Fault
  <2> QED BY <1>6, <2>2, <2>3 DEF Detect, TypeOK
<1>7. ASSUME NEW b \in Backend, UpdateLog(b) PROVE TypeOK'
  <2>1. worker[b] \in Run
    BY <1>7, BusyRun DEF UpdateLog, Phase
  <2>2. worker' \in [Backend -> Run \cup {Idle}]
    <3>1. \E p \in Phase : GoTo(b, p)
      BY <1>7 DEF UpdateLog, Phase
    <3> QED BY <3>1, <2>1, GoToType
  <2>3. faults' \in [Log -> SUBSET Fault]
    BY <1>7, BlameType DEF UpdateLog, TypeOK, Fault
  <2>4. doc' \in [Log -> Doc]
    <3>1. [isProcessed |-> TRUE, anomalyScore |-> worker[b].anomaly,
           threatScore |-> worker[b].threat] \in Doc
      BY <2>1 DEF Run, Doc
    <3>2. doc' = doc \/ WriteVerdict(worker[b])
      BY <1>7 DEF UpdateLog
    <3> QED BY <3>1, <3>2, <2>1 DEF WriteVerdict, TypeOK, Run
  <2> QED BY <1>7, <2>2, <2>3, <2>4 DEF UpdateLog, TypeOK
<1>8. ASSUME NEW b \in Backend, CreateAlert(b) PROVE TypeOK'
  <2>1. worker[b] \in Run
    BY <1>8, BusyRun DEF CreateAlert, Phase
  <2>2. worker' \in [Backend -> Run \cup {Idle}]
    BY <1>8, <2>1, GoToType DEF CreateAlert, Phase
  <2>3. faults' \in [Log -> SUBSET Fault]
    BY <1>8, BlameType DEF CreateAlert, TypeOK, Fault
  <2>4. alerts' \in [Log -> Seq(AlertRow)]
    <3> DEFINE row == [no |-> worker[b].no, threatScore |-> worker[b].threat,
                       severity |-> SeverityOf(worker[b].threat)]
    <3>1. row \in AlertRow
      BY <2>1, SeverityType, PipelineAssumption DEF Run, AlertRow
    <3>2. worker[b].log \in Log /\ Append(alerts[worker[b].log], row) \in Seq(AlertRow)
      <4>1. worker[b].log \in Log /\ alerts[worker[b].log] \in Seq(AlertRow)
        BY <2>1 DEF TypeOK, Run
      <4> HIDE DEF row
      <4> QED BY <3>1, <4>1
    <3>3. alerts' = alerts \/ alerts' = [alerts EXCEPT ![worker[b].log] = Append(@, row)]
      BY <1>8 DEF CreateAlert
    <3> HIDE DEF row
    <3> QED BY <3>2, <3>3, UpdateType DEF TypeOK
  <2> QED BY <1>8, <2>2, <2>3, <2>4 DEF CreateAlert, TypeOK
<1>9. ASSUME NEW b \in Backend, CreateThreatScore(b) PROVE TypeOK'
  <2>1. worker[b] \in Run
    BY <1>9, BusyRun DEF CreateThreatScore, Phase
  <2>2. worker' \in [Backend -> Run \cup {Idle}]
    BY <1>9, <2>1, GoToType DEF CreateThreatScore, Phase
  <2>3. faults' \in [Log -> SUBSET Fault]
    BY <1>9, BlameType DEF CreateThreatScore, TypeOK, Fault
  <2>4. risks' \in [Log -> Seq(RiskRow)]
    <3> DEFINE row == [no |-> worker[b].no, score |-> worker[b].threat,
                       category |-> ThreatCategoryOf(worker[b].threat),
                       confidence |-> worker[b].anomaly]
    <3>1. row \in RiskRow
      BY <2>1, CategoryType, PipelineAssumption DEF Run, RiskRow
    <3>2. worker[b].log \in Log /\ Append(risks[worker[b].log], row) \in Seq(RiskRow)
      <4>1. worker[b].log \in Log /\ risks[worker[b].log] \in Seq(RiskRow)
        BY <2>1 DEF TypeOK, Run
      <4> HIDE DEF row
      <4> QED BY <3>1, <4>1
    <3>3. risks' = risks \/ risks' = [risks EXCEPT ![worker[b].log] = Append(@, row)]
      BY <1>9 DEF CreateThreatScore
    <3> HIDE DEF row
    <3> QED BY <3>2, <3>3, UpdateType DEF TypeOK
  <2> QED BY <1>9, <2>2, <2>3, <2>4 DEF CreateThreatScore, TypeOK
<1>10. ASSUME NEW b \in Backend, Recover(b) PROVE TypeOK'
  <2>1. worker[b] \in Run
    BY <1>10, BusyRun DEF Recover, Phase
  <2>2. worker' \in [Backend -> Run \cup {Idle}]
    BY <1>10, <2>1, GoToType DEF Recover, Phase
  <2>3. doc' \in [Log -> Doc]
    <3> DEFINE l == worker[b].log
    <3>1. l \in Log /\ doc[l] \in Doc
      BY <2>1 DEF TypeOK, Run
    <3>2. [doc[l] EXCEPT !.isProcessed = TRUE, !.anomalyScore = 0] \in Doc
      BY <3>1, PipelineAssumption DEF Doc
    <3>3. \/ doc' = doc
          \/ doc' = [doc EXCEPT ![l] =
                        [doc[l] EXCEPT !.isProcessed = TRUE, !.anomalyScore = 0]]
      BY <1>10 DEF Recover
    <3> HIDE DEF l
    <3> QED BY <3>1, <3>2, <3>3, UpdateType DEF TypeOK
  <2> QED BY <1>10, <2>2, <2>3 DEF Recover, TypeOK
<1>11. ASSUME NEW b \in Backend, Return(b) PROVE TypeOK'
  BY <1>11 DEF Return, TypeOK, JobState
<1>12. ASSUME NEW b \in Backend, Crash(b) PROVE TypeOK'
  <2>1. faults' \in [Log -> SUBSET Fault]
    BY <1>12, BlameType DEF Crash, Fault
  <2> QED BY <1>12, <2>1 DEF Crash, TypeOK
<1>13. ASSUME NEW l \in Log, Stall(l) PROVE TypeOK'
  <2>1. faults' \in [Log -> SUBSET Fault]
    BY <1>13, BlameType DEF Stall, Fault
  <2>2. job' \in [Log -> JobState] /\ stalls' \in [Log -> Nat]
    BY <1>13, UpdateType DEF Stall, TypeOK, JobState
  <2> QED BY <1>13, <2>1, <2>2 DEF Stall, TypeOK
<1>14. CASE UNCHANGED vars
  BY <1>14 DEF vars, TypeOK
<1> QED
  BY <1>1, <1>2, <1>3, <1>4, <1>5, <1>6, <1>7, <1>8, <1>9, <1>10, <1>11, <1>12, <1>13,
     <1>14 DEF Next, Process

(* Type correctness of the pipeline: no handler leaves a document, a job, a *)
(* run or a row in a shape the code does not know. *)
THEOREM TypeCorrect == Spec => []TypeOK
<1>1. TypeOK /\ [Next]_vars => TypeOK'
  BY TypeNext
<1> QED BY TypeInit, <1>1, PTL DEF Spec

-------------------------------------------------------------------------------
(* The rows.  RowInv is inductive: the queue's counters bound how often a  *)
(* log is run, the runs under way are distinct deliveries, and so are the  *)
(* rows already written.                                                   *)

(* An empty system satisfies the invariant. *)
LEMMA RowInvInit == Init => RowInv
<1> SUFFICES ASSUME Init PROVE RowInv
  OBVIOUS
<1>1. TypeOK
  BY TypeInit
<1>2. QueueCounts
  BY PipelineAssumption DEF Init, QueueCounts
<1>3. EnqueuedOnce
  BY DEF Init, EnqueuedOnce, JobHasDocument
<1>4. RunsAreDeliveries /\ WritersHaveMarked
  BY DEF Init, RunsAreDeliveries, WritersHaveMarked, Idle
<1>5. /\ RowsAreDeliveries(alerts, BeforeAlert) /\ RowsAreDeliveries(risks, BeforeRisk)
      /\ RowsFollowTriage /\ RowsAgreeWithLog
  BY DEF Init, RowsAreDeliveries, RowsFollowTriage, RowsAgreeWithLog
<1> QED BY <1>1, <1>2, <1>3, <1>4, <1>5 DEF RowInv

(* Backend b's run moves on: the same delivery of the same log. *)
SameRun(b) ==
    /\ worker[b] \in Run /\ worker'[b] \in Run
    /\ worker'[b].log = worker[b].log /\ worker'[b].no = worker[b].no
    /\ \A c \in Backend \ {b} : worker'[c] = worker[c]

(* The await a run is at says nothing of its log and delivery. *)
LEMMA GoToSameRun ==
  ASSUME TypeOK, NEW b \in Backend, worker[b] \in Run, NEW p \in Phase, GoTo(b, p)
  PROVE  /\ SameRun(b) /\ worker'[b].phase = p
         /\ worker'[b].threat = worker[b].threat
  BY DEF TypeOK, GoTo, Run, SameRun

(* Runs stay distinct deliveries while runs and deliveries stay. *)
LEMMA KeepRuns ==
  ASSUME TypeOK, NEW b \in Backend, SameRun(b), RunsAreDeliveries, UNCHANGED deliveries
  PROVE  RunsAreDeliveries'
  BY DEF RunsAreDeliveries, SameRun, Run, Idle

(* Alert rows stay apart from the runs that have yet to write one. *)
LEMMA KeepAlertNos ==
  ASSUME TypeOK, NEW b \in Backend, SameRun(b), UNCHANGED <<deliveries, alerts>>,
         worker'[b].phase \in BeforeAlert => worker[b].phase \in BeforeAlert,
         RowsAreDeliveries(alerts, BeforeAlert)
  PROVE  RowsAreDeliveries(alerts, BeforeAlert)'
  BY DEF RowsAreDeliveries, SameRun

(* The same of ThreatScore rows. *)
LEMMA KeepRiskNos ==
  ASSUME TypeOK, NEW b \in Backend, SameRun(b), UNCHANGED <<deliveries, risks>>,
         worker'[b].phase \in BeforeRisk => worker[b].phase \in BeforeRisk,
         RowsAreDeliveries(risks, BeforeRisk)
  PROVE  RowsAreDeliveries(risks, BeforeRisk)'
  BY DEF RowsAreDeliveries, SameRun

(* Steps that leave the queue and the stored logs alone. *)
LEMMA KeepQueue ==
  ASSUME UNCHANGED <<queueVars, pending, stored>>, QueueCounts, EnqueuedOnce
  PROVE  QueueCounts' /\ EnqueuedOnce'
  BY DEF queueVars, QueueCounts, EnqueuedOnce, JobHasDocument

(* A store or an enqueue touches no run and no row. *)
LEMMA KeepRowsAndRuns ==
  ASSUME RunsAreDeliveries, RowsAreDeliveries(alerts, BeforeAlert),
         RowsAreDeliveries(risks, BeforeRisk), UNCHANGED <<worker, deliveries, rowVars>>
  PROVE  /\ RunsAreDeliveries' /\ RowsAreDeliveries(alerts, BeforeAlert)'
         /\ RowsAreDeliveries(risks, BeforeRisk)'
  BY DEF RunsAreDeliveries, RowsAreDeliveries, rowVars

(* create and createBulk: the new logs have no job, no run and no row. *)
LEMMA InsertRowInv ==
  ASSUME RowInv, NEW b \in Backend, NEW S \in SUBSET Log, S \cap stored = {},
         NEW d \in [S -> SubmittedDoc], Insert(S, d),
         Accept(b, S) \/ ThrowAfterInsert(S),
         UNCHANGED <<queueVars, worker, rowVars>>, TypeOK'
  PROVE  RowInv'
<1> USE DEF RowInv, queueVars, rowVars
<1>1. /\ \A c \in Backend \ {b} : pending'[c] = pending[c]
      /\ pending'[b] \subseteq pending[b] \cup S
  BY DEF Accept, ThrowAfterInsert, RowInv, TypeOK
<1>2. EnqueuedOnce'
  <2>1. \A l \in S : job[l] = "none" /\ \A c \in Backend : l \notin pending[c]
    BY DEF EnqueuedOnce, JobHasDocument, TypeOK
  <2>2. \A c \in Backend : \A l \in pending'[c] : l \in stored' /\ job'[l] = "none"
    BY <1>1, <2>1 DEF EnqueuedOnce, Insert
  <2>3. \A c, e \in Backend : c # e => pending'[c] \cap pending'[e] = {}
    <3>1. ASSUME NEW c \in Backend, NEW e \in Backend, c # e
          PROVE  pending'[c] \cap pending'[e] = {}
      <4>1. pending[c] \cap pending[e] = {} /\ S \cap pending[c] = {} /\ S \cap pending[e] = {}
        BY <2>1, <3>1 DEF EnqueuedOnce
      <4> QED BY <1>1, <3>1, <4>1
    <3> QED BY <3>1
  <2>4. JobHasDocument'
    BY DEF EnqueuedOnce, JobHasDocument, Insert
  <2> QED BY <2>2, <2>3, <2>4 DEF EnqueuedOnce
<1>3. QueueCounts'
  BY DEF QueueCounts
<1>4. \A l \in stored : l \in stored' /\ doc'[l] = doc[l]
  BY DEF Insert, TypeOK
<1>5. WritersHaveMarked'
  BY <1>4 DEF WritersHaveMarked, TypeOK, Run
<1>6. RowsFollowTriage' /\ RowsAgreeWithLog'
  <2>1. \A l \in Log : alerts[l] # <<>> \/ risks[l] # <<>> => l \in stored
    BY DEF RowsFollowTriage
  <2>2. \A l \in Log : /\ 1..Len(alerts[l]) # {} => alerts[l] # <<>>
                       /\ 1..Len(risks[l]) # {} => risks[l] # <<>>
    BY DEF TypeOK
  <2>3. RowsFollowTriage'
    BY <1>4, <2>1 DEF RowsFollowTriage
  <2> QED BY <1>4, <2>1, <2>2, <2>3 DEF RowsAgreeWithLog
<1>7. RunsAreDeliveries' /\ RowsAreDeliveries(alerts, BeforeAlert)'
      /\ RowsAreDeliveries(risks, BeforeRisk)'
  BY KeepRowsAndRuns
<1> QED BY <1>2, <1>3, <1>5, <1>6, <1>7

(* logQueue.add: the log it enqueues leaves the request, so it is added once. *)
LEMMA EnqueueRowInv ==
  ASSUME RowInv, NEW b \in Backend, NEW l \in Log, Enqueue(b, l), TypeOK'
  PROVE  RowInv'
<1> USE DEF RowInv, rowVars, docVars
<1>1. l \in stored /\ job[l] = "none"
  BY DEF Enqueue, EnqueuedOnce
<1>2. QueueCounts'
  BY <1>1 DEF Enqueue, QueueCounts, TypeOK
<1>3. EnqueuedOnce'
  BY <1>1 DEF Enqueue, EnqueuedOnce, JobHasDocument, TypeOK
<1>4. WritersHaveMarked' /\ RowsFollowTriage' /\ RowsAgreeWithLog'
  BY DEF Enqueue, WritersHaveMarked, RowsFollowTriage, RowsAgreeWithLog
<1>5. RunsAreDeliveries' /\ RowsAreDeliveries(alerts, BeforeAlert)'
      /\ RowsAreDeliveries(risks, BeforeRisk)'
  BY KeepRowsAndRuns DEF Enqueue
<1> QED BY <1>2, <1>3, <1>4, <1>5

(* A new delivery gets a number no run and no row has. *)
LEMMA TakeRowInv ==
  ASSUME RowInv, NEW b \in Backend, NEW l \in Log, Take(b, l), TypeOK'
  PROVE  RowInv'
<1> USE DEF RowInv, rowVars, docVars
<1> DEFINE run == [phase |-> "find", log |-> l, no |-> deliveries[l] + 1,
                   anomaly |-> 0, threat |-> 0]
<1>1. /\ worker' = [worker EXCEPT ![b] = run] /\ worker'[b] = run
      /\ \A c \in Backend \ {b} : worker'[c] = worker[c]
  BY DEF Take, TypeOK
<1>2. /\ deliveries'[l] = deliveries[l] + 1 /\ deliveries[l] \in Nat
      /\ \A m \in Log : m # l => deliveries'[m] = deliveries[m]
      /\ \A m \in Log : deliveries[m] \in Nat /\ deliveries'[m] \in Nat
                         /\ deliveries[m] <= deliveries'[m]
  BY DEF Take, TypeOK
<1>3. QueueCounts'
  BY <1>2 DEF Take, QueueCounts, TypeOK
<1>4. EnqueuedOnce'
  BY DEF Take, EnqueuedOnce, JobHasDocument, TypeOK
<1>5. \A c \in Backend : worker[c] # Idle =>
        worker[c].no \in 1..deliveries[worker[c].log] /\ worker[c].log \in Log
  BY DEF RunsAreDeliveries, TypeOK, Run
<1>6. RunsAreDeliveries'
  BY <1>1, <1>2, <1>5 DEF RunsAreDeliveries
<1>7. RowsAreDeliveries(alerts, BeforeAlert)'
  BY <1>1, <1>2 DEF RowsAreDeliveries, Take
<1>8. RowsAreDeliveries(risks, BeforeRisk)'
  BY <1>1, <1>2 DEF RowsAreDeliveries, Take
<1>9. WritersHaveMarked'
  BY <1>1 DEF WritersHaveMarked, Take
<1>10. RowsFollowTriage' /\ RowsAgreeWithLog'
  BY DEF Take, RowsFollowTriage, RowsAgreeWithLog
<1> QED BY <1>3, <1>4, <1>6, <1>7, <1>8, <1>9, <1>10

(* FindLog, Detect and Recover: no row is written and none is about to be; *)
(* the document keeps its mark and its threat score.                       *)
LEMMA QuietStepRowInv ==
  ASSUME RowInv, NEW b \in Backend, SameRun(b),
         worker[b].phase \in {"find", "detect", "recover"},
         worker'[b].phase \in {"detect", "update", "recover", "return"},
         worker'[b].phase \in {"detect", "update"} => worker[b].phase # "recover",
         UNCHANGED <<stored, pending, queueVars, rowVars>>,
         \A l \in Log : /\ doc[l].isProcessed => doc'[l].isProcessed
                        /\ doc'[l].threatScore = doc[l].threatScore,
         TypeOK'
  PROVE  RowInv'
<1> USE DEF RowInv, rowVars
<1>1. QueueCounts' /\ EnqueuedOnce'
  BY KeepQueue
<1>2. RunsAreDeliveries'
  BY KeepRuns DEF queueVars
<1>3. RowsAreDeliveries(alerts, BeforeAlert)'
  BY KeepAlertNos DEF queueVars, BeforeAlert
<1>4. RowsAreDeliveries(risks, BeforeRisk)'
  BY KeepRiskNos DEF queueVars, BeforeAlert, BeforeRisk
<1>5. WritersHaveMarked'
  <2> SUFFICES ASSUME NEW c \in Backend, worker'[c].phase \in {"alert", "risk"}
               PROVE  LET l == worker'[c].log IN
                      /\ l \in stored' /\ doc'[l].isProcessed
                      /\ NeedsAlert(worker'[c].threat)
                      /\ stalls'[l] = 0 => doc'[l].threatScore = worker'[c].threat
    BY DEF WritersHaveMarked
  <2>1. worker'[c] = worker[c] /\ worker[c] # Idle
    BY DEF SameRun, Idle
  <2>2. worker[c].log \in Log
    BY <2>1 DEF TypeOK, Run
  <2> QED BY <2>1, <2>2 DEF WritersHaveMarked, queueVars
<1>6. RowsFollowTriage' /\ RowsAgreeWithLog'
  BY DEF RowsFollowTriage, RowsAgreeWithLog, queueVars
<1> QED BY <1>1, <1>2, <1>3, <1>4, <1>5, <1>6

(* findById changes no store. *)
LEMMA FindLogRowInv ==
  ASSUME RowInv, NEW b \in Backend, FindLog(b), TypeOK'
  PROVE  RowInv'
<1>1. worker[b] \in Run
  BY BusyRun DEF FindLog, Phase, RowInv
<1>2. PICK p \in {"detect", "return", "recover"} : GoTo(b, p)
  BY DEF FindLog
<1>3. SameRun(b) /\ worker'[b].phase = p
  BY <1>1, <1>2, GoToSameRun DEF Phase, RowInv
<1> QED BY <1>3, QuietStepRowInv DEF FindLog, At, docVars

(* The verdict only reaches the run. *)
LEMMA DetectRowInv ==
  ASSUME RowInv, NEW b \in Backend, Detect(b), TypeOK'
  PROVE  RowInv'
<1>1. worker[b] \in Run
  BY BusyRun DEF Detect, Phase, RowInv
<1>2. SameRun(b) /\ worker'[b].phase = "update"
  <2>1. CASE GoTo(b, "update")
    BY <2>1, <1>1, GoToSameRun DEF Phase, RowInv
  <2>2. ASSUME NEW a \in Anomaly, NEW t \in Threat,
               worker' = [worker EXCEPT ![b].phase = "update",
                                        ![b].anomaly = a, ![b].threat = t]
        PROVE  SameRun(b) /\ worker'[b].phase = "update"
    <3>1. worker' = [worker EXCEPT ![b] =
               [worker[b] EXCEPT !.phase = "update", !.anomaly = a, !.threat = t]]
      BY <2>2
    <3> QED BY <3>1, <1>1 DEF SameRun, RowInv, TypeOK, Run, Phase
  <2> QED BY <2>1, <2>2 DEF Detect
<1> QED BY <1>2, QuietStepRowInv DEF Detect, At, docVars

(* The outer catch leaves the threat score, and the mark, as they are. *)
LEMMA RecoverRowInv ==
  ASSUME RowInv, NEW b \in Backend, Recover(b), TypeOK'
  PROVE  RowInv'
<1>1. worker[b] \in Run /\ worker[b].log \in Log
  BY BusyRun DEF Recover, Phase, RowInv
<1>2. SameRun(b) /\ worker'[b].phase = "return"
  BY <1>1, GoToSameRun DEF Recover, Phase, RowInv
<1>3. \A l \in Log : /\ doc[l].isProcessed => doc'[l].isProcessed
                     /\ doc'[l].threatScore = doc[l].threatScore
  <2> DEFINE m == worker[b].log
             marked == [doc[m] EXCEPT !.isProcessed = TRUE, !.anomalyScore = 0]
  <2>1. doc' = doc \/ doc' = [doc EXCEPT ![m] = marked]
    BY DEF Recover
  <2>2. doc[m] \in Doc
    BY <1>1 DEF RowInv, TypeOK
  <2>3. marked.isProcessed /\ marked.threatScore = doc[m].threatScore
    BY <2>2 DEF Doc
  <2> HIDE DEF m, marked
  <2> QED BY <2>1, <2>3 DEF RowInv, TypeOK
<1> QED BY <1>2, <1>3, QuietStepRowInv DEF Recover, At

(* The update marks the log with the score that the rows are written from. *)
LEMMA UpdateLogRowInv ==
  ASSUME RowInv, NEW b \in Backend, UpdateLog(b), TypeOK'
  PROVE  RowInv'
<1> USE DEF RowInv, rowVars
<1> DEFINE r == worker[b]
<1> DEFINE verdict == [isProcessed |-> TRUE, anomalyScore |-> r.anomaly,
                       threatScore |-> r.threat]
<1>1. r \in Run /\ r # Idle /\ r.log \in Log /\ r.phase = "update"
  BY BusyRun DEF UpdateLog, Phase, At
<1>2. PICK p \in {"alert", "return", "recover"} :
        /\ GoTo(b, p)
        /\ p = "alert" => WriteVerdict(r) /\ NeedsAlert(r.threat)
  BY DEF UpdateLog
<1>3. SameRun(b) /\ worker'[b].phase = p /\ worker'[b].threat = r.threat
  BY <1>1, <1>2, GoToSameRun DEF Phase
<1>4. UNCHANGED <<stored, pending, queueVars, rowVars, deliveries, stalls>>
  BY DEF UpdateLog, queueVars
<1>5. /\ \A l \in Log \ {r.log} : doc'[l] = doc[l]
      /\ doc'[r.log] = doc[r.log] \/ doc'[r.log] = verdict
      /\ p = "alert" => doc'[r.log] = verdict
  <2>1. doc' = doc \/ doc' = [doc EXCEPT ![r.log] = verdict]
    BY DEF UpdateLog, WriteVerdict
  <2>2. p = "alert" => doc' = [doc EXCEPT ![r.log] = verdict]
    BY <1>2 DEF WriteVerdict
  <2> HIDE DEF verdict, r
  <2> QED BY <2>1, <2>2, <1>1 DEF TypeOK
<1>6. /\ r.log \in stored /\ r.no \in Nat /\ 1 <= r.no /\ r.no <= deliveries[r.log]
      /\ stalls[r.log] \in Nat /\ deliveries[r.log] \in Nat
      /\ deliveries[r.log] <= stalls[r.log] + 1
  <2>1. stalls[r.log] \in Nat /\ deliveries[r.log] \in Nat /\ r.no \in Nat
    BY <1>1 DEF TypeOK, Run
  <2>2. r.no \in 1..deliveries[r.log]
    BY <1>1 DEF RunsAreDeliveries
  <2>3. deliveries[r.log] = stalls[r.log] +
                              (IF job[r.log] \in {"active", "completed"} THEN 1 ELSE 0)
        /\ (job[r.log] = "none" => stalls[r.log] = 0)
    BY <1>1 DEF QueueCounts
  <2>4. job[r.log] # "none"
    BY <2>1, <2>2, <2>3
  <2> QED BY <2>1, <2>2, <2>3, <2>4, <1>1 DEF EnqueuedOnce, JobHasDocument
<1>7. QueueCounts' /\ EnqueuedOnce'
  BY <1>4, KeepQueue
<1>8. RunsAreDeliveries'
  BY <1>3, <1>4, KeepRuns
<1>9. RowsAreDeliveries(alerts, BeforeAlert)'
  BY <1>1, <1>3, <1>4, KeepAlertNos DEF BeforeAlert
<1>10. RowsAreDeliveries(risks, BeforeRisk)'
  BY <1>1, <1>3, <1>4, KeepRiskNos DEF BeforeAlert, BeforeRisk
(* A job that never stalled is in its first delivery: this run, which has  *)
(* no row yet, and no other.                                               *)
<1>11. ASSUME stalls[r.log] = 0
       PROVE  /\ Len(alerts[r.log]) = 0 /\ Len(risks[r.log]) = 0
              /\ \A c \in Backend \ {b} : worker[c] = Idle \/ worker[c].log # r.log
  <2>2. r.no = 1 /\ deliveries[r.log] = 1
    BY <1>6, <1>11
  <2>3. \A i \in 1..Len(alerts[r.log]) : FALSE
    BY <2>2, <1>1 DEF RowsAreDeliveries, BeforeAlert
  <2>4. \A i \in 1..Len(risks[r.log]) : FALSE
    BY <2>2, <1>1 DEF RowsAreDeliveries, BeforeAlert, BeforeRisk
  <2>5. \A c \in Backend \ {b} : worker[c] = Idle \/ worker[c].log # r.log
    BY <2>2, <1>1 DEF RunsAreDeliveries
  <2>6. Len(alerts[r.log]) \in Nat /\ Len(risks[r.log]) \in Nat
    BY <1>1 DEF TypeOK
  <2> QED BY <2>3, <2>4, <2>5, <2>6
<1>12. WritersHaveMarked'
  <2> SUFFICES ASSUME NEW c \in Backend, worker'[c].phase \in {"alert", "risk"}
               PROVE  LET l == worker'[c].log IN
                      /\ l \in stored' /\ doc'[l].isProcessed
                      /\ NeedsAlert(worker'[c].threat)
                      /\ stalls'[l] = 0 => doc'[l].threatScore = worker'[c].threat
    BY DEF WritersHaveMarked
  <2>1. CASE c = b
    BY <2>1, <1>1, <1>2, <1>3, <1>4, <1>5, <1>6 DEF SameRun
  <2>2. CASE c # b
    <3>1. worker'[c] = worker[c] /\ worker[c] # Idle
      BY <2>2, <1>3 DEF SameRun, Idle
    <3>2. worker[c].log \in Log
      BY <3>1 DEF TypeOK, Run
    <3>3. CASE worker[c].log = r.log
      BY <3>1, <3>3, <2>2, <1>4, <1>5, <1>6, <1>11 DEF WritersHaveMarked
    <3>4. CASE worker[c].log # r.log
      BY <3>1, <3>2, <3>4, <1>4, <1>5 DEF WritersHaveMarked
    <3> QED BY <3>3, <3>4
  <2> QED BY <2>1, <2>2
<1>13. RowsFollowTriage' /\ RowsAgreeWithLog'
  <2>1. RowsFollowTriage'
    BY <1>4, <1>5 DEF RowsFollowTriage
  <2>2. RowsAgreeWithLog'
    BY <1>4, <1>5, <1>11 DEF RowsAgreeWithLog
  <2> QED BY <2>1, <2>2
<1> QED BY <1>7, <1>8, <1>9, <1>10, <1>12, <1>13

(* Appending a row with a number of its own keeps the numbers distinct. *)
LEMMA AppendNumbered ==
  ASSUME NEW R, NEW rows \in Seq(R), NEW row, NEW more, more = Append(rows, row),
         NEW D, row.no \in D,
         \A i \in 1..Len(rows) : rows[i].no \in D \ {row.no},
         \A i, j \in 1..Len(rows) : rows[i].no = rows[j].no => i = j
  PROVE  /\ \A i \in 1..Len(more) : more[i].no \in D
         /\ \A i, j \in 1..Len(more) : more[i].no = more[j].no => i = j
         /\ \A i \in 1..Len(more) : \/ more[i].no = row.no
                                   \/ \E j \in 1..Len(rows) : more[i].no = rows[j].no
<1> DEFINE n == Len(rows)
<1>1. /\ n \in Nat /\ Len(more) = n + 1 /\ more[n + 1] = row
      /\ \A i \in 1..n : more[i] = rows[i]
  OBVIOUS
<1>2. \A i \in 1..(n + 1) : i \in 1..n \/ i = n + 1
  BY <1>1
<1> QED BY <1>1, <1>2

(* The run's alert is its delivery's only one. *)
LEMMA CreateAlertRowInv ==
  ASSUME RowInv, NEW b \in Backend, CreateAlert(b), TypeOK'
  PROVE  RowInv'
<1> USE DEF RowInv
<1> DEFINE r == worker[b]
<1>1. r \in Run /\ r # Idle /\ r.log \in Log /\ r.phase = "alert"
  BY BusyRun DEF CreateAlert, Phase, At
<1>2. SameRun(b) /\ worker'[b].phase = "risk" /\ worker'[b].threat = r.threat
  BY <1>1, GoToSameRun DEF CreateAlert, Phase
<1>3. UNCHANGED <<stored, doc, pending, job, deliveries, stalls, risks>>
  BY DEF CreateAlert, docVars, queueVars
<1>4. PICK row : /\ row.no = r.no /\ row.threatScore = r.threat
                 /\ \/ alerts' = alerts
                    \/ alerts' = [alerts EXCEPT ![r.log] = Append(alerts[r.log], row)]
  BY DEF CreateAlert
<1>5. \A l \in Log \ {r.log} : alerts'[l] = alerts[l]
  BY <1>4 DEF TypeOK
<1>6. \/ alerts'[r.log] = alerts[r.log]
      \/ /\ Len(alerts'[r.log]) = Len(alerts[r.log]) + 1
         /\ alerts'[r.log][Len(alerts[r.log]) + 1] = row
         /\ \A i \in 1..Len(alerts[r.log]) : alerts'[r.log][i] = alerts[r.log][i]
  <2>1. alerts[r.log] \in Seq(AlertRow) /\ alerts'[r.log] \in Seq(AlertRow)
    BY <1>1 DEF TypeOK
  <2>2. CASE alerts' = [alerts EXCEPT ![r.log] = Append(alerts[r.log], row)]
    <3>1. alerts'[r.log] = Append(alerts[r.log], row)
      BY <2>2, <1>1 DEF TypeOK
    <3> HIDE DEF r
    <3> QED BY <3>1, <2>1
  <2> QED BY <2>2, <1>4
<1>7. Len(alerts[r.log]) \in Nat /\ r.no \in 1..deliveries[r.log]
  BY <1>1 DEF TypeOK, RunsAreDeliveries
<1>8. QueueCounts' /\ EnqueuedOnce'
  BY <1>3, KeepQueue DEF queueVars
<1>9. RunsAreDeliveries'
  BY <1>2, <1>3, KeepRuns
<1>10. RowsAreDeliveries(risks, BeforeRisk)'
  BY <1>1, <1>2, <1>3, KeepRiskNos DEF BeforeAlert, BeforeRisk
<1>11. \A i \in 1..Len(alerts[r.log]) : alerts[r.log][i].no # r.no
  BY <1>1 DEF RowsAreDeliveries, BeforeAlert, BeforeRisk
<1>12. RowsAreDeliveries(alerts, BeforeAlert)'
  <2> SUFFICES ASSUME NEW l \in Log
               PROVE  /\ \A i \in 1..Len(alerts'[l]) : alerts'[l][i].no \in 1..deliveries'[l]
                      /\ \A i, j \in 1..Len(alerts'[l]) :
                            alerts'[l][i].no = alerts'[l][j].no => i = j
                      /\ \A c \in Backend :
                            worker'[c].phase \in BeforeAlert /\ worker'[c].log = l =>
                              \A i \in 1..Len(alerts'[l]) : alerts'[l][i].no # worker'[c].no
    BY DEF RowsAreDeliveries
  <2>1. \A c \in Backend : worker'[c].phase \in BeforeAlert =>
          c # b /\ worker'[c] = worker[c] /\ worker[c] # Idle
    BY <1>2 DEF SameRun, BeforeAlert, BeforeRisk, Idle
  <2>2. \A c \in Backend \ {b} : worker[c] # Idle /\ worker[c].log = r.log
                                => worker[c].no # r.no
    BY <1>1 DEF RunsAreDeliveries
  <2>3. CASE l # r.log
    BY <2>1, <2>3, <1>3, <1>5 DEF RowsAreDeliveries
  <2>4. CASE l = r.log /\ alerts'[l] = alerts[l]
    BY <2>1, <2>4, <1>3 DEF RowsAreDeliveries
  <2>5. CASE l = r.log /\ alerts'[l] # alerts[l]
    <3>1. /\ alerts[l] \in Seq(AlertRow) /\ alerts'[l] = Append(alerts[l], row)
          /\ deliveries'[l] = deliveries[l] /\ row.no \in 1..deliveries[l]
      BY <2>5, <1>3, <1>4, <1>7 DEF TypeOK
    <3>2. /\ \A i \in 1..Len(alerts[l]) : alerts[l][i].no \in 1..deliveries[l] \ {row.no}
          /\ \A i, j \in 1..Len(alerts[l]) : alerts[l][i].no = alerts[l][j].no => i = j
      BY <2>5, <1>4, <1>11 DEF RowsAreDeliveries
    <3>3. /\ \A i \in 1..Len(alerts'[l]) : alerts'[l][i].no \in 1..deliveries'[l]
          /\ \A i, j \in 1..Len(alerts'[l]) : alerts'[l][i].no = alerts'[l][j].no => i = j
          /\ \A i \in 1..Len(alerts'[l]) : \/ alerts'[l][i].no = row.no
                                         \/ \E j \in 1..Len(alerts[l]) :
                                               alerts'[l][i].no = alerts[l][j].no
      BY <3>1, <3>2, AppendNumbered
    <3>4. \A c \in Backend : worker[c].phase \in BeforeAlert /\ worker[c].log = l =>
            \A i \in 1..Len(alerts[l]) : alerts[l][i].no # worker[c].no
      BY DEF RowsAreDeliveries
    <3>5. \A c \in Backend :
            worker'[c].phase \in BeforeAlert /\ worker'[c].log = l =>
              \A i \in 1..Len(alerts'[l]) : alerts'[l][i].no # worker'[c].no
      BY <3>3, <3>4, <2>1, <2>2, <2>5, <1>4
    <3> QED BY <3>3, <3>5
  <2> QED BY <2>3, <2>4, <2>5
<1>13. /\ r.log \in stored /\ doc[r.log].isProcessed /\ NeedsAlert(r.threat)
       /\ stalls[r.log] = 0 => doc[r.log].threatScore = r.threat
  BY <1>1 DEF WritersHaveMarked
<1>14. WritersHaveMarked'
  <2> SUFFICES ASSUME NEW c \in Backend, worker'[c].phase \in {"alert", "risk"}
               PROVE  LET l == worker'[c].log IN
                      /\ l \in stored' /\ doc'[l].isProcessed
                      /\ NeedsAlert(worker'[c].threat)
                      /\ stalls'[l] = 0 => doc'[l].threatScore = worker'[c].threat
    BY DEF WritersHaveMarked
  <2>1. CASE c = b
    BY <2>1, <1>2, <1>3, <1>13 DEF SameRun
  <2>2. CASE c # b
    BY <2>2, <1>2, <1>3 DEF SameRun, WritersHaveMarked
  <2> QED BY <2>1, <2>2
<1>15. \A l \in Log : \A i \in 1..Len(alerts'[l]) :
         \/ i \in 1..Len(alerts[l]) /\ alerts'[l][i] = alerts[l][i]
         \/ l = r.log /\ alerts'[l][i] = row
  BY <1>4, <1>5, <1>6, <1>7
<1>16. \A l \in Log : alerts'[l] # <<>> => alerts[l] # <<>> \/ l = r.log
  BY <1>5
<1>17. RowsFollowTriage'
  BY <1>3, <1>4, <1>13, <1>15, <1>16 DEF RowsFollowTriage
<1>18. RowsAgreeWithLog'
  BY <1>3, <1>4, <1>13, <1>15 DEF RowsAgreeWithLog
<1> QED BY <1>8, <1>9, <1>10, <1>12, <1>14, <1>17, <1>18

(* The run's ThreatScore row is its delivery's only one. *)
LEMMA CreateThreatScoreRowInv ==
  ASSUME RowInv, NEW b \in Backend, CreateThreatScore(b), TypeOK'
  PROVE  RowInv'
<1> USE DEF RowInv
<1> DEFINE r == worker[b]
<1>1. r \in Run /\ r # Idle /\ r.log \in Log /\ r.phase = "risk"
  BY BusyRun DEF CreateThreatScore, Phase, At
<1>2. SameRun(b) /\ worker'[b].phase = "return" /\ worker'[b].threat = r.threat
  BY <1>1, GoToSameRun DEF CreateThreatScore, Phase
<1>3. UNCHANGED <<stored, doc, pending, job, deliveries, stalls, alerts>>
  BY DEF CreateThreatScore, docVars, queueVars
<1>4. PICK row : /\ row.no = r.no /\ row.score = r.threat
                 /\ \/ risks' = risks
                    \/ risks' = [risks EXCEPT ![r.log] = Append(risks[r.log], row)]
  BY DEF CreateThreatScore
<1>5. \A l \in Log \ {r.log} : risks'[l] = risks[l]
  BY <1>4 DEF TypeOK
<1>6. \/ risks'[r.log] = risks[r.log]
      \/ /\ Len(risks'[r.log]) = Len(risks[r.log]) + 1
         /\ risks'[r.log][Len(risks[r.log]) + 1] = row
         /\ \A i \in 1..Len(risks[r.log]) : risks'[r.log][i] = risks[r.log][i]
  <2>1. risks[r.log] \in Seq(RiskRow) /\ risks'[r.log] \in Seq(RiskRow)
    BY <1>1 DEF TypeOK
  <2>2. CASE risks' = [risks EXCEPT ![r.log] = Append(risks[r.log], row)]
    <3>1. risks'[r.log] = Append(risks[r.log], row)
      BY <2>2, <1>1 DEF TypeOK
    <3> HIDE DEF r
    <3> QED BY <3>1, <2>1
  <2> QED BY <2>2, <1>4
<1>7. Len(risks[r.log]) \in Nat /\ r.no \in 1..deliveries[r.log]
  BY <1>1 DEF TypeOK, RunsAreDeliveries
<1>8. QueueCounts' /\ EnqueuedOnce'
  BY <1>3, KeepQueue DEF queueVars
<1>9. RunsAreDeliveries'
  BY <1>2, <1>3, KeepRuns
<1>10. RowsAreDeliveries(alerts, BeforeAlert)'
  BY <1>1, <1>2, <1>3, KeepAlertNos DEF BeforeAlert, BeforeRisk
<1>11. \A i \in 1..Len(risks[r.log]) : risks[r.log][i].no # r.no
  BY <1>1 DEF RowsAreDeliveries, BeforeAlert, BeforeRisk
<1>12. RowsAreDeliveries(risks, BeforeRisk)'
  <2> SUFFICES ASSUME NEW l \in Log
               PROVE  /\ \A i \in 1..Len(risks'[l]) : risks'[l][i].no \in 1..deliveries'[l]
                      /\ \A i, j \in 1..Len(risks'[l]) :
                            risks'[l][i].no = risks'[l][j].no => i = j
                      /\ \A c \in Backend :
                            worker'[c].phase \in BeforeRisk /\ worker'[c].log = l =>
                              \A i \in 1..Len(risks'[l]) : risks'[l][i].no # worker'[c].no
    BY DEF RowsAreDeliveries
  <2>1. \A c \in Backend : worker'[c].phase \in BeforeRisk =>
          c # b /\ worker'[c] = worker[c] /\ worker[c] # Idle
    BY <1>2 DEF SameRun, BeforeAlert, BeforeRisk, Idle
  <2>2. \A c \in Backend \ {b} : worker[c] # Idle /\ worker[c].log = r.log
                                => worker[c].no # r.no
    BY <1>1 DEF RunsAreDeliveries
  <2>3. CASE l # r.log
    BY <2>1, <2>3, <1>3, <1>5 DEF RowsAreDeliveries
  <2>4. CASE l = r.log /\ risks'[l] = risks[l]
    BY <2>1, <2>4, <1>3 DEF RowsAreDeliveries
  <2>5. CASE l = r.log /\ risks'[l] # risks[l]
    <3>1. /\ risks[l] \in Seq(RiskRow) /\ risks'[l] = Append(risks[l], row)
          /\ deliveries'[l] = deliveries[l] /\ row.no \in 1..deliveries[l]
      BY <2>5, <1>3, <1>4, <1>7 DEF TypeOK
    <3>2. /\ \A i \in 1..Len(risks[l]) : risks[l][i].no \in 1..deliveries[l] \ {row.no}
          /\ \A i, j \in 1..Len(risks[l]) : risks[l][i].no = risks[l][j].no => i = j
      BY <2>5, <1>4, <1>11 DEF RowsAreDeliveries
    <3>3. /\ \A i \in 1..Len(risks'[l]) : risks'[l][i].no \in 1..deliveries'[l]
          /\ \A i, j \in 1..Len(risks'[l]) : risks'[l][i].no = risks'[l][j].no => i = j
          /\ \A i \in 1..Len(risks'[l]) : \/ risks'[l][i].no = row.no
                                         \/ \E j \in 1..Len(risks[l]) :
                                               risks'[l][i].no = risks[l][j].no
      BY <3>1, <3>2, AppendNumbered
    <3>4. \A c \in Backend : worker[c].phase \in BeforeRisk /\ worker[c].log = l =>
            \A i \in 1..Len(risks[l]) : risks[l][i].no # worker[c].no
      BY DEF RowsAreDeliveries
    <3>5. \A c \in Backend :
            worker'[c].phase \in BeforeRisk /\ worker'[c].log = l =>
              \A i \in 1..Len(risks'[l]) : risks'[l][i].no # worker'[c].no
      BY <3>3, <3>4, <2>1, <2>2, <2>5, <1>4
    <3> QED BY <3>3, <3>5
  <2> QED BY <2>3, <2>4, <2>5
<1>13. /\ r.log \in stored /\ doc[r.log].isProcessed /\ NeedsAlert(r.threat)
       /\ stalls[r.log] = 0 => doc[r.log].threatScore = r.threat
  BY <1>1 DEF WritersHaveMarked
<1>14. WritersHaveMarked'
  <2> SUFFICES ASSUME NEW c \in Backend, worker'[c].phase \in {"alert", "risk"}
               PROVE  LET l == worker'[c].log IN
                      /\ l \in stored' /\ doc'[l].isProcessed
                      /\ NeedsAlert(worker'[c].threat)
                      /\ stalls'[l] = 0 => doc'[l].threatScore = worker'[c].threat
    BY DEF WritersHaveMarked
  <2>1. CASE c = b
    BY <2>1, <1>2, <1>3, <1>13 DEF SameRun
  <2>2. CASE c # b
    BY <2>2, <1>2, <1>3 DEF SameRun, WritersHaveMarked
  <2> QED BY <2>1, <2>2
<1>15. \A l \in Log : \A i \in 1..Len(risks'[l]) :
         \/ i \in 1..Len(risks[l]) /\ risks'[l][i] = risks[l][i]
         \/ l = r.log /\ risks'[l][i] = row
  BY <1>4, <1>5, <1>6, <1>7
<1>16. \A l \in Log : risks'[l] # <<>> => risks[l] # <<>> \/ l = r.log
  BY <1>5
<1>17. RowsFollowTriage'
  BY <1>3, <1>4, <1>13, <1>15, <1>16 DEF RowsFollowTriage
<1>18. RowsAgreeWithLog'
  BY <1>3, <1>4, <1>13, <1>15 DEF RowsAgreeWithLog
<1> QED BY <1>8, <1>9, <1>10, <1>12, <1>14, <1>17, <1>18

(* Completing a job, or being ignored, ends the delivery. *)
LEMMA ReturnRowInv ==
  ASSUME RowInv, NEW b \in Backend, Return(b), TypeOK'
  PROVE  RowInv'
<1> USE DEF RowInv, rowVars, docVars
<1> DEFINE r == worker[b]
<1>1. r \in Run /\ r.log \in Log
  BY BusyRun DEF Return, Phase
<1>2. worker'[b] = Idle /\ \A c \in Backend \ {b} : worker'[c] = worker[c]
  BY DEF Return, TypeOK
<1>3. \/ job' = job
      \/ job[r.log] = "active" /\ job' = [job EXCEPT ![r.log] = "completed"]
  BY DEF Return, HoldsLock
<1>4. QueueCounts'
  BY <1>1, <1>3 DEF QueueCounts, Return, TypeOK
<1>5. EnqueuedOnce'
  BY <1>1, <1>3 DEF EnqueuedOnce, JobHasDocument, Return, TypeOK
<1>6. RunsAreDeliveries'
  BY <1>2 DEF RunsAreDeliveries, Return
<1>7. RowsAreDeliveries(alerts, BeforeAlert)' /\ RowsAreDeliveries(risks, BeforeRisk)'
  BY <1>2 DEF RowsAreDeliveries, Return, BeforeAlert, BeforeRisk, Idle
<1>8. WritersHaveMarked'
  BY <1>2 DEF WritersHaveMarked, Return, Idle
<1>9. RowsFollowTriage' /\ RowsAgreeWithLog'
  BY DEF RowsFollowTriage, RowsAgreeWithLog, Return
<1> QED BY <1>4, <1>5, <1>6, <1>7, <1>8, <1>9

(* A dead process leaves fewer runs and fewer requests. *)
LEMMA CrashRowInv ==
  ASSUME RowInv, NEW b \in Backend, Crash(b), TypeOK'
  PROVE  RowInv'
<1> USE DEF RowInv, rowVars, docVars, queueVars
<1>1. worker'[b] = Idle /\ \A c \in Backend \ {b} : worker'[c] = worker[c]
  BY DEF Crash, TypeOK
<1>2. \A c \in Backend : pending'[c] \subseteq pending[c]
  BY DEF Crash, TypeOK
<1>3. QueueCounts' /\ EnqueuedOnce'
  BY <1>2 DEF QueueCounts, EnqueuedOnce, JobHasDocument, Crash
<1>4. RunsAreDeliveries'
  BY <1>1 DEF RunsAreDeliveries, Crash
<1>5. RowsAreDeliveries(alerts, BeforeAlert)' /\ RowsAreDeliveries(risks, BeforeRisk)'
  BY <1>1 DEF RowsAreDeliveries, Crash, BeforeAlert, BeforeRisk, Idle
<1>6. WritersHaveMarked'
  BY <1>1 DEF WritersHaveMarked, Crash, Idle
<1>7. RowsFollowTriage' /\ RowsAgreeWithLog'
  BY DEF RowsFollowTriage, RowsAgreeWithLog, Crash
<1> QED BY <1>3, <1>4, <1>5, <1>6, <1>7

(* A stalled delivery is accounted for by the stall. *)
LEMMA StallRowInv ==
  ASSUME RowInv, NEW l \in Log, Stall(l), TypeOK'
  PROVE  RowInv'
<1> USE DEF RowInv, rowVars, docVars
<1>1. QueueCounts'
  BY PipelineAssumption DEF QueueCounts, Stall, TypeOK
<1>2. EnqueuedOnce'
  BY DEF EnqueuedOnce, JobHasDocument, Stall, TypeOK
<1>3. RunsAreDeliveries' /\ RowsAreDeliveries(alerts, BeforeAlert)'
      /\ RowsAreDeliveries(risks, BeforeRisk)'
  BY KeepRowsAndRuns DEF Stall
<1>4. \A m \in Log : stalls'[m] = 0 => stalls[m] = 0
  BY DEF Stall, TypeOK
<1>5. WritersHaveMarked'
  BY <1>4 DEF WritersHaveMarked, Stall, TypeOK, Run, Idle
<1>6. RowsFollowTriage' /\ RowsAgreeWithLog'
  BY <1>4 DEF RowsFollowTriage, RowsAgreeWithLog, Stall
<1> QED BY <1>1, <1>2, <1>3, <1>5, <1>6

(* Every step preserves the invariant. *)
LEMMA RowInvNext == RowInv /\ [Next]_vars => RowInv'
<1> SUFFICES ASSUME RowInv, [Next]_vars PROVE RowInv'
  OBVIOUS
<1>1. TypeOK'
  BY TypeNext DEF RowInv
<1>2. ASSUME NEW b \in Backend, NEW l \in Log, Create(b, l) PROVE RowInv'
  <2>1. PICK d \in SubmittedDoc : Insert({l}, [k \in {l} |-> d])
    BY <1>2 DEF Create
  <2>2. [k \in {l} |-> d] \in [{l} -> SubmittedDoc]
    BY <2>1
  <2>3. {l} \cap stored = {} /\ {l} \in SUBSET Log
    BY <1>2 DEF Create
  <2> QED BY <1>1, <1>2, <2>1, <2>2, <2>3, InsertRowInv DEF Create
<1>3. ASSUME NEW b \in Backend, NEW S \in SUBSET Log, CreateBulk(b, S) PROVE RowInv'
  BY <1>1, <1>3, InsertRowInv DEF CreateBulk
<1>4. CASE UNCHANGED vars
  <2> USE <1>4 DEF vars, docVars, queueVars, rowVars
  <2>1. QueueCounts' = QueueCounts /\ EnqueuedOnce' = EnqueuedOnce
        /\ RunsAreDeliveries' = RunsAreDeliveries /\ WritersHaveMarked' = WritersHaveMarked
    BY DEF QueueCounts, EnqueuedOnce, JobHasDocument, RunsAreDeliveries, WritersHaveMarked
  <2>2. RowsAreDeliveries(alerts, BeforeAlert)' = RowsAreDeliveries(alerts, BeforeAlert)
        /\ RowsAreDeliveries(risks, BeforeRisk)' = RowsAreDeliveries(risks, BeforeRisk)
    BY DEF RowsAreDeliveries
  <2>3. RowsFollowTriage' = RowsFollowTriage /\ RowsAgreeWithLog' = RowsAgreeWithLog
    BY DEF RowsFollowTriage, RowsAgreeWithLog
  <2> QED BY <1>1, <2>1, <2>2, <2>3 DEF RowInv
<1> QED
  BY <1>1, <1>2, <1>3, <1>4, EnqueueRowInv, TakeRowInv, FindLogRowInv, DetectRowInv,
     UpdateLogRowInv, CreateAlertRowInv, CreateThreatScoreRowInv, RecoverRowInv,
     ReturnRowInv, CrashRowInv, StallRowInv DEF Next, Process

(* The invariant holds in every behaviour. *)
LEMMA RowInvHolds == Spec => []RowInv
<1>1. RowInv /\ [Next]_vars => RowInv'
  BY RowInvNext
<1> QED BY RowInvInit, <1>1, PTL DEF Spec

-------------------------------------------------------------------------------
(* A log has no more rows than there are numbers to tell them apart. *)
LEMMA NumberedRowsBound ==
  ASSUME NEW R, NEW rows \in Seq(R), NEW D, IsFiniteSet(D),
         \A i \in 1..Len(rows) : rows[i].no \in D,
         \A i, j \in 1..Len(rows) : rows[i].no = rows[j].no => i = j
  PROVE  Len(rows) <= Cardinality(D)
<1> DEFINE n == Len(rows)
           f == [i \in 1..n |-> rows[i].no]
<1>1. n \in Nat /\ f \in Injection(1..n, D)
  BY DEF Injection, IsInjective
<1>2. Cardinality(1..n) = n
  <2>1. n \in Nat /\ n \in Int
    BY <1>1
  <2> HIDE DEF n
  <2>2. Cardinality(1..n) = IF 1 > n THEN 0 ELSE n - 1 + 1
    BY <2>1, FS_Interval
  <2> QED BY <2>1, <2>2
<1>3. Cardinality(1..n) <= Cardinality(D)
  BY <1>1, FS_Injection
<1> QED BY <1>2, <1>3

(* The property of the run: no more rows than deliveries, and a delivery   *)
(* writes at most one of each kind.                                        *)
THEOREM RowsBounded == Spec => []OneRowPerDelivery
<1>1. RowInv => OneRowPerDelivery
  <2> SUFFICES ASSUME RowInv, NEW l \in Log,
                      NEW rows \in {alerts[l], risks[l]}
               PROVE  /\ Len(rows) <= MaxStalled + 1
                      /\ \A i, j \in 1..Len(rows) : rows[i].no = rows[j].no => i = j
    BY DEF OneRowPerDelivery
  <2>1. /\ \E R : rows \in Seq(R)
        /\ \A i \in 1..Len(rows) : rows[i].no \in 1..deliveries[l]
        /\ \A i, j \in 1..Len(rows) : rows[i].no = rows[j].no => i = j
    BY DEF RowInv, RowsAreDeliveries, TypeOK
  <2>2. deliveries[l] \in Nat /\ deliveries[l] <= MaxStalled + 1
    <3>1. deliveries[l] \in Nat /\ stalls[l] \in Nat /\ MaxStalled \in Nat
      BY PipelineAssumption DEF RowInv, TypeOK
    <3>2. /\ deliveries[l] = stalls[l] + (IF job[l] \in {"active", "completed"} THEN 1 ELSE 0)
          /\ stalls[l] <= (IF job[l] = "failed" THEN MaxStalled + 1 ELSE MaxStalled)
      BY DEF RowInv, QueueCounts
    <3> QED BY <3>1, <3>2
  <2>3. IsFiniteSet(1..deliveries[l]) /\ Cardinality(1..deliveries[l]) = deliveries[l]
    BY <2>2, FS_Interval
  <2>4. Len(rows) <= deliveries[l] /\ Len(rows) \in Nat
    <3>1. PICK R : rows \in Seq(R)
      BY <2>1
    <3>2. Len(rows) <= Cardinality(1..deliveries[l])
      BY <2>1, <2>3, <3>1, NumberedRowsBound
    <3> QED BY <2>3, <3>1, <3>2
  <2> QED BY <2>1, <2>2, <2>4, PipelineAssumption
<1> QED BY <1>1, RowInvHolds, PTL

(* Rows never precede the mark on the log, nor come from a low score. *)
THEOREM RowsAfterMark == Spec => []RowsFollowTriage
<1>1. RowInv => RowsFollowTriage
  BY DEF RowInv
<1> QED BY <1>1, RowInvHolds, PTL

(* Rows and document show the same score until a job is redelivered. *)
THEOREM RowsShowLogScore == Spec => []RowsAgreeWithLog
<1>1. RowInv => RowsAgreeWithLog
  BY DEF RowInv
<1> QED BY <1>1, RowInvHolds, PTL

(* process() never misses the document of its job. *)
THEOREM DocumentFound == Spec => []JobHasDocument
<1>1. RowInv => JobHasDocument
  BY DEF RowInv, EnqueuedOnce
<1> QED BY <1>1, RowInvHolds, PTL

-------------------------------------------------------------------------------
(* The pipeline implements LogTriage. *)

(* The empty pipeline is the empty triage. *)
LEMMA TriageInit == Init => Triage!Init
  BY DEF Init, Triage!Init, TriageStage, AlertCount, RiskCount

(* What readers see of a log depends on these variables only. *)
LEMMA TriageStutter ==
  ASSUME UNCHANGED <<docVars, rowVars>>
  PROVE  UNCHANGED Triage!triageVars
  BY DEF docVars, rowVars, Triage!triageVars, TriageStage, AlertCount, RiskCount

(* An insert is a receipt. *)
LEMMA TriageReceive ==
  ASSUME TypeOK, NEW S \in SUBSET Log, S # {}, S \cap stored = {},
         NEW d \in [S -> SubmittedDoc], Insert(S, d), UNCHANGED rowVars
  PROVE  Triage!Next
<1> DEFINE marked == {l \in S : d[l].isProcessed}
<1>1. /\ stored' = stored \cup S
      /\ \A l \in Log : doc'[l] = IF l \in S THEN d[l] ELSE doc[l]
  BY DEF Insert
<1>2. \A l \in S : TriageStage[l] = "unseen"
  BY DEF TriageStage
<1>3. TriageStage' = [l \in Log |-> IF l \in marked THEN "processed"
                                    ELSE IF l \in S THEN "received" ELSE TriageStage[l]]
  BY <1>1 DEF TriageStage
<1>4. UNCHANGED <<AlertCount, RiskCount>>
  BY DEF rowVars, AlertCount, RiskCount
<1>5. Triage!Receive(S, marked)
  BY <1>2, <1>3, <1>4 DEF Triage!Receive
<1> QED BY <1>5 DEF Triage!Next

(* A document is rewritten: its mark is set, or was there. *)
LEMMA TriageMark ==
  ASSUME TypeOK, NEW l \in Log, l \in stored, UNCHANGED <<stored, rowVars>>,
         doc[l].isProcessed \in BOOLEAN,
         \A m \in Log \ {l} : doc'[m] = doc[m],
         doc'[l] = doc[l] \/ doc'[l].isProcessed = TRUE
  PROVE  [Triage!Next]_Triage!triageVars
<1>1. UNCHANGED <<AlertCount, RiskCount>>
  BY DEF rowVars, AlertCount, RiskCount
<1>2. CASE doc'[l].isProcessed = doc[l].isProcessed
  <2>1. TriageStage' = TriageStage
    BY <1>2 DEF TriageStage
  <2> QED BY <1>1, <2>1 DEF Triage!triageVars
<1>3. CASE doc'[l].isProcessed # doc[l].isProcessed
  <2> DEFINE was == doc[l].isProcessed
             is  == doc'[l].isProcessed
  <2>0. was = FALSE /\ is = TRUE
    <3>1. doc'[l] # doc[l]
      BY <1>3
    <3>2. is = TRUE
      BY <3>1
    <3>3. was # TRUE /\ was \in BOOLEAN
      BY <1>3, <3>2
    <3> HIDE DEF was
    <3> QED BY <3>2, <3>3
  <2>1. TriageStage[l] = "received" /\ TriageStage' = [TriageStage EXCEPT ![l] = "processed"]
    <3>1. TriageStage[l] = "received"
      BY <2>0 DEF TriageStage
    <3>2. \A m \in Log : TriageStage'[m] = IF m = l THEN "processed" ELSE TriageStage[m]
      BY <2>0 DEF TriageStage
    <3> QED BY <3>1, <3>2 DEF TriageStage
  <2>2. Triage!Mark(l)
    BY <1>1, <2>1 DEF Triage!Mark
  <2> QED BY <2>2 DEF Triage!Next
<1> QED BY <1>2, <1>3

(* A run that has yet to write its row leaves room for it. *)
LEMMA RoomForRow ==
  ASSUME RowInv, NEW b \in Backend, worker[b] \in Run, NEW R, NEW rows \in Seq(R),
         \A i \in 1..Len(rows) : rows[i].no \in 1..deliveries[worker[b].log]
                                /\ rows[i].no # worker[b].no,
         \A i, j \in 1..Len(rows) : rows[i].no = rows[j].no => i = j
  PROVE  Len(rows) < MaxStalled + 1
<1> DEFINE l == worker[b].log
           n == deliveries[l]
           D == (1..n) \ {worker[b].no}
<1>1. /\ n \in Nat /\ stalls[l] \in Nat /\ MaxStalled \in Nat
      /\ l \in Log /\ worker[b] # Idle
  <2>1. l \in Log /\ worker[b] # Idle
    BY DEF Run, Idle, Phase
  <2> QED BY <2>1, PipelineAssumption DEF RowInv, TypeOK
<1>2. n <= MaxStalled + 1
  <2>1. /\ n = stalls[l] + (IF job[l] \in {"active", "completed"} THEN 1 ELSE 0)
        /\ stalls[l] <= (IF job[l] = "failed" THEN MaxStalled + 1 ELSE MaxStalled)
    BY <1>1 DEF RowInv, QueueCounts
  <2> QED BY <1>1, <2>1
<1>3. worker[b].no \in 1..n
  BY <1>1 DEF RowInv, RunsAreDeliveries
<1>4. IsFiniteSet(1..n) /\ Cardinality(1..n) = n
  <2> HIDE DEF n
  <2>1. n \in Int /\ 1 \in Int
    BY <1>1
  <2>2. IsFiniteSet(1..n) /\ Cardinality(1..n) = IF 1 > n THEN 0 ELSE n - 1 + 1
    BY <2>1, FS_Interval
  <2> QED BY <1>1, <2>2
<1>5. IsFiniteSet(D) /\ Cardinality(D) = n - 1
  BY <1>3, <1>4, FS_RemoveElement
<1>6. Len(rows) <= Cardinality(D)
  BY <1>5, NumberedRowsBound
<1> QED
  <2>1. Len(rows) \in Nat
    OBVIOUS
  <2> QED BY <1>1, <1>2, <1>5, <1>6, <2>1

(* An alert insert raises an alert, its failure changes nothing. *)
LEMMA TriageAlert ==
  ASSUME RowInv, NEW b \in Backend, CreateAlert(b)
  PROVE  [Triage!Next]_Triage!triageVars
<1> DEFINE r == worker[b]
           l == worker[b].log
<1>1. r \in Run /\ r # Idle /\ l \in Log /\ r.phase = "alert"
  BY BusyRun DEF CreateAlert, Phase, At, RowInv
<1>2. alerts[l] \in Seq(AlertRow) /\ Len(alerts[l]) \in Nat
  BY <1>1 DEF RowInv, TypeOK
<1>3. UNCHANGED <<TriageStage, RiskCount>>
  BY DEF CreateAlert, docVars, TriageStage, RiskCount
<1>4. CASE alerts' = alerts
  BY <1>4, TriageStutter DEF CreateAlert, rowVars
<1>5. CASE alerts' # alerts
  <2>1. PICK row : alerts' = [alerts EXCEPT ![l] = Append(alerts[l], row)]
    BY <1>5 DEF CreateAlert
  <2>2. Len(Append(alerts[l], row)) = Len(alerts[l]) + 1
    BY <1>2
  <2>3. AlertCount' = [AlertCount EXCEPT ![l] = @ + 1]
    <3>1. \A m \in Log : AlertCount'[m] =
                           IF m = l THEN AlertCount[m] + 1 ELSE AlertCount[m]
      BY <2>1, <2>2, <1>1 DEF AlertCount, RowInv, TypeOK
    <3> QED BY <3>1 DEF AlertCount
  <2>4. TriageStage[l] = "processed"
    BY <1>1 DEF TriageStage, RowInv, WritersHaveMarked
  <2>5. AlertCount[l] < MaxStalled + 1
    <3>1. \A i \in 1..Len(alerts[l]) : alerts[l][i].no \in 1..deliveries[l]
                                      /\ alerts[l][i].no # r.no
      BY <1>1 DEF RowInv, RowsAreDeliveries, BeforeAlert
    <3>2. \A i, j \in 1..Len(alerts[l]) : alerts[l][i].no = alerts[l][j].no => i = j
      BY <1>1 DEF RowInv, RowsAreDeliveries
    <3> QED BY <3>1, <3>2, <1>1, <1>2, RoomForRow DEF AlertCount
  <2>6. Triage!RaiseAlert(l)
    BY <1>3, <2>3, <2>4, <2>5 DEF Triage!RaiseAlert
  <2> QED BY <2>6, <1>1 DEF Triage!Next
<1> QED BY <1>4, <1>5

(* The same of ThreatScore rows. *)
LEMMA TriageRisk ==
  ASSUME RowInv, NEW b \in Backend, CreateThreatScore(b)
  PROVE  [Triage!Next]_Triage!triageVars
<1> DEFINE r == worker[b]
           l == worker[b].log
<1>1. r \in Run /\ r # Idle /\ l \in Log /\ r.phase = "risk"
  BY BusyRun DEF CreateThreatScore, Phase, At, RowInv
<1>2. risks[l] \in Seq(RiskRow) /\ Len(risks[l]) \in Nat
  BY <1>1 DEF RowInv, TypeOK
<1>3. UNCHANGED <<TriageStage, AlertCount>>
  BY DEF CreateThreatScore, docVars, TriageStage, AlertCount
<1>4. CASE risks' = risks
  BY <1>4, TriageStutter DEF CreateThreatScore, rowVars
<1>5. CASE risks' # risks
  <2>1. PICK row : risks' = [risks EXCEPT ![l] = Append(risks[l], row)]
    BY <1>5 DEF CreateThreatScore
  <2>2. Len(Append(risks[l], row)) = Len(risks[l]) + 1
    BY <1>2
  <2>3. RiskCount' = [RiskCount EXCEPT ![l] = @ + 1]
    <3>1. \A m \in Log : RiskCount'[m] = IF m = l THEN RiskCount[m] + 1 ELSE RiskCount[m]
      BY <2>1, <2>2, <1>1 DEF RiskCount, RowInv, TypeOK
    <3> QED BY <3>1 DEF RiskCount
  <2>4. TriageStage[l] = "processed"
    BY <1>1 DEF TriageStage, RowInv, WritersHaveMarked
  <2>5. RiskCount[l] < MaxStalled + 1
    <3>1. \A i \in 1..Len(risks[l]) : risks[l][i].no \in 1..deliveries[l]
                                     /\ risks[l][i].no # r.no
      BY <1>1 DEF RowInv, RowsAreDeliveries, BeforeAlert, BeforeRisk
    <3>2. \A i, j \in 1..Len(risks[l]) : risks[l][i].no = risks[l][j].no => i = j
      BY <1>1 DEF RowInv, RowsAreDeliveries
    <3> QED BY <3>1, <3>2, <1>1, <1>2, RoomForRow DEF RiskCount
  <2>6. Triage!RecordRisk(l)
    BY <1>3, <2>3, <2>4, <2>5 DEF Triage!RecordRisk
  <2> QED BY <2>6, <1>1 DEF Triage!Next
<1> QED BY <1>4, <1>5

(* Every step of the pipeline is a step of triage, or a stutter. *)
LEMMA TriageNext == RowInv /\ RowInv' /\ [Next]_vars => [Triage!Next]_Triage!triageVars
<1> SUFFICES ASSUME RowInv, RowInv', [Next]_vars
             PROVE  [Triage!Next]_Triage!triageVars
  OBVIOUS
<1> USE DEF docVars, rowVars
<1>1. ASSUME NEW b \in Backend, NEW l \in Log, Create(b, l) PROVE Triage!Next
  <2>1. PICK d \in SubmittedDoc : Insert({l}, [k \in {l} |-> d])
    BY <1>1 DEF Create
  <2>2. [k \in {l} |-> d] \in [{l} -> SubmittedDoc] /\ {l} \in SUBSET Log
    BY <2>1
  <2> QED BY <1>1, <2>1, <2>2, TriageReceive DEF Create, RowInv
<1>2. ASSUME NEW b \in Backend, NEW S \in SUBSET Log, CreateBulk(b, S) PROVE Triage!Next
  BY <1>2, TriageReceive DEF CreateBulk, RowInv
<1>3. ASSUME NEW b \in Backend, UpdateLog(b) \/ Recover(b)
      PROVE  [Triage!Next]_Triage!triageVars
  <2> DEFINE l == worker[b].log
  <2>1. worker[b] \in Run /\ worker[b] # Idle /\ l \in Log
    BY <1>3, BusyRun DEF UpdateLog, Recover, Phase, RowInv
  <2>2. l \in stored
    <3>1. worker[b].no \in 1..deliveries[l]
      BY <2>1 DEF RowInv, RunsAreDeliveries
    <3>2. /\ deliveries[l] = stalls[l] + (IF job[l] \in {"active", "completed"} THEN 1 ELSE 0)
          /\ job[l] = "none" => stalls[l] = 0
      BY <2>1 DEF RowInv, QueueCounts
    <3>3. job[l] # "none"
      BY <3>1, <3>2
    <3> QED BY <3>3, <2>1 DEF RowInv, EnqueuedOnce, JobHasDocument
  <2>3. doc[l] \in Doc /\ doc[l].isProcessed \in BOOLEAN
    BY <2>1 DEF RowInv, TypeOK, Doc
  <2>4. PICK new : doc' = doc \/ (doc' = [doc EXCEPT ![l] = new] /\ new.isProcessed = TRUE)
    <3>1. CASE UpdateLog(b)
      BY <3>1 DEF UpdateLog, WriteVerdict
    <3>2. CASE Recover(b)
      <4>1. [doc[l] EXCEPT !.isProcessed = TRUE, !.anomalyScore = 0].isProcessed = TRUE
        BY <2>3 DEF Doc
      <4> QED BY <3>2, <4>1 DEF Recover
    <3> QED BY <1>3, <3>1, <3>2
  <2>5. /\ \A m \in Log \ {l} : doc'[m] = doc[m]
        /\ doc'[l] = doc[l] \/ doc'[l].isProcessed = TRUE
    BY <2>1, <2>4 DEF RowInv, TypeOK
  <2>6. UNCHANGED <<stored, rowVars>>
    BY <1>3 DEF UpdateLog, Recover
  <2> HIDE DEF l
  <2> QED BY <2>1, <2>2, <2>3, <2>5, <2>6, TriageMark DEF RowInv
<1>4. ASSUME NEW b \in Backend,
             FindLog(b) \/ Detect(b) \/ Return(b) \/ Crash(b)
      PROVE  UNCHANGED Triage!triageVars
  BY <1>4, TriageStutter DEF FindLog, Detect, Return, Crash
<1>5. ASSUME NEW b \in Backend, NEW l \in Log, Enqueue(b, l) \/ Take(b, l) \/ Stall(l)
      PROVE  UNCHANGED Triage!triageVars
  BY <1>5, TriageStutter DEF Enqueue, Take, Stall
<1>6. ASSUME NEW l \in Log, Stall(l) PROVE UNCHANGED Triage!triageVars
  BY <1>6, TriageStutter DEF Stall
<1>7. CASE UNCHANGED vars
  BY <1>7, TriageStutter DEF vars
<1> QED
  BY <1>1, <1>2, <1>3, <1>4, <1>5, <1>6, <1>7, TriageAlert, TriageRisk DEF Next, Process

(* Every behaviour of the pipeline, with all its crashes, failures and     *)
(* redeliveries, is one its readers were promised.                         *)
THEOREM PipelineImplementsTriage == Spec => ImplementsTriage
<1>1. RowInv /\ RowInv' /\ [Next]_vars => [Triage!Next]_Triage!triageVars
  BY TriageNext
<1> QED BY TriageInit, <1>1, RowInvHolds, PTL DEF Spec, ImplementsTriage, Triage!Spec

-------------------------------------------------------------------------------
(* Lemmas about one log. *)

(* A log not stored yet has no job, no request and no run. *)
LEMMA UnseenLog ==
  ASSUME RowInv, NEW l \in Log, l \notin stored
  PROVE  /\ job[l] = "none" /\ stalls[l] = 0 /\ deliveries[l] = 0
         /\ RunsOn(l) = {} /\ \A b \in Backend : l \notin pending[b]
<1>1. job[l] = "none" /\ \A b \in Backend : l \notin pending[b]
  BY DEF RowInv, EnqueuedOnce, JobHasDocument
<1>2. stalls[l] = 0 /\ deliveries[l] = 0
  BY <1>1 DEF RowInv, QueueCounts
<1>3. RunsOn(l) = {}
  BY <1>2 DEF RowInv, RunsAreDeliveries, RunsOn
<1> QED BY <1>1, <1>2, <1>3

(* The log of a run is stored. *)
LEMMA RunIsStored ==
  ASSUME RowInv, NEW b \in Backend, worker[b] # Idle, worker[b].log \in Log
  PROVE  worker[b].log \in stored /\ b \in RunsOn(worker[b].log)
<1>1. b \in RunsOn(worker[b].log)
  BY DEF RunsOn
<1> QED BY <1>1, UnseenLog

(* A log nothing has harmed has one run at most, its first. *)
LEMMA OnlyRun ==
  ASSUME RowInv, NEW l \in Log, StallsAreFaults(l), Unharmed(l),
         NEW b \in RunsOn(l)
  PROVE  RunsOn(l) = {b} /\ worker[b].no = 1 /\ deliveries[l] = 1
<1>1. stalls[l] = 0 /\ deliveries[l] \in Nat /\ deliveries[l] <= 1
  BY DEF StallsAreFaults, Unharmed, RowInv, QueueCounts
<1>2. \A c \in RunsOn(l) : worker[c].no = 1 /\ deliveries[l] = 1
  BY <1>1 DEF RunsOn, RowInv, RunsAreDeliveries
<1>3. \A c \in RunsOn(l) : c = b
  BY <1>2 DEF RunsOn, RowInv, RunsAreDeliveries
<1> QED BY <1>2, <1>3

(* Nothing about log l changes, but for a request that may end with it.    *)
SameLog(l) ==
    /\ l \in stored' <=> l \in stored
    /\ doc'[l] = doc[l] /\ job'[l] = job[l] /\ faults'[l] = faults[l]
    /\ stalls'[l] = stalls[l] /\ deliveries'[l] = deliveries[l]
    /\ alerts'[l] = alerts[l] /\ risks'[l] = risks[l]
    /\ \A c \in Backend : l \in pending[c] => l \in pending'[c]
    /\ \A c \in Backend :
          \/ worker'[c] = worker[c]
          \/ /\ worker[c].log # l \/ worker[c] = Idle
             /\ worker'[c].log # l \/ worker'[c] = Idle

(* A step that is not about l leaves the story of l as it is. *)
LEMMA SameStory ==
  ASSUME NEW l \in Log, SameLog(l), Story(l)
  PROVE  Story(l)'
<1>1. RunsOn(l)' = RunsOn(l)
  BY DEF SameLog, RunsOn
<1>2. \A b \in RunsOn(l) : worker'[b] = worker[b]
  BY DEF SameLog, RunsOn
<1>3. StallsAreFaults(l)'
  BY DEF SameLog, Story, StallsAreFaults
<1>4. StoryGoesOn(l)'
  BY <1>1, <1>2
  DEF SameLog, Story, StoryGoesOn, Unharmed, Told, AlertTold, RiskTold
<1>5. RowsArePaired(l)'
  <2>1. \A n : BetweenRows(l, n)' <=> BetweenRows(l, n)
    BY DEF SameLog, BetweenRows, Idle
  <2> QED BY <2>1 DEF SameLog, Story, RowsArePaired, Wrote
<1> QED BY <1>3, <1>4, <1>5 DEF Story

(* The pairing of rows only depends on them and on the runs between two.   *)
LEMMA KeepPairing ==
  ASSUME NEW l \in Log, RowsArePaired(l), faults[l] \subseteq faults'[l],
         UNCHANGED <<deliveries, alerts, risks>>,
         \A c \in Backend : \/ worker'[c] = worker[c]
                            \/ worker[c].phase # "risk" /\ worker'[c].phase # "risk"
  PROVE  RowsArePaired(l)'
<1>1. \A n : BetweenRows(l, n)' <=> BetweenRows(l, n)
  BY DEF BetweenRows
<1> QED BY <1>1 DEF RowsArePaired, Wrote

(* A fault is added to the logs blamed and to no other. *)
LEMMA BlameEffect ==
  ASSUME TypeOK, NEW S, NEW f, Blame(S, f)
  PROVE  /\ \A l \in Log : faults[l] \subseteq faults'[l]
         /\ \A l \in Log \ S : faults'[l] = faults[l]
         /\ \A l \in Log : l \in S => f \in faults'[l]
  BY DEF Blame, TypeOK

(* A new row adds its own number to those written. *)
LEMMA WroteAppend ==
  ASSUME NEW R, NEW rows \in Seq(R), NEW row, NEW n
  PROVE  Wrote(Append(rows, row), n) <=> Wrote(rows, n) \/ n = row.no
<1> DEFINE longer == Append(rows, row)
           m == Len(rows)
<1>1. /\ m \in Nat /\ Len(longer) = m + 1 /\ longer[m + 1] = row
      /\ \A i \in 1..m : longer[i] = rows[i]
  OBVIOUS
<1> HIDE DEF longer
<1>2. ASSUME Wrote(longer, n) PROVE Wrote(rows, n) \/ n = row.no
  <2>1. PICK i \in 1..(m + 1) : longer[i].no = n
    BY <1>1, <1>2 DEF Wrote
  <2>2. i = m + 1 \/ i \in 1..m
    BY <1>1, <2>1
  <2> QED BY <1>1, <2>1, <2>2 DEF Wrote
<1>3. ASSUME Wrote(rows, n) PROVE Wrote(longer, n)
  <2>1. PICK i \in 1..m : rows[i].no = n
    BY <1>3 DEF Wrote
  <2>2. i \in 1..Len(longer)
    BY <1>1, <2>1
  <2> QED BY <1>1, <2>1, <2>2 DEF Wrote
<1>4. ASSUME n = row.no PROVE Wrote(longer, n)
  <2>1. m + 1 \in 1..Len(longer)
    BY <1>1
  <2> QED BY <1>1, <1>4, <2>1 DEF Wrote
<1> QED BY <1>2, <1>3, <1>4 DEF longer

(* Once the story of a log may have ended early, only the other two parts  *)
(* have to be shown.                                                       *)
LEMMA HarmedStory ==
  ASSUME NEW l \in Log, ~Unharmed(l)', StallsAreFaults(l)', RowsArePaired(l)'
  PROVE  Story(l)'
  BY DEF Story, StoryGoesOn

-------------------------------------------------------------------------------
(* One lemma per operation. *)

(* An empty system has no stories. *)
LEMMA StoryInit == Init => StoryInv
<1> SUFFICES ASSUME Init PROVE StoryInv
  OBVIOUS
<1>1. RowInv
  BY RowInvInit
<1>2. ASSUME NEW l \in Log PROVE Story(l)
  BY DEF Init, Story, StallsAreFaults, StoryGoesOn, RowsArePaired
<1> QED BY <1>1, <1>2 DEF StoryInv

(* create and createBulk: the request goes on to the queue with every      *)
(* document it wrote, or answers 500 for all of them.                      *)
LEMMA InsertStory ==
  ASSUME StoryInv, NEW b \in Backend, NEW S \in SUBSET Log, S \cap stored = {},
         NEW d \in [S -> SubmittedDoc], Insert(S, d),
         Accept(b, S) \/ ThrowAfterInsert(S),
         UNCHANGED <<queueVars, worker, rowVars>>
  PROVE  \A l \in Log : Story(l)'
<1> USE DEF queueVars, rowVars
<1>1. ASSUME NEW l \in Log, l \notin S PROVE Story(l)'
  <2>1. faults'[l] = faults[l] /\ \A c \in Backend : l \in pending[c] => l \in pending'[c]
    <3>1. CASE Accept(b, S)
      BY <3>1 DEF Accept, StoryInv, RowInv, TypeOK
    <3>2. CASE ThrowAfterInsert(S)
      BY <1>1, <3>2, BlameEffect DEF ThrowAfterInsert, StoryInv, RowInv
    <3> QED BY <3>1, <3>2
  <2>2. SameLog(l)
    BY <1>1, <2>1 DEF SameLog, Insert
  <2> QED BY <2>2, SameStory DEF StoryInv
<1>2. ASSUME NEW l \in S PROVE Story(l)'
  <2>1. /\ job[l] = "none" /\ stalls[l] = 0 /\ deliveries[l] = 0 /\ RunsOn(l) = {}
        /\ l \in Log
    BY UnseenLog DEF StoryInv
  <2>2. StallsAreFaults(l)' /\ RowsArePaired(l)'
    BY <2>1 DEF StallsAreFaults, RowsArePaired
  <2>3. CASE Accept(b, S)
    <3>1. l \in pending'[b] /\ RunsOn(l)' = {}
      BY <2>1, <2>3 DEF Accept, RunsOn, StoryInv, RowInv, TypeOK
    <3> QED BY <2>1, <2>2, <3>1 DEF Story, StoryGoesOn
  <2>4. CASE ThrowAfterInsert(S)
    <3>1. "mongo" \in faults'[l]
      BY <2>1, <2>4, BlameEffect DEF ThrowAfterInsert, StoryInv, RowInv
    <3> QED BY <2>1, <2>2, <3>1, HarmedStory DEF Unharmed
  <2> QED BY <2>3, <2>4
<1> QED BY <1>1, <1>2

(* logQueue.add: the log has a job from now on, or an enqueue fault. *)
LEMMA EnqueueStory ==
  ASSUME StoryInv, NEW b \in Backend, NEW k \in Log, Enqueue(b, k)
  PROVE  \A l \in Log : Story(l)'
<1> USE DEF Enqueue, docVars, rowVars
<1>0. /\ TypeOK /\ k \in stored /\ job[k] = "none" /\ stalls[k] = 0
      /\ deliveries[k] = 0 /\ RunsOn(k) = {}
  <2>1. k \in stored /\ job[k] = "none"
    BY DEF StoryInv, RowInv, EnqueuedOnce
  <2>2. stalls[k] = 0 /\ deliveries[k] = 0
    BY <2>1 DEF StoryInv, RowInv, QueueCounts
  <2>3. RunsOn(k) = {}
    BY <2>2 DEF StoryInv, RowInv, RunsAreDeliveries, RunsOn
  <2> QED BY <2>1, <2>2, <2>3 DEF StoryInv, RowInv
<1>1. ASSUME NEW l \in Log, l # k PROVE Story(l)'
  <2>1. faults'[l] = faults[l] /\ job'[l] = job[l]
    BY <1>0, <1>1, BlameEffect DEF TypeOK
  <2>2. \A c \in Backend : l \in pending[c] => l \in pending'[c]
    BY <1>0, <1>1 DEF TypeOK
  <2>3. SameLog(l)
    BY <1>1, <2>1, <2>2 DEF SameLog
  <2> QED BY <2>3, SameStory DEF StoryInv
<1>2. Story(k)'
  <2>1. StallsAreFaults(k)' /\ RowsArePaired(k)' /\ RunsOn(k)' = {}
    BY <1>0 DEF StallsAreFaults, RowsArePaired, RunsOn, TypeOK
  <2>2. CASE job' = [job EXCEPT ![k] = "waiting"]
    <3>1. job'[k] = "waiting"
      BY <1>0, <2>2 DEF TypeOK
    <3> QED BY <2>1, <3>1 DEF Story, StoryGoesOn
  <2>3. CASE Blame({k}, "enqueue")
    <3>1. "enqueue" \in faults'[k]
      BY <1>0, <2>3, BlameEffect
    <3> QED BY <2>1, <3>1, HarmedStory DEF Unharmed
  <2> QED BY <2>2, <2>3
<1> QED BY <1>1, <1>2

(* A delivery: the job is active, its run is the only one of a log nothing *)
(* has harmed, and the new delivery has written nothing yet.               *)
LEMMA TakeStory ==
  ASSUME StoryInv, NEW b \in Backend, NEW k \in Log, Take(b, k)
  PROVE  \A l \in Log : Story(l)'
<1> USE DEF Take, docVars, rowVars
<1>0. TypeOK /\ deliveries[k] \in Nat /\ worker'[b] # Idle /\ worker'[b].log = k
      /\ worker'[b].phase = "find" /\ \A c \in Backend \ {b} : worker'[c] = worker[c]
  BY DEF StoryInv, RowInv, TypeOK, Idle
<1>1. ASSUME NEW l \in Log, l # k PROVE Story(l)'
  <2>1. job'[l] = job[l] /\ deliveries'[l] = deliveries[l]
    BY <1>0, <1>1 DEF TypeOK
  <2>2. SameLog(l)
    BY <1>0, <1>1, <2>1 DEF SameLog
  <2> QED BY <2>2, SameStory DEF StoryInv
<1>2. Story(k)'
  <2>1. job'[k] = "active" /\ deliveries'[k] = deliveries[k] + 1
    BY <1>0 DEF TypeOK
  <2>2. StallsAreFaults(k)'
    BY <2>1 DEF StoryInv, Story, StallsAreFaults
  <2>3. StoryGoesOn(k)'
    <3>1. SUFFICES ASSUME k \in stored, Unharmed(k) PROVE StoryGoesOn(k)'
      BY DEF StoryGoesOn, Unharmed
    <3>2. RunsOn(k) = {}
      BY <3>1 DEF StoryInv, Story, StoryGoesOn
    <3>3. RunsOn(k)' = {b}
      BY <1>0, <3>2 DEF RunsOn
    <3> QED BY <1>0, <2>1, <3>3 DEF StoryGoesOn
  <2>4. RowsArePaired(k)'
    <3>1. SUFFICES ASSUME faults[k] \cap {"alert", "risk", "crash"} = {},
                          NEW n \in 1..(deliveries[k] + 1)
                   PROVE  Wrote(alerts[k], n) <=> Wrote(risks[k], n) \/ BetweenRows(k, n)'
      BY <2>1 DEF RowsArePaired
    <3>2. BetweenRows(k, n)' <=> BetweenRows(k, n)
      BY <1>0 DEF BetweenRows, Idle
    <3>3. CASE n \in 1..deliveries[k]
      BY <3>1, <3>2, <3>3 DEF StoryInv, Story, RowsArePaired
    <3>4. CASE n \notin 1..deliveries[k]
      <4>1. ~Wrote(alerts[k], n) /\ ~Wrote(risks[k], n)
        BY <3>4 DEF StoryInv, RowInv, RowsAreDeliveries, Wrote
      <4>2. ~BetweenRows(k, n)
        BY <3>4 DEF StoryInv, RowInv, RunsAreDeliveries, BetweenRows, Idle
      <4> QED BY <3>2, <4>1, <4>2
    <3> QED BY <3>3, <3>4
  <2> QED BY <2>2, <2>3, <2>4 DEF Story
<1> QED BY <1>1, <1>2

(* A step of a run leaves every log but its own alone. *)
LEMMA OtherLogs ==
  ASSUME StoryInv, NEW b \in Backend, worker[b] \in Run,
         NEW l \in Log, l # worker[b].log, worker'[b] = Idle \/ worker'[b].log # l,
         \A c \in Backend \ {b} : worker'[c] = worker[c],
         UNCHANGED <<stored, pending, deliveries, stalls>>,
         doc'[l] = doc[l], job'[l] = job[l], faults'[l] = faults[l],
         alerts'[l] = alerts[l], risks'[l] = risks[l]
  PROVE  Story(l)'
<1>1. SameLog(l)
  BY DEF SameLog
<1> QED BY <1>1, SameStory DEF StoryInv

(* The story of the log of a run that goes on to its next await: what      *)
(* there is left to show.                                                  *)
LEMMA RunMovesOn ==
  ASSUME StoryInv, NEW b \in Backend, worker[b] \in Run, SameRun(b),
         NEW l \in Log, l = worker[b].log,
         UNCHANGED <<stored, pending, queueVars>>, faults[l] \subseteq faults'[l],
         RowsArePaired(l)',
         Unharmed(l)' => /\ worker'[b].phase # "recover"
                         /\ worker'[b].phase = "risk" => AlertTold(l)'
                         /\ worker'[b].phase = "return" => Told(l)'
  PROVE  Story(l)'
<1> USE DEF queueVars
<1>1. worker[b] # Idle /\ worker'[b] # Idle
  BY DEF SameRun, Run, Idle, Phase
<1>2. StallsAreFaults(l)'
  BY DEF StoryInv, Story, StallsAreFaults
<1>3. StoryGoesOn(l)'
  <2>1. SUFFICES ASSUME Unharmed(l)' PROVE StoryGoesOn(l)'
    BY DEF StoryGoesOn
  <2>2. Unharmed(l) /\ l \in stored /\ b \in RunsOn(l)
    BY <1>1, <2>1, RunIsStored DEF StoryInv, Unharmed
  <2>3. RunsOn(l) = {b} /\ job[l] = "active"
    BY <2>2, OnlyRun DEF StoryInv, Story, StoryGoesOn
  <2>4. RunsOn(l)' = {b}
    BY <1>1, <2>3 DEF SameRun, RunsOn
  <2> QED BY <2>1, <2>3, <2>4 DEF StoryGoesOn
<1> QED BY <1>2, <1>3 DEF Story

(* findById: the document is there, or the call throws. *)
LEMMA FindLogStory ==
  ASSUME StoryInv, NEW b \in Backend, FindLog(b)
  PROVE  \A l \in Log : Story(l)'
<1> USE DEF FindLog, docVars, queueVars, rowVars
<1>0. PICK k \in Log : k = worker[b].log
  BY BusyRun DEF StoryInv, RowInv, Phase
<1>1. TypeOK /\ worker[b] \in Run /\ worker[b] # Idle /\ k = worker[b].log
  BY <1>0, BusyRun DEF StoryInv, RowInv, Phase
<1>2. k \in stored
  BY <1>1, RunIsStored DEF StoryInv
<1>3. \/ GoTo(b, "detect") /\ UNCHANGED faults
      \/ GoTo(b, "recover") /\ Blame({k}, "mongo")
  BY <1>1, <1>2
<1>4. /\ SameRun(b) /\ worker'[b].phase # "risk" /\ worker'[b].phase # "return"
      /\ \/ worker'[b].phase # "recover" /\ UNCHANGED faults
         \/ Blame({k}, "mongo")
  BY <1>1, <1>3, GoToSameRun DEF Phase
<1>5. /\ faults[k] \subseteq faults'[k] /\ \A l \in Log \ {k} : faults'[l] = faults[l]
      /\ Unharmed(k)' => worker'[b].phase # "recover"
  BY <1>1, <1>4, BlameEffect DEF Unharmed
<1>6. ASSUME NEW l \in Log, l # k PROVE Story(l)'
  BY <1>1, <1>4, <1>5, <1>6, OtherLogs DEF SameRun
<1>7. RowsArePaired(k)'
  BY <1>1, <1>4, <1>5, KeepPairing DEF StoryInv, Story, SameRun, At
<1>8. Story(k)'
  BY <1>1, <1>4, <1>5, <1>7, RunMovesOn
<1> QED BY <1>6, <1>8

(* A run that changes what it knows, not the log it is on. *)
LEMMA DetectStory ==
  ASSUME StoryInv, NEW b \in Backend, Detect(b)
  PROVE  \A l \in Log : Story(l)'
<1> USE DEF Detect, docVars, queueVars, rowVars
<1>0. PICK k \in Log : k = worker[b].log
  BY BusyRun DEF StoryInv, RowInv, Phase
<1>1. TypeOK /\ worker[b] \in Run /\ worker[b] # Idle /\ k = worker[b].log
  BY <1>0, BusyRun DEF StoryInv, RowInv, Phase
<1>2. SameRun(b) /\ worker'[b].phase = "update"
  <2>1. CASE GoTo(b, "update")
    BY <1>1, <2>1, GoToSameRun DEF Phase
  <2>2. ASSUME NEW a \in Anomaly, NEW t \in Threat,
               worker' = [worker EXCEPT ![b].phase = "update",
                                        ![b].anomaly = a, ![b].threat = t]
        PROVE  SameRun(b) /\ worker'[b].phase = "update"
    <3>1. worker' = [worker EXCEPT ![b] =
               [worker[b] EXCEPT !.phase = "update", !.anomaly = a, !.threat = t]]
      BY <2>2
    <3> QED BY <1>1, <3>1 DEF TypeOK, SameRun, Run, Phase
  <2> QED BY <2>1, <2>2
<1>3. faults[k] \subseteq faults'[k] /\ \A l \in Log \ {k} : faults'[l] = faults[l]
  BY <1>1, BlameEffect
<1>4. ASSUME NEW l \in Log, l # k PROVE Story(l)'
  BY <1>1, <1>2, <1>3, <1>4, OtherLogs DEF SameRun
<1>5. RowsArePaired(k)'
  BY <1>1, <1>2, <1>3, KeepPairing DEF StoryInv, Story, SameRun, At
<1>6. Story(k)'
  BY <1>1, <1>2, <1>3, <1>5, RunMovesOn
<1> QED BY <1>4, <1>6

(* findByIdAndUpdate: below the threshold the mark is all there is to tell. *)
LEMMA UpdateLogStory ==
  ASSUME StoryInv, NEW b \in Backend, UpdateLog(b)
  PROVE  \A l \in Log : Story(l)'
<1> USE DEF docVars, queueVars, rowVars
<1>0. PICK k \in Log, r \in Run : r = worker[b] /\ k = r.log
  BY BusyRun DEF UpdateLog, StoryInv, RowInv, Phase
<1>1. /\ TypeOK /\ r = worker[b] /\ k = worker[b].log
      /\ worker[b] \in Run /\ worker[b] # Idle /\ r.phase = "update"
  BY <1>0, BusyRun DEF UpdateLog, StoryInv, RowInv, Phase, At
<1>2. /\ UNCHANGED <<stored, pending, queueVars, rowVars>>
      /\ \A l \in Log \ {k} : doc'[l] = doc[l]
  BY <1>1 DEF UpdateLog, WriteVerdict, TypeOK
<1>3. /\ SameRun(b) /\ worker'[b].phase # "risk"
      /\ \/ /\ WriteVerdict(r) /\ UNCHANGED faults
            /\ worker'[b].phase = IF NeedsAlert(r.threat) THEN "alert" ELSE "return"
         \/ Blame({k}, "mongo")
  <2>1. CASE WriteVerdict(r) /\ UNCHANGED faults
             /\ GoTo(b, IF NeedsAlert(r.threat) THEN "alert" ELSE "return")
    BY <1>1, <2>1, GoToSameRun DEF Phase
  <2>2. CASE GoTo(b, "recover") /\ Blame({k}, "mongo")
    BY <1>1, <2>2, GoToSameRun DEF Phase
  <2> QED BY <1>1, <2>1, <2>2 DEF UpdateLog
<1>4. /\ faults[k] \subseteq faults'[k] /\ \A l \in Log \ {k} : faults'[l] = faults[l]
      /\ Unharmed(k)' => /\ worker'[b].phase # "recover"
                         /\ worker'[b].phase = "return" => Told(k)'
  <2>1. CASE Blame({k}, "mongo")
    BY <1>1, <2>1, BlameEffect DEF Unharmed
  <2>2. CASE ~Blame({k}, "mongo")
    <3>1. /\ WriteVerdict(r) /\ UNCHANGED faults
          /\ worker'[b].phase = IF NeedsAlert(r.threat) THEN "alert" ELSE "return"
      BY <1>3, <2>2
    <3>2. doc'[k].isProcessed = TRUE /\ doc'[k].threatScore = r.threat
      BY <1>1, <3>1 DEF WriteVerdict, TypeOK
    <3> QED BY <3>1, <3>2 DEF Told, AlertTold, RiskTold
  <2> QED BY <2>1, <2>2
<1>5. ASSUME NEW l \in Log, l # k PROVE Story(l)'
  BY <1>1, <1>2, <1>3, <1>4, <1>5, OtherLogs DEF SameRun
<1>6. RowsArePaired(k)'
  BY <1>1, <1>2, <1>3, <1>4, KeepPairing DEF StoryInv, Story, SameRun
<1>7. Story(k)'
  BY <1>1, <1>2, <1>3, <1>4, <1>6, RunMovesOn
<1> QED BY <1>5, <1>7

(* prisma.alert.create: the alert is there or its fault is; the delivery   *)
(* now stands between its two rows.                                        *)
LEMMA CreateAlertStory ==
  ASSUME StoryInv, NEW b \in Backend, CreateAlert(b)
  PROVE  \A l \in Log : Story(l)'
<1> USE DEF docVars, queueVars
<1>0. PICK k \in Log, r \in Run : r = worker[b] /\ k = r.log
  BY BusyRun DEF CreateAlert, StoryInv, RowInv, Phase
<1>1. /\ TypeOK /\ r = worker[b] /\ k = worker[b].log
      /\ worker[b] \in Run /\ worker[b] # Idle /\ r.phase = "alert"
  BY <1>0, BusyRun DEF CreateAlert, StoryInv, RowInv, Phase, At
<1>2. SameRun(b) /\ worker'[b].phase = "risk"
  BY <1>1, GoToSameRun DEF CreateAlert, Phase
<1>3. UNCHANGED <<docVars, pending, queueVars, risks>>
  BY DEF CreateAlert
<1>4. alerts[k] \in Seq(AlertRow) /\ Len(alerts[k]) \in Nat
  BY DEF StoryInv, RowInv, TypeOK
<1>5. PICK row : /\ row.no = r.no
                 /\ \/ alerts' = [alerts EXCEPT ![k] = Append(alerts[k], row)]
                       /\ UNCHANGED faults
                    \/ Blame({k}, "alert") /\ UNCHANGED alerts
  BY <1>1 DEF CreateAlert
<1>6. /\ faults[k] \subseteq faults'[k]
      /\ \A l \in Log \ {k} : faults'[l] = faults[l] /\ alerts'[l] = alerts[l]
  BY <1>1, <1>5, BlameEffect DEF TypeOK
<1>7. ASSUME NEW l \in Log, l # k PROVE Story(l)'
  BY <1>1, <1>2, <1>3, <1>6, <1>7, OtherLogs DEF SameRun
<1>8. CASE Blame({k}, "alert") /\ UNCHANGED alerts
  <2>1. "alert" \in faults'[k]
    BY <1>1, <1>8, BlameEffect
  <2>2. RowsArePaired(k)' /\ AlertTold(k)'
    BY <2>1 DEF RowsArePaired, AlertTold
  <2>3. Story(k)'
    BY <1>1, <1>2, <1>3, <1>6, <2>2, RunMovesOn
  <2> QED BY <1>7, <2>3
<1>9. CASE alerts' = [alerts EXCEPT ![k] = Append(alerts[k], row)] /\ UNCHANGED faults
  <2>1. alerts'[k] = Append(alerts[k], row) /\ alerts'[k] # <<>>
    BY <1>4, <1>9 DEF StoryInv, RowInv, TypeOK
  <2>2. \A n : Wrote(alerts'[k], n) <=> Wrote(alerts[k], n) \/ n = r.no
    BY <1>4, <1>5, <2>1, WroteAppend
  <2>3. \A n : BetweenRows(k, n)' <=> BetweenRows(k, n) \/ n = r.no
    BY <1>1, <1>2 DEF BetweenRows, SameRun
  <2>4. RowsArePaired(k)' /\ AlertTold(k)'
    BY <1>3, <1>9, <2>1, <2>2, <2>3 DEF StoryInv, Story, RowsArePaired, AlertTold
  <2>5. Story(k)'
    BY <1>1, <1>2, <1>3, <1>6, <2>4, RunMovesOn
  <2> QED BY <1>7, <2>5
<1> QED BY <1>5, <1>8, <1>9

(* prisma.threatScore.create: the second row closes the pair. *)
LEMMA CreateThreatScoreStory ==
  ASSUME StoryInv, NEW b \in Backend, CreateThreatScore(b)
  PROVE  \A l \in Log : Story(l)'
<1> USE DEF docVars, queueVars
<1>0. PICK k \in Log, r \in Run : r = worker[b] /\ k = r.log
  BY BusyRun DEF CreateThreatScore, StoryInv, RowInv, Phase
<1>1. /\ TypeOK /\ r = worker[b] /\ k = worker[b].log
      /\ worker[b] \in Run /\ worker[b] # Idle /\ r.phase = "risk"
  BY <1>0, BusyRun DEF CreateThreatScore, StoryInv, RowInv, Phase, At
<1>2. SameRun(b) /\ worker'[b].phase = "return"
  BY <1>1, GoToSameRun DEF CreateThreatScore, Phase
<1>3. UNCHANGED <<docVars, pending, queueVars, alerts>>
  BY DEF CreateThreatScore
<1>4. risks[k] \in Seq(RiskRow)
  BY DEF StoryInv, RowInv, TypeOK
<1>5. PICK row : /\ row.no = r.no
                 /\ \/ risks' = [risks EXCEPT ![k] = Append(risks[k], row)]
                       /\ UNCHANGED faults
                    \/ Blame({k}, "risk") /\ UNCHANGED risks
  BY <1>1 DEF CreateThreatScore
<1>6. /\ faults[k] \subseteq faults'[k]
      /\ \A l \in Log \ {k} : faults'[l] = faults[l] /\ risks'[l] = risks[l]
  BY <1>1, <1>5, BlameEffect DEF TypeOK
<1>7. ASSUME NEW l \in Log, l # k PROVE Story(l)'
  BY <1>1, <1>2, <1>3, <1>6, <1>7, OtherLogs DEF SameRun
<1>8. Unharmed(k)' => doc'[k].isProcessed /\ AlertTold(k)'
  <2>1. SUFFICES ASSUME Unharmed(k)' PROVE doc'[k].isProcessed /\ AlertTold(k)'
    OBVIOUS
  <2>2. k \in stored /\ doc[k].isProcessed
    BY <1>1 DEF StoryInv, RowInv, WritersHaveMarked
  <2>3. Unharmed(k) /\ b \in RunsOn(k)
    BY <1>1, <1>6, <2>1 DEF Unharmed, RunsOn
  <2>4. AlertTold(k)
    BY <1>1, <2>2, <2>3 DEF StoryInv, Story, StoryGoesOn
  <2> QED BY <1>3, <1>6, <2>2, <2>4 DEF AlertTold
<1>9. CASE Blame({k}, "risk") /\ UNCHANGED risks
  <2>1. "risk" \in faults'[k]
    BY <1>1, <1>9, BlameEffect
  <2>2. RowsArePaired(k)' /\ RiskTold(k)'
    BY <2>1 DEF RowsArePaired, RiskTold
  <2>3. Story(k)'
    BY <1>1, <1>2, <1>3, <1>6, <1>8, <2>2, RunMovesOn DEF Told
  <2> QED BY <1>7, <2>3
<1>10. CASE risks' = [risks EXCEPT ![k] = Append(risks[k], row)] /\ UNCHANGED faults
  <2>1. risks'[k] = Append(risks[k], row) /\ risks'[k] # <<>>
    BY <1>4, <1>10 DEF StoryInv, RowInv, TypeOK
  <2>2. \A n : Wrote(risks'[k], n) <=> Wrote(risks[k], n) \/ n = r.no
    BY <1>4, <1>5, <2>1, WroteAppend
  <2>3. \A n : BetweenRows(k, n) <=> BetweenRows(k, n)' \/ n = r.no
    BY <1>1, <1>2 DEF BetweenRows, SameRun
  <2>4. RowsArePaired(k)' /\ RiskTold(k)'
    BY <1>3, <1>10, <2>1, <2>2, <2>3 DEF StoryInv, Story, RowsArePaired, RiskTold
  <2>5. Story(k)'
    BY <1>1, <1>2, <1>3, <1>6, <1>8, <2>4, RunMovesOn DEF Told
  <2> QED BY <1>7, <2>5
<1> QED BY <1>5, <1>9, <1>10

(* The outer catch only runs for a log MongoDB has failed. *)
LEMMA RecoverStory ==
  ASSUME StoryInv, NEW b \in Backend, Recover(b)
  PROVE  \A l \in Log : Story(l)'
<1> USE DEF queueVars, rowVars
<1>0. PICK k \in Log : k = worker[b].log
  BY BusyRun DEF Recover, StoryInv, RowInv, Phase
<1>1. /\ TypeOK /\ k = worker[b].log /\ worker[b] \in Run /\ worker[b] # Idle
      /\ worker[b].phase = "recover"
  BY <1>0, BusyRun DEF Recover, StoryInv, RowInv, Phase, At
<1>2. SameRun(b) /\ worker'[b].phase = "return"
  BY <1>1, GoToSameRun DEF Recover, Phase
<1>3. /\ UNCHANGED <<stored, pending, queueVars, rowVars, faults>>
      /\ \A l \in Log \ {k} : doc'[l] = doc[l]
  BY <1>1 DEF Recover, TypeOK
<1>4. ~Unharmed(k)
  BY <1>1, RunIsStored DEF StoryInv, Story, StoryGoesOn
<1>5. ASSUME NEW l \in Log, l # k PROVE Story(l)'
  BY <1>1, <1>2, <1>3, <1>5, OtherLogs DEF SameRun
<1>6. RowsArePaired(k)'
  BY <1>1, <1>2, <1>3, KeepPairing DEF StoryInv, Story, SameRun
<1>7. Story(k)'
  BY <1>3, <1>4, <1>6, HarmedStory DEF StoryInv, Story, StallsAreFaults, Unharmed
<1> QED BY <1>5, <1>7

(* process() returns: the only run of a log nothing has harmed completes   *)
(* its job, and all there is to tell is told.                              *)
LEMMA ReturnStory ==
  ASSUME StoryInv, NEW b \in Backend, Return(b)
  PROVE  \A l \in Log : Story(l)'
<1> USE DEF docVars, rowVars
<1>0. PICK k \in Log : k = worker[b].log
  BY BusyRun DEF Return, StoryInv, RowInv, Phase
<1>1. /\ TypeOK /\ k = worker[b].log /\ worker[b] \in Run /\ worker[b] # Idle
      /\ worker[b].phase = "return"
  BY <1>0, BusyRun DEF Return, StoryInv, RowInv, Phase, At
<1>2. worker'[b] = Idle /\ \A c \in Backend \ {b} : worker'[c] = worker[c]
  BY <1>1 DEF Return, TypeOK
<1>3. UNCHANGED <<docVars, pending, deliveries, stalls, rowVars, faults>>
  BY DEF Return
<1>4. job' = (IF HoldsLock(b) THEN [job EXCEPT ![k] = "completed"] ELSE job)
  BY <1>1 DEF Return
<1>5. ASSUME NEW l \in Log, l # k PROVE Story(l)'
  BY <1>1, <1>2, <1>3, <1>4, <1>5, OtherLogs DEF TypeOK
<1>6. RowsArePaired(k)'
  BY <1>1, <1>2, <1>3, KeepPairing DEF StoryInv, Story, Idle
<1>7. job'[k] = IF HoldsLock(b) THEN "completed" ELSE job[k]
  BY <1>4 DEF StoryInv, RowInv, TypeOK
<1>8. StallsAreFaults(k)'
  BY <1>3, <1>7 DEF StoryInv, Story, StallsAreFaults
<1>9. StoryGoesOn(k)'
  <2>1. SUFFICES ASSUME Unharmed(k) PROVE StoryGoesOn(k)'
    BY <1>3 DEF StoryGoesOn, Unharmed
  <2>2. k \in stored /\ b \in RunsOn(k)
    BY <1>1, RunIsStored DEF StoryInv
  <2>3. RunsOn(k) = {b} /\ worker[b].no = 1 /\ deliveries[k] = 1
    BY <2>1, <2>2, OnlyRun DEF StoryInv, Story
  <2>4. job[k] = "active" /\ Told(k)
    BY <1>1, <2>1, <2>2 DEF StoryInv, Story, StoryGoesOn
  <2>5. job'[k] = "completed"
    BY <1>1, <1>7, <2>3, <2>4 DEF HoldsLock
  <2>6. RunsOn(k)' = {}
    BY <1>2, <2>3 DEF RunsOn
  <2>7. Told(k)'
    BY <1>3, <2>4 DEF Told, AlertTold, RiskTold
  <2> QED BY <2>5, <2>6, <2>7 DEF StoryGoesOn
<1> QED BY <1>5, <1>6, <1>8, <1>9 DEF Story

(* A crash blames every log whose request or run it ends. *)
LEMMA CrashStory ==
  ASSUME StoryInv, NEW b \in Backend, Crash(b)
  PROVE  \A l \in Log : Story(l)'
<1> USE DEF docVars, queueVars, rowVars
<1>1. TypeOK /\ worker[b] \in Run \cup {Idle}
  BY DEF StoryInv, RowInv, TypeOK
<1>2. /\ pending'[b] = {} /\ \A c \in Backend \ {b} : pending'[c] = pending[c]
      /\ worker'[b] = Idle /\ \A c \in Backend \ {b} : worker'[c] = worker[c]
      /\ UNCHANGED <<docVars, queueVars, rowVars>>
  BY <1>1 DEF Crash, TypeOK
<1>3. PICK S : /\ Blame(S, "crash")
               /\ S = pending[b] \cup (IF worker[b] = Idle THEN {} ELSE {worker[b].log})
  BY DEF Crash
<1>4. ASSUME NEW l \in Log, l \in S PROVE Story(l)'
  <2>1. "crash" \in faults'[l] /\ faults[l] \subseteq faults'[l]
    BY <1>1, <1>3, <1>4, BlameEffect
  <2>2. StallsAreFaults(l)'
    BY <1>2, <2>1 DEF StoryInv, Story, StallsAreFaults
  <2> QED BY <2>1, <2>2, HarmedStory DEF Unharmed, RowsArePaired
<1>5. ASSUME NEW l \in Log, l \notin S PROVE Story(l)'
  <2>1. faults'[l] = faults[l]
    BY <1>1, <1>3, <1>5, BlameEffect
  <2>2. l \notin pending[b] /\ (worker[b] = Idle \/ worker[b].log # l)
    BY <1>3, <1>5
  <2>3. SameLog(l)
    BY <1>2, <2>1, <2>2 DEF SameLog
  <2> QED BY <2>3, SameStory DEF StoryInv
<1> QED BY <1>4, <1>5

(* A stall is a fault of its log; it moves no run and no row. *)
LEMMA StallStory ==
  ASSUME StoryInv, NEW k \in Log, Stall(k)
  PROVE  \A l \in Log : Story(l)'
<1> USE DEF docVars, rowVars
<1>1. TypeOK /\ UNCHANGED <<docVars, pending, deliveries, worker, rowVars>>
  BY DEF Stall, StoryInv, RowInv
<1>2. /\ "stall" \in faults'[k] /\ faults[k] \subseteq faults'[k]
      /\ \A l \in Log \ {k} : faults'[l] = faults[l] /\ job'[l] = job[l]
                              /\ stalls'[l] = stalls[l]
  BY <1>1, BlameEffect DEF Stall, TypeOK
<1>3. ASSUME NEW l \in Log, l # k PROVE Story(l)'
  <2>1. SameLog(l)
    BY <1>1, <1>2, <1>3 DEF SameLog
  <2> QED BY <2>1, SameStory DEF StoryInv
<1>4. Story(k)'
  <2>1. RowsArePaired(k)'
    BY <1>1, <1>2, KeepPairing DEF StoryInv, Story
  <2> QED BY <1>2, <2>1, HarmedStory DEF Unharmed, StallsAreFaults
<1> QED BY <1>3, <1>4

(* Every step keeps every log's story. *)
LEMMA StoryNext == StoryInv /\ [Next]_vars => StoryInv'
<1> SUFFICES ASSUME StoryInv, [Next]_vars PROVE StoryInv'
  OBVIOUS
<1>1. RowInv'
  BY RowInvNext DEF StoryInv
<1> SUFFICES \A l \in Log : Story(l)'
  BY <1>1 DEF StoryInv
<1>2. ASSUME NEW b \in Backend, NEW k \in Log, Create(b, k)
      PROVE  \A l \in Log : Story(l)'
  <2>1. PICK d \in SubmittedDoc : Insert({k}, [j \in {k} |-> d])
    BY <1>2 DEF Create
  <2>2. [j \in {k} |-> d] \in [{k} -> SubmittedDoc] /\ {k} \in SUBSET Log
    BY <2>1
  <2> QED BY <1>2, <2>1, <2>2, InsertStory DEF Create
<1>3. ASSUME NEW b \in Backend, NEW S \in SUBSET Log, CreateBulk(b, S)
      PROVE  \A l \in Log : Story(l)'
  BY <1>3, InsertStory DEF CreateBulk
<1>4. CASE UNCHANGED vars
  <2>1. ASSUME NEW l \in Log PROVE SameLog(l)
    BY <1>4 DEF vars, docVars, queueVars, rowVars, SameLog
  <2> QED BY <2>1, SameStory DEF StoryInv
<1> QED
  BY <1>2, <1>3, <1>4, EnqueueStory, TakeStory, FindLogStory, DetectStory, UpdateLogStory,
     CreateAlertStory, CreateThreatScoreStory, RecoverStory, ReturnStory, CrashStory,
     StallStory DEF Next, Process

(* The invariant holds in every behaviour. *)
LEMMA StoryInvHolds == Spec => []StoryInv
<1>1. StoryInv /\ [Next]_vars => StoryInv'
  BY StoryNext
<1> QED BY StoryInit, <1>1, PTL DEF Spec

-------------------------------------------------------------------------------
(* What the stories say once they have ended. *)

(* The story of a log nothing has harmed ends with all of it told. *)
LEMMA QuietIsTold ==
  ASSUME StoryInv, NEW l \in stored, Quiet(l), Unharmed(l)
  PROVE  Told(l)
<1>1. l \in Log /\ job[l] \in JobState
  BY DEF StoryInv, RowInv, TypeOK
<1>2. job[l] # "failed"
  BY <1>1 DEF StoryInv, Story, StallsAreFaults, Unharmed
<1>3. job[l] # "none"
  BY <1>1 DEF StoryInv, Story, StoryGoesOn, Quiet
<1>4. job[l] = "completed"
  BY <1>1, <1>2, <1>3 DEF Quiet, JobState
<1> QED BY <1>1, <1>4 DEF StoryInv, Story, StoryGoesOn

(* A log whose job was never redelivered has one row of a kind at most,    *)
(* and none when its document shows a score below the threshold.           *)
LEMMA FirstRowOnly ==
  ASSUME StoryInv, NEW l \in Log, stalls[l] = 0
  PROVE  \A rows \in {alerts[l], risks[l]} :
            /\ Len(rows) \in {0, 1} /\ (Len(rows) = 0 <=> rows = <<>>)
            /\ ~NeedsAlert(doc[l].threatScore) => rows = <<>>
<1>1. deliveries[l] \in Nat /\ deliveries[l] <= 1
  <2>1. deliveries[l] \in Nat
    BY DEF StoryInv, RowInv, TypeOK
  <2>2. deliveries[l] = stalls[l] + (IF job[l] \in {"active", "completed"} THEN 1 ELSE 0)
    BY DEF StoryInv, RowInv, QueueCounts
  <2> QED BY <2>1, <2>2
<1>2. ASSUME NEW rows \in {alerts[l], risks[l]}
      PROVE  Len(rows) \in {0, 1} /\ (Len(rows) = 0 <=> rows = <<>>)
  <2>1. \E R : rows \in Seq(R)
    BY DEF StoryInv, RowInv, TypeOK
  <2>2. /\ \A i \in 1..Len(rows) : rows[i].no \in 1..deliveries[l]
        /\ \A i, j \in 1..Len(rows) : rows[i].no = rows[j].no => i = j
    BY DEF StoryInv, RowInv, RowsAreDeliveries
  <2>3. Len(rows) \in Nat /\ (Len(rows) = 0 <=> rows = <<>>)
    BY <2>1
  <2>4. ~ Len(rows) >= 2
    <3>1. SUFFICES ASSUME Len(rows) >= 2 PROVE FALSE
      OBVIOUS
    <3>2. 1 \in 1..Len(rows) /\ 2 \in 1..Len(rows)
      BY <2>3, <3>1
    <3>3. rows[1].no = 1 /\ rows[2].no = 1
      BY <1>1, <2>2, <3>2
    <3> QED BY <2>2, <3>2, <3>3
  <2>5. Len(rows) = 0 \/ Len(rows) = 1
    <3>1. \A n \in Nat : n >= 2 \/ n = 0 \/ n = 1
      OBVIOUS
    <3> QED BY <2>3, <2>4, <3>1
  <2> QED BY <2>3, <2>5
<1>3. ASSUME ~NeedsAlert(doc[l].threatScore) PROVE alerts[l] = <<>> /\ risks[l] = <<>>
  <2>1. \A i \in 1..Len(alerts[l]) : FALSE
    BY <1>3 DEF StoryInv, RowInv, RowsFollowTriage, RowsAgreeWithLog
  <2>2. \A i \in 1..Len(risks[l]) : FALSE
    BY <1>3 DEF StoryInv, RowInv, RowsFollowTriage, RowsAgreeWithLog
  <2>3. Len(alerts[l]) # 1
    <3>1. SUFFICES ASSUME Len(alerts[l]) = 1 PROVE FALSE
      OBVIOUS
    <3>2. 1 \in 1..Len(alerts[l])
      BY <3>1
    <3> QED BY <2>1, <3>2
  <2>4. Len(risks[l]) # 1
    <3>1. SUFFICES ASSUME Len(risks[l]) = 1 PROVE FALSE
      OBVIOUS
    <3>2. 1 \in 1..Len(risks[l])
      BY <3>1
    <3> QED BY <2>2, <3>2
  <2> QED BY <1>2, <2>3, <2>4
<1> QED BY <1>2, <1>3

(* Without a fault the pipeline is exactly-once, whatever the client had   *)
(* submitted: createBulk, the queue and process() together leave the mark, *)
(* and one row of each kind exactly when the score asks for them.          *)
THEOREM TriageIsExactlyOnce == Spec => []TriagedOnce
<1>1. StoryInv => TriagedOnce
  <2> SUFFICES ASSUME StoryInv, NEW l \in stored, Quiet(l), faults[l] = {}
               PROVE  LET rows == IF NeedsAlert(doc[l].threatScore) THEN 1 ELSE 0 IN
                      doc[l].isProcessed /\ Len(alerts[l]) = rows /\ Len(risks[l]) = rows
    BY DEF TriagedOnce
  <2>1. l \in Log /\ stalls[l] = 0
    BY DEF StoryInv, RowInv, TypeOK, Story, StallsAreFaults
  <2>2. Told(l)
    BY QuietIsTold DEF Unharmed
  <2>3. doc[l].isProcessed
    BY <2>2 DEF Told
  <2>4. CASE NeedsAlert(doc[l].threatScore)
    <3>1. alerts[l] # <<>> /\ risks[l] # <<>>
      BY <2>2, <2>4 DEF Told, AlertTold, RiskTold
    <3> QED BY <2>1, <2>3, <2>4, <3>1, FirstRowOnly
  <2>5. CASE ~NeedsAlert(doc[l].threatScore)
    BY <2>1, <2>3, <2>5, FirstRowOnly
  <2> QED BY <2>4, <2>5
<1> QED BY <1>1, StoryInvHolds, PTL

(* Rows with the same numbers are as many. *)
LEMMA SameNumbersSameLength ==
  ASSUME NEW R, NEW S, NEW first \in Seq(R), NEW second \in Seq(S),
         \A i, j \in 1..Len(first) : first[i].no = first[j].no => i = j,
         \A i \in 1..Len(first) : Wrote(second, first[i].no)
  PROVE  Len(first) <= Len(second)
<1> DEFINE m == Len(second)
           D == {second[i].no : i \in 1..m}
           f == [i \in 1..m |-> second[i].no]
<1>1. m \in Nat /\ IsFiniteSet(1..m) /\ Cardinality(1..m) = m
  <2>1. m \in Nat /\ m \in Int
    OBVIOUS
  <2> HIDE DEF m
  <2>2. IsFiniteSet(1..m) /\ Cardinality(1..m) = IF 1 > m THEN 0 ELSE m - 1 + 1
    BY <2>1, FS_Interval
  <2> QED BY <2>1, <2>2
<1>2. f \in Surjection(1..m, D)
  BY DEF Surjection
<1>3. IsFiniteSet(D) /\ Cardinality(D) <= m
  BY <1>1, <1>2, FS_Surjection
<1>4. \A i \in 1..Len(first) : first[i].no \in D
  BY DEF Wrote
<1>5. Len(first) <= Cardinality(D)
  <2> HIDE DEF D
  <2> QED BY <1>3, <1>4, NumberedRowsBound
<1>6. Len(first) \in Nat /\ Cardinality(D) \in Nat
  BY <1>3, FS_CardinalityType
<1> QED BY <1>1, <1>3, <1>5, <1>6

(* Every loss has a cause: a missing mark, a missing alert and an alert    *)
(* without its threat score are each owed to a fault of their own list,    *)
(* and an unavailable ML service is on none of them.                       *)
THEOREM EveryLossHasACause == Spec => []LossHasCause
<1>1. StoryInv => LossHasCause
  <2> SUFFICES ASSUME StoryInv, NEW l \in stored, Quiet(l)
               PROVE  /\ ~doc[l].isProcessed =>
                            faults[l] \cap {"enqueue", "mongo", "crash", "stall"} # {}
                      /\ NeedsAlert(doc[l].threatScore) /\ alerts[l] = <<>> =>
                            faults[l] \cap {"enqueue", "mongo", "alert", "crash", "stall"} # {}
                      /\ Len(alerts[l]) # Len(risks[l]) =>
                            faults[l] \cap {"alert", "risk", "crash"} # {}
    BY DEF LossHasCause
  <2>1. ~doc[l].isProcessed => ~Unharmed(l)
    BY QuietIsTold DEF Told
  <2>2. NeedsAlert(doc[l].threatScore) /\ alerts[l] = <<>> =>
           ~Unharmed(l) \/ "alert" \in faults[l]
    BY QuietIsTold DEF Told, AlertTold
  <2>3. ASSUME faults[l] \cap {"alert", "risk", "crash"} = {}
        PROVE  Len(alerts[l]) = Len(risks[l])
    <3>1. /\ l \in Log /\ alerts[l] \in Seq(AlertRow) /\ risks[l] \in Seq(RiskRow)
      BY DEF StoryInv, RowInv, TypeOK
    <3>2. \A rows \in {alerts[l], risks[l]} :
             /\ \A i \in 1..Len(rows) : rows[i].no \in 1..deliveries[l]
             /\ \A i, j \in 1..Len(rows) : rows[i].no = rows[j].no => i = j
      BY <3>1 DEF StoryInv, RowInv, RowsAreDeliveries
    <3>3. \A n : ~BetweenRows(l, n)
      BY DEF Quiet, RunsOn, BetweenRows, Idle
    <3>4. \A n \in 1..deliveries[l] : Wrote(alerts[l], n) <=> Wrote(risks[l], n)
      BY <2>3, <3>1, <3>3 DEF StoryInv, Story, RowsArePaired
    <3>5. Len(alerts[l]) <= Len(risks[l])
      <4>1. \A i \in 1..Len(alerts[l]) : Wrote(risks[l], alerts[l][i].no)
        BY <3>2, <3>4 DEF Wrote
      <4> QED BY <3>1, <3>2, <4>1, SameNumbersSameLength
    <3>6. Len(risks[l]) <= Len(alerts[l])
      <4>1. \A i \in 1..Len(risks[l]) : Wrote(alerts[l], risks[l][i].no)
        BY <3>2, <3>4 DEF Wrote
      <4> QED BY <3>1, <3>2, <4>1, SameNumbersSameLength
    <3>7. Len(alerts[l]) \in Nat /\ Len(risks[l]) \in Nat
      BY <3>1
    <3> QED BY <3>5, <3>6, <3>7
  <2> QED BY <2>1, <2>2, <2>3 DEF Unharmed
<1> QED BY <1>1, StoryInvHolds, PTL
===============================================================================
