-------------------------------- MODULE Scorer --------------------------------
(***************************************************************************)
(* One log on its way through POST /api/v1/detect of the ML service: the   *)
(* score (threat_scorer.py), the reasons given for it (explainer.py) and   *)
(* the verdict (main.py).  The service keeps no state between logs; the    *)
(* behaviours here change one field of the log at a time.  A field is      *)
(* known by what the three modules tell apart; the anomaly score is in     *)
(* hundredths, and the raw score too.                                      *)
(***************************************************************************)
EXTENDS Integers, FiniteSets, ScoreBands

CONSTANTS
    Anomaly,   \* bound: anomaly scores of the detector, in hundredths
    Port,      \* bound: destination ports
    Threshold  \* THREAT_THRESHOLD (60 unless the environment says otherwise)

Domain ==
    [failure  |-> BOOLEAN,                       \* eventType says FAILURE
     country  |-> {"RISKY", "UNKNOWN", "OTHER"},
     port     |-> Port,
     severity |-> Severity \cup {"OTHER"},
     oddHour  |-> BOOLEAN,                       \* before six or after 22 o'clock
     stopped  |-> BOOLEAN,                       \* action is ALERT, BLOCK or DROP
     risky    |-> BOOLEAN,                       \* protocol is SSH, FTP or SMTP
     anomaly  |-> Anomaly,
     shap     |-> {0, 3}]   \* of the five largest SHAP values, those worth naming

VARIABLE log

ScorerTypeOK ==
    /\ DOMAIN log = DOMAIN Domain
    /\ \A f \in DOMAIN Domain : log[f] \in Domain[f]

-------------------------------------------------------------------------------
(* threat_scorer.py *)

KnownPorts ==
    [p \in {22, 23, 25, 53, 80, 443, 3306, 3389, 5432, 8080, 8443} |->
        CASE p = 22 -> 70 [] p = 23 -> 90 [] p = 25 -> 50 [] p \in {53, 8080} -> 30
          [] p \in {80, 8443} -> 20 [] p = 443 -> 10 [] p \in {3306, 5432} -> 60
          [] p = 3389 -> 80]

(* _port_risk_factor, to whole hundredths; high ports weigh less and less. *)
PortRisk(port) ==
    IF port \in DOMAIN KnownPorts THEN KnownPorts[port]
    ELSE IF port <= 1024 THEN 40
    ELSE LET falling == 50 - (100 * (port - 1024)) \div 65535
         IN  IF falling > 10 THEN falling ELSE 10

CountryRisk(c) == CASE c = "RISKY" -> 100 [] c = "UNKNOWN" -> 30 [] OTHER -> 10

SeverityRisk(s) ==
    CASE s = "LOW" -> 10 [] s = "HIGH" -> 70 [] s = "CRITICAL" -> 100 [] OTHER -> 30

Raw ==
    35 * log.anomaly + (IF log.failure THEN 2000 ELSE 0)
      + 15 * (CountryRisk(log.country) + PortRisk(log.port) + SeverityRisk(log.severity))

(* round() of Python: a half goes to the even neighbour. *)
Rounded(r) ==
    LET whole == r \div 100  part == r % 100
    IN  IF part > 50 \/ (part = 50 /\ whole % 2 = 1) THEN whole + 1 ELSE whole

ThreatScore == IF Rounded(Raw) > 100 THEN 100 ELSE Rounded(Raw)

(* _categorise: other bands than the worker's, which looks only at the score. *)
Categorised(score) ==
    CASE score <= 20 -> "SAFE"
      [] score > 20 /\ score <= 40 -> "LOW_RISK"
      [] score > 40 /\ score <= 60 -> "MEDIUM_RISK"
      [] score > 60 /\ score <= 80 -> "HIGH_RISK"
      [] OTHER -> "CRITICAL"

(* main.py *)
IsAnomaly == ThreatScore >= Threshold

-------------------------------------------------------------------------------
(* explainer.py *)

Cause == {"country", "failure", "hour", "port", "action", "severity", "anomaly", "protocol"}

Holds(c) ==
    CASE c = "country"  -> log.country = "RISKY"
      [] c = "failure"  -> log.failure
      [] c = "hour"     -> log.oddHour
      [] c = "port"     -> PortRisk(log.port) >= 70
      [] c = "action"   -> log.stopped
      [] c = "severity" -> log.severity \in {"HIGH", "CRITICAL"}
      [] c = "anomaly"  -> log.anomaly >= 70
      [] c = "protocol" -> log.risky

(* Mutant: a failed login is left out of the reasons. *)
HeuristicsButFailure == {c \in Cause \ {"failure"} : Holds(c)}

Heuristics == {c \in Cause : Holds(c)}

(* Without one of these the only reason is the score itself. *)
NamedReasons ==
    IF log.shap > 0 THEN log.shap
    ELSE IF Cardinality(Heuristics) > 5 THEN 5 ELSE Cardinality(Heuristics)

-------------------------------------------------------------------------------
Init ==
    \E a \in Anomaly, p \in Port :
        log = [failure |-> FALSE, country |-> "OTHER", port |-> p, severity |-> "LOW",
               oddHour |-> FALSE, stopped |-> FALSE, risky |-> FALSE, anomaly |-> a, shap |-> 0]

Change(f, v) == v # log[f] /\ log' = [log EXCEPT ![f] = v]

Next == \E f \in DOMAIN Domain : \E v \in Domain[f] : Change(f, v)

Spec == Init /\ [][Next]_log

-------------------------------------------------------------------------------
(* The log the service flags is the one the worker raises an alert for     *)
(* (logs.processor.ts goes by the score and a threshold of its own), and   *)
(* the reasons it hands on with it name a cause: no mix of weights reaches *)
(* the threshold on contributions the explainer has no words for.          *)
AlertHasCause ==
    /\ IsAnomaly <=> NeedsAlert(ThreatScore)
    /\ NeedsAlert(ThreatScore) => NamedReasons \in 1..5

===============================================================================
