------------------------------ MODULE ScoreBands ------------------------------
(***************************************************************************)
(* The bands a composite threat score (0..100) falls into in the backend:  *)
(* the queue worker (logs.processor.ts) decides by them whether a log      *)
(* becomes an alert and a threat-score row, and how it grades them.        *)
(***************************************************************************)
EXTENDS Naturals

Score == 0..100

Severity == {"LOW", "MEDIUM", "HIGH", "CRITICAL"}

ThreatCategory == {"SAFE", "LOW_RISK", "MEDIUM_RISK", "HIGH_RISK", "CRITICAL"}

-------------------------------------------------------------------------------
(* The worker's bands. *)

(* Scores from here on become an alert and a threat-score row. *)
AlertThreshold == 60

NeedsAlert(score) == score >= AlertThreshold

ThreatCategoryOf(score) ==
    CASE score >= 85 -> "CRITICAL"
      [] score >= 70 /\ score < 85 -> "HIGH_RISK"
      [] score >= 60 /\ score < 70 -> "MEDIUM_RISK"
      [] score >= 30 /\ score < 60 -> "LOW_RISK"
      [] OTHER -> "SAFE"

(* Mutant of SeverityOf: the alert is given the category's label. *)
SeverityOfCategory(score) == ThreatCategoryOf(score)

SeverityOf(score) ==
    CASE score >= 85 -> "CRITICAL"
      [] score >= 70 /\ score < 85 -> "HIGH"
      [] OTHER -> "MEDIUM"

===============================================================================
