------------------------------- MODULE LogTriage -------------------------------
(***************************************************************************)
(* What the ingest pipeline promises the readers of its stores, whatever   *)
(* crashes, times out or is delivered twice: a log is received once, its   *)
(* mark as processed is final, and rows about it are only ever added, only *)
(* once it is marked, and only so often.                                   *)
(***************************************************************************)
EXTENDS Naturals

CONSTANTS
    Log,
    MaxRows      \* the rows of one kind that redelivery can give a single log

VARIABLES
    stage,       \* stage[l]: how far log l has come
    alertCount,  \* alertCount[l]: Alert rows raised for l
    riskCount    \* riskCount[l]: ThreatScore rows recorded for l

triageVars == <<stage, alertCount, riskCount>>

Stage == {"unseen", "received", "processed"}

Init ==
    /\ stage = [l \in Log |-> "unseen"]
    /\ alertCount = [l \in Log |-> 0]
    /\ riskCount = [l \in Log |-> 0]

(* A batch arrives; some of its logs may come marked already. *)
Receive(S, marked) ==
    /\ S # {} /\ marked \subseteq S
    /\ \A l \in S : stage[l] = "unseen"
    /\ stage' = [l \in Log |-> IF l \in marked THEN "processed"
                               ELSE IF l \in S THEN "received" ELSE stage[l]]
    /\ UNCHANGED <<alertCount, riskCount>>

Mark(l) ==
    /\ stage[l] = "received"
    /\ stage' = [stage EXCEPT ![l] = "processed"]
    /\ UNCHANGED <<alertCount, riskCount>>

RaiseAlert(l) ==
    /\ stage[l] = "processed"
    /\ alertCount[l] < MaxRows
    /\ alertCount' = [alertCount EXCEPT ![l] = @ + 1]
    /\ UNCHANGED <<stage, riskCount>>

RecordRisk(l) ==
    /\ stage[l] = "processed"
    /\ riskCount[l] < MaxRows
    /\ riskCount' = [riskCount EXCEPT ![l] = @ + 1]
    /\ UNCHANGED <<stage, alertCount>>

Next ==
    \/ \E S \in SUBSET Log : \E marked \in SUBSET S : Receive(S, marked)
    \/ \E l \in Log : Mark(l) \/ RaiseAlert(l) \/ RecordRisk(l)

Spec == Init /\ [][Next]_triageVars
===============================================================================
