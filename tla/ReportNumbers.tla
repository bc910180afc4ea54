------------------------------ MODULE ReportNumbers ------------------------------
(***************************************************************************)
(* The numbers of a report: aggregateReportData of reports.service.ts.  The *)
(* alerts are counted by many queries sent together, the logs by one query *)
(* after the other, while the log worker and the analysts go on changing   *)
(* what is counted.  Requests do not share anything, so one is followed.   *)
(* The latest alerts, the blocked addresses, the mean score and the fixed  *)
(* texts of a report are left out.                                         *)
(***************************************************************************)
EXTENDS Integers, FiniteSets

CONSTANTS
    Alert,      \* bound: the alerts there may be
    Severity, Status, Type,    \* bound: the values that alerts take
    LogKind,    \* bound: the logs that differ in [address, score, high, port]
    MaxLogs,    \* bound: logs with a timestamp in the range
    TopIps, TopPorts, PdfIps    \* 8 and 6, the rows of the lists; 5, those that a PDF prints

Severities == {"CRITICAL", "HIGH", "MEDIUM", "LOW"}
Statuses == {"NEW", "INVESTIGATING", "RESOLVED", "FALSE_POSITIVE"}
Guessing == {"BRUTE_FORCE", "CREDENTIAL_STUFFING"}
AdminPorts == {22, 3389, 445}
NoPort == 0

Address == {k.address : k \in LogKind}
Port == {k.port : k \in LogKind} \ {NoPort}

VARIABLES
    alerts,     \* alerts[a]: None, or its severity, status and whether it is in the range
    logs,       \* logs[k]: how many of the kind are in the range
    request,    \* idle, counting (alerts), types, then logs, anomalous, ips, ports, done
    ahead,      \* the range of the report ends in the future
    left,       \* counts of alerts not answered yet
    number,     \* number[n]: the numbers of the report
    top,        \* its lists: the types of alerts, the addresses and ports of logs
    disturbed   \* history: what was changed or failed while the numbers were gathered

vars == <<alerts, logs, request, ahead, left, number, top, disturbed>>

None == [severity |-> "none"]
Counts == {"total"} \cup Severities \cup Statuses
Names == Counts \cup {"totalLogs", "anomalousLogs"}

(* The sum of f over S: the number of pairs of an x in S and one of 1..f[x]. *)
SumOver(f, S) == Cardinality(UNION {{x} \X (1..f[x]) : x \in S})

Total(kinds) == SumOver(logs, kinds)

(* What the lists are made of: the logs with an address, their mean score  *)
(* in tenths.                                                              *)
With(a) == {k \in LogKind : k.address = a}
At(p) == {k \in LogKind : k.port = p}
Tenths(a) ==
    LET n == Total(With(a))
    IN (20 * SumOver([k \in LogKind |-> logs[k] * k.score], With(a)) + n) \div (2 * n)
Row == [ip : Address, tenths : 0..1000]

NumbersTypeOK ==
    /\ alerts \in [Alert -> {None} \cup
                     [severity : Severity, status : Status, type : Type, in : BOOLEAN]]
    /\ logs \in [LogKind -> 0..MaxLogs] /\ Total(LogKind) <= MaxLogs
    /\ request \in {"idle", "counting", "types", "logs", "anomalous", "ips", "ports", "done"}
    /\ ahead \in BOOLEAN
    /\ left \subseteq Counts
    /\ number \in [Names -> Nat]
    /\ top \in [types : [Type -> Nat], ips : SUBSET Row, ports : SUBSET Port]
    /\ disturbed \subseteq {"raised", "triaged", "logged", "mongo"}

Zero == [n \in Names |-> 0]
Empty == [types |-> [t \in Type |-> 0], ips |-> {}, ports |-> {}]

Init ==
    /\ alerts = [a \in Alert |-> None]
    /\ logs = [k \in LogKind |-> 0]
    /\ request = "idle" /\ ahead = FALSE /\ left = {}
    /\ number = Zero /\ top = Empty
    /\ disturbed = {}

-------------------------------------------------------------------------------
(* What goes on meanwhile.  An alert is created now: in the range before   *)
(* the request, and after it only if the range ends in the future.  The    *)
(* timestamp of a log is that of its device and may lie in any range.      *)

Note(what) ==
    disturbed' = IF request \in {"idle", "done"} THEN disturbed ELSE disturbed \cup {what}

Raise(a, s, t) ==
    /\ request # "done"
    /\ alerts[a] = None
    /\ alerts' = [alerts EXCEPT ![a] =
                    [severity |-> s, status |-> "NEW", type |-> t,
                     in |-> request = "idle" \/ ahead]]
    /\ Note("raised")
    /\ UNCHANGED <<logs, request, ahead, left, number, top>>

Triage(a, to) ==
    /\ request # "done"
    /\ alerts[a] # None
    /\ alerts' = [alerts EXCEPT ![a].status = to]
    /\ Note("triaged")
    /\ UNCHANGED <<logs, request, ahead, left, number, top>>

Log(k) ==
    /\ request # "done"
    /\ Total(LogKind) < MaxLogs
    /\ logs' = [logs EXCEPT ![k] = @ + 1]
    /\ Note("logged")
    /\ UNCHANGED <<alerts, request, ahead, left, number, top>>

-------------------------------------------------------------------------------
Ask ==
    /\ request = "idle"
    /\ request' = "counting"
    /\ ahead' \in BOOLEAN
    /\ left' = Counts
    /\ UNCHANGED <<alerts, logs, number, top, disturbed>>

(* Mutant: the counts have no upper end. *)
MatchesAnyTime(n) ==
    {a \in Alert : alerts[a] # None /\
        n \in {"total", alerts[a].severity, alerts[a].status}}

Matches(n) ==
    {a \in Alert : alerts[a] # None /\ alerts[a].in /\
        n \in {"total", alerts[a].severity, alerts[a].status}}

Count(n) ==
    /\ request = "counting"
    /\ n \in left
    /\ number' = [number EXCEPT ![n] = Cardinality(Matches(n))]
    /\ left' = left \ {n}
    /\ request' = IF left' = {} THEN "types" ELSE request
    /\ UNCHANGED <<alerts, logs, ahead, top, disturbed>>

(* groupBy: at most eight types, which are all there are. *)
GroupTypes ==
    /\ request = "types"
    /\ top' = [top EXCEPT !.types =
                 [t \in Type |-> Cardinality({a \in Matches("total") : alerts[a].type = t})]]
    /\ request' = "logs"
    /\ UNCHANGED <<alerts, logs, ahead, left, number, disturbed>>

(* A failed count fails the report. *)
CountFails ==
    /\ request \in {"counting", "types"}
    /\ request' = "idle"
    /\ left' = {}
    /\ number' = Zero
    /\ disturbed' = {}
    /\ ahead' = FALSE
    /\ alerts' = [a \in Alert |-> IF alerts[a] = None THEN None ELSE [alerts[a] EXCEPT !.in = TRUE]]
    /\ UNCHANGED <<logs, top>>

Anomalous == {k \in LogKind : k.score >= 60 \/ k.high}

(* The n keys with the greatest counts, as count has them; of equals, any. *)
Tops(n, count) ==
    {chosen \in SUBSET {x \in DOMAIN count : count[x] > 0} :
        /\ \/ Cardinality(chosen) = n
           \/ Cardinality(chosen) < n /\ \A x \in DOMAIN count \ chosen : count[x] = 0
        /\ \A x \in chosen, y \in DOMAIN count \ chosen : count[x] >= count[y]}

CountLogs ==
    \/ /\ request = "logs"
       /\ number' = [number EXCEPT !["totalLogs"] = Total(LogKind)]
       /\ request' = "anomalous"
       /\ UNCHANGED top
    \/ /\ request = "anomalous"
       /\ number' = [number EXCEPT !["anomalousLogs"] = Total(Anomalous)]
       /\ request' = "ips"
       /\ UNCHANGED top

ListLogs ==
    /\ UNCHANGED number
    /\ \/ /\ request = "ips"
          /\ \E ips \in Tops(TopIps, [a \in Address |-> Total(With(a))]) :
                top' = [top EXCEPT !.ips = {[ip |-> a, tenths |-> Tenths(a)] : a \in ips}]
          /\ request' = "ports"
       \/ /\ request = "ports"
          /\ \E ports \in Tops(TopPorts, [p \in Port |-> Total(At(p))]) :
                top' = [top EXCEPT !.ports = ports]
          /\ request' = "done"

AskLogs ==
    /\ CountLogs \/ ListLogs
    /\ UNCHANGED <<alerts, logs, ahead, left, disturbed>>

(* A failed query to MongoDB leaves its number or list and the later ones *)
(* as they were.                                                           *)
LogsFail ==
    /\ request \in {"logs", "anomalous", "ips", "ports"}
    /\ request' = "done"
    /\ disturbed' = disturbed \cup {"mongo"}
    /\ UNCHANGED <<alerts, logs, ahead, left, number, top>>

Posture ==
    IF number["CRITICAL"] >= 10 \/ number["anomalousLogs"] > 500 THEN "CRITICAL"
    ELSE IF number["CRITICAL"] >= 3 \/ number["HIGH"] >= 15 \/ number["anomalousLogs"] > 150
         THEN "ELEVATED"
    ELSE IF number["CRITICAL"] > 0 \/ number["HIGH"] > 0 \/ number["total"] > 20 THEN "MODERATE"
    ELSE "NORMAL"

(* Math.round; a report without alerts divides by one. *)
Percentage(severity) ==
    LET of == IF number["total"] = 0 THEN 1 ELSE number["total"]
    IN (200 * number[severity] + of) \div (2 * of)

activeAlerts == number["NEW"] + number["INVESTIGATING"]

Recommendations ==
    {"REC-004"}
    \cup {r \in {"REC-001"} : number["CRITICAL"] > 0 \/ \E row \in top.ips : row.tenths >= 800}
    \cup {r \in {"REC-002"} : \E t \in Guessing \cap Type : top.types[t] > 0}
    \cup {r \in {"REC-003"} : top.ports \cap AdminPorts # {}}

(* What the files print: a CSV all but the types, a PDF the first of the   *)
(* addresses and neither the anomalous logs nor the ports.                 *)
Csv ==
    [numbers |-> Severities \cup {"total", "RESOLVED", "totalLogs", "anomalousLogs"},
     ips |-> top.ips, ports |-> top.ports]

PdfRows == {rows \in SUBSET top.ips :
               Cardinality(rows) = IF Cardinality(top.ips) > PdfIps THEN PdfIps
                                   ELSE Cardinality(top.ips)}
Pdf(rows) == [numbers |-> Severities \cup {"totalLogs"}, ips |-> rows, ports |-> {}]

(* A file gives the reason of a recommendation or a posture it prints. *)
GivesReason(file, r) ==
    CASE r = "REC-001" -> \/ "CRITICAL" \in file.numbers /\ number["CRITICAL"] > 0
                          \/ \E row \in file.ips : row.tenths >= 800
      [] r = "REC-003" -> file.ports \cap AdminPorts # {}
      [] OTHER -> TRUE

Next ==
    \/ \E a \in Alert, s \in Severity, t \in Type : Raise(a, s, t)
    \/ \E a \in Alert, to \in Status : Triage(a, to)
    \/ \E k \in LogKind : Log(k)
    \/ Ask
    \/ \E n \in Counts : Count(n)
    \/ GroupTypes \/ CountFails \/ AskLogs \/ LogsFail

Spec == Init /\ [][Next]_vars

-------------------------------------------------------------------------------
(* The numbers of a finished report fit together: the severities and the   *)
(* types add up to the total (whatever is raised meanwhile, unless the     *)
(* range ends in the future), the statuses too unless an analyst changed   *)
(* one, and the anomalous logs are among the logs unless some came in      *)
(* between.                                                                *)
NumbersFit ==
    LET Late == ahead /\ "raised" \in disturbed IN
    /\ \/ Late
       \/ /\ SumOver(number, Severities) = number["total"]
          /\ SumOver(top.types, Type) = number["total"]
          /\ \A s \in Severities : Percentage(s) <= 100
          /\ \/ "triaged" \in disturbed
             \/ activeAlerts + number["RESOLVED"] + number["FALSE_POSITIVE"] = number["total"]
    /\ "logged" \in disturbed \/ number["anomalousLogs"] <= number["totalLogs"]

(* A report advises what its data call for: a posture of NORMAL means that *)
(* no critical or high alert of the range was there, an attack on          *)
(* passwords brings its advice and nothing else does, a report of logs     *)
(* that no log came into has addresses listed, a PDF no more of them than  *)
(* logs, and a CSV shows what its advice rests on.                         *)
AdviceFits ==
    LET Late == ahead /\ "raised" \in disturbed
        There == {alerts[a] : a \in Matches("total")}
    IN
    /\ \/ Late
       \/ /\ Posture = "NORMAL" => \A a \in There : a.severity \notin {"CRITICAL", "HIGH"}
          /\ (\E a \in There : a.severity = "CRITICAL") => "REC-001" \in Recommendations
          /\ (\E a \in There : a.type \in Guessing) <=> "REC-002" \in Recommendations
    /\ \/ "mongo" \in disturbed \/ "logged" \in disturbed
       \/ (number["totalLogs"] > 0) <=> (top.ips # {})
    /\ "logged" \in disturbed \/
          \A rows \in PdfRows : Cardinality(Pdf(rows).ips) <= number["totalLogs"]
    /\ \A r \in Recommendations : GivesReason(Csv, r)

ReportAddsUp == request = "done" => NumbersFit /\ AdviceFits

===============================================================================
