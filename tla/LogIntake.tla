------------------------------ MODULE LogIntake ------------------------------
(***************************************************************************)
(* A log on its way from its sender through the validators to an alert.    *)
(* Four senders write it: the Windows collector (normalizer.py), the form  *)
(* and the JSON upload of the logs page, and a client of the API.  The DTO *)
(* of the backend, the defaults of LogsService and the LogEntry of the ML  *)
(* service each have a view of their own of what a log is; the verdict is  *)
(* Scorer's, and logs.processor.ts makes the alert of it.  Queues, retries *)
(* and refused inserts are those of LogPipeline.                           *)
(***************************************************************************)
EXTENDS Integers, ScoreBands

CONSTANTS
    RawPort,   \* bound: numbers written as ports; -2 is no whole number, or less than 0
    Given,     \* bound: event types written by JSON senders
    Claimed,   \* bound: threat scores written by JSON senders, 0 for none
    Anomaly    \* bound: anomaly scores of the detector, in hundredths

NoPort == -1   \* a port left out

Action == {"ALLOW", "DENY", "DROP", "ALERT"}

Source == {"FIREWALL", "IDS", "ANTIVIRUS", "SERVER", "APPLICATION", "CLOUD", "NETWORK",
           "MANUAL", "WINDOWS_SECURITY"}

VARIABLES
    log,      \* the log as sent: text fields are "absent" when left out, "other" outside an enum
    stage,    \* how far it got
    threat,   \* threatScore of the row
    alert     \* the alert made of it

vars == <<log, stage, threat, alert>>

NoLog == [from |-> "nobody"]
NoAlert == [type |-> "none"]

Stage == {"none", "posted", "refused", "stored", "judged", "unjudged", "unanswered", "stumbled"}

IntakeTypeOK ==
    /\ log = NoLog \/ {"from", "eventType", "action", "severity", "source", "port",
                       "sourcePort", "country", "blank", "claimed"} = DOMAIN log
    /\ stage \in Stage
    /\ threat \in Score \cup Claimed   \* the DTO takes any number for a claimed score
    /\ alert = NoAlert \/ alert.severity \in Severity

-------------------------------------------------------------------------------
(* The Windows collector *)

(* The event ids the three queries ask for. *)
Queried ==
    [security |-> {4624, 4625, 4634, 4648, 4672, 4688, 4720, 4726, 4740},
     defender |-> {1116, 1117, 1000, 1001, 1006, 1007, 1008, 1119, 5007},
     system |-> {7045, 7036, 10016, 41}]

Means(eventType, action, severity, source) ==
    [eventType |-> eventType, action |-> action, severity |-> severity, source |-> source]

(* What normalize_event makes of them; the Defender ids it does not name   *)
(* become one kind.                                                        *)
Windows ==
    [id \in UNION {Queried[channel] : channel \in DOMAIN Queried} |->
        CASE id = 4624 -> Means("LOGIN_SUCCESS", "ALLOW", "LOW", "WINDOWS_SECURITY")
          [] id = 4625 -> Means("LOGIN_FAILURE", "DENY", "HIGH", "WINDOWS_SECURITY")
          [] id = 4634 -> Means("LOGOFF", "ALLOW", "LOW", "WINDOWS_SECURITY")
          [] id = 4648 -> Means("EXPLICIT_CREDENTIAL_LOGON", "ALERT", "MEDIUM", "WINDOWS_SECURITY")
          [] id = 4672 -> Means("PRIVILEGE_ASSIGNED", "ALLOW", "MEDIUM", "WINDOWS_SECURITY")
          [] id = 4688 -> Means("PROCESS_CREATION", "ALLOW", "LOW", "WINDOWS_SECURITY")
          [] id = 4720 -> Means("ACCOUNT_CREATED", "ALERT", "HIGH", "WINDOWS_SECURITY")
          [] id = 4726 -> Means("ACCOUNT_DELETED", "ALERT", "HIGH", "WINDOWS_SECURITY")
          [] id = 4740 -> Means("ACCOUNT_LOCKED", "DENY", "CRITICAL", "WINDOWS_SECURITY")
          [] id = 1116 -> Means("MALWARE_DETECTED", "ALERT", "CRITICAL", "ANTIVIRUS")
          [] id = 1117 -> Means("MALWARE_DETECTED", "DROP", "CRITICAL", "ANTIVIRUS")
          [] id = 5007 -> Means("CONFIG_CHANGE", "ALERT", "MEDIUM", "ANTIVIRUS")
          [] id = 7045 -> Means("SERVICE_INSTALLED", "ALERT", "HIGH", "WINDOWS_SECURITY")
          [] id = 10016 -> Means("PERMISSION_DENIED", "DENY", "MEDIUM", "WINDOWS_SECURITY")
          [] id = 7036 -> Means("SERVICE_STATUS_CHANGE", "ALLOW", "LOW", "SERVER")
          [] id = 41 -> Means("SYSTEM_SHUTDOWN", "ALERT", "MEDIUM", "SERVER")
          [] id \in {1000, 1001} -> Means("ANTIVIRUS_SCAN", "ALLOW", "LOW", "ANTIVIRUS")
          [] id \in {1006, 1007, 1008, 1119} ->
                Means("ANTIVIRUS_EVENT", "ALLOW", "LOW", "ANTIVIRUS")]

PortNumber == 0..65535

(* _sanitize_port *)
SanitizedPort(p) == IF p \in PortNumber THEN p ELSE 0

(* Logons come by desktop, network or at the machine. *)
LogonPort == [desktop |-> 3389, network |-> 445, local |-> 0]

(* The message has a text of its own, and no country is invented. *)
Normalized(id, logon, p) ==
    LET w == Windows[id] IN
    [from |-> "collector", eventType |-> w.eventType, action |-> w.action,
     severity |-> w.severity, source |-> w.source,
     port |-> IF id \in {4624, 4625} THEN LogonPort[logon] ELSE 0,
     sourcePort |-> SanitizedPort(p), country |-> "UNKNOWN", blank |-> FALSE, claimed |-> 0]

-------------------------------------------------------------------------------
(* The forms of the logs page *)

(* The eight choices of a form, written with _ for the blank. *)
FormEvents == {"Connection_Attempt", "Port_Scan", "Login_Failure", "Malware_Detected",
               "Policy_Violation", "Data_Transfer", "DNS_Query", "File_Access"}

(* Number(text) || 0; a port of a form is never left out. *)
NumberOr0(p) == IF p = NoPort THEN 0 ELSE p

(* The dialog lets nobody send a log without addresses and message. *)
FormLogs ==
    [from : {"form"}, eventType : FormEvents, action : Action, severity : Severity,
     source : Source, port : RawPort \cup {0},
     sourcePort : {0}, country : {"RISKY"}, blank : {FALSE}, claimed : {0}]

(* A log in JSON, as somebody writes it. *)
Written ==
    [from : {"client"}, eventType : Given \cup {"absent"}, action : {"ALERT", "absent", "other"},
     severity : {"CRITICAL", "absent", "other"}, source : {"IDS", "absent", "other"}, port : RawPort \cup {NoPort},
     sourcePort : RawPort \cup {NoPort}, country : {"RISKY"}, blank : BOOLEAN, claimed : Claimed]

Or(value, default) == IF value = "absent" THEN default ELSE value

(* cleanedForBackend: defaults for what is left out, none for what is wrong. *)
Cleaned(w) ==
    [w EXCEPT !.from = "upload", !.eventType = Or(@, "SECURITY_EVENT"), !.action = Or(@, "DENY"),
              !.severity = Or(@, "HIGH"), !.source = Or(@, "FIREWALL"), !.blank = FALSE,
              !.port = NumberOr0(@), !.sourcePort = NumberOr0(@)]

-------------------------------------------------------------------------------
(* The validators *)

(* CreateLogDto, which takes any number for a port. *)
Accepted(l) ==
    /\ l.action \in Action /\ l.severity \in Severity /\ l.source \in Source
    /\ l.eventType # "absent" /\ ~l.blank

(* LogsService defaults the ports; the schema has no range for them. *)
Row(l) == [l EXCEPT !.port = NumberOr0(@), !.sourcePort = NumberOr0(@)]

(* LogEntry: the ports are the fields that a stored log can fail with. *)
EntryValid(l) == {l.port, l.sourcePort} \subseteq PortNumber

-------------------------------------------------------------------------------
(* The verdict *)

(* The log as the scorer knows it. *)
Seen(l, a) ==
    [failure |-> l.eventType \in {"LOGIN_FAILURE", "Login_Failure"}, country |-> l.country,
     port |-> l.port, severity |-> l.severity, oddHour |-> FALSE,
     stopped |-> l.action \in {"ALERT", "DROP"}, risky |-> FALSE, anomaly |-> a, shap |-> 0]

Verdict(seen) == INSTANCE Scorer
    WITH log <- seen, Anomaly <- Anomaly, Port <- PortNumber, Threshold <- AlertThreshold

ThreatOf(l, a) == Verdict(Seen(l, a))!ThreatScore

(* mapEventTypeToAlertType *)
AlertTypeOf(eventType) ==
    CASE eventType \in {"LOGIN_FAILURE", "BRUTE_FORCE"} -> "BRUTE_FORCE"
      [] eventType \in {"MALWARE_DETECTED", "MALWARE"} -> "MALWARE"
      [] eventType \in {"PORT_SCAN", "DDOS", "CREDENTIAL_STUFFING", "INSIDER_THREAT",
                        "UNAUTHORIZED_ACCESS"} -> eventType
      [] OTHER -> "SUSPICIOUS_LOGIN"

-------------------------------------------------------------------------------
Init == log = NoLog /\ stage = "none" /\ threat = 0 /\ alert = NoAlert

Send(l) ==
    /\ stage = "none"
    /\ log' = l /\ stage' = "posted"
    /\ UNCHANGED <<threat, alert>>

Collect ==
    \E channel \in DOMAIN Queried : \E id \in Queried[channel], logon \in DOMAIN LogonPort :
    \E p \in RawPort \cup {NoPort} : Send(Normalized(id, logon, p))

SubmitForm == \E l \in FormLogs : Send(l)

Upload == \E w \in Written : Send(Cleaned(w))

PostDirectly == \E w \in Written : Send(w)

(* POST /logs or /logs/bulk; the scores a sender writes are stored. *)
Receive ==
    /\ stage = "posted"
    /\ \/ ~Accepted(log) /\ stage' = "refused" /\ UNCHANGED <<log, threat>>
       \/ Accepted(log) /\ stage' = "stored" /\ log' = Row(log) /\ threat' = log.claimed
    /\ UNCHANGED alert

(* The service answers, and a score from the threshold on becomes an alert *)
(* unless the insert fails.                                                *)
Judge(a) ==
    /\ stage = "stored" /\ EntryValid(log)
    /\ stage' = "judged"
    /\ threat' = ThreatOf(log, a)
    /\ \/ UNCHANGED alert
       \/ /\ NeedsAlert(threat')
          /\ alert' = [type |-> AlertTypeOf(log.eventType), severity |-> SeverityOf(threat')]
    /\ UNCHANGED log

(* It refuses the log (422), is down, or fails: default scores. *)
GoWithout ==
    /\ stage = "stored"
    /\ stage' \in {"unanswered"} \cup (IF EntryValid(log) THEN {} ELSE {"unjudged"})
    /\ threat' = 0
    /\ UNCHANGED <<log, alert>>

(* Reading or updating the row fails and the last update, which leaves the *)
(* threat score alone, succeeds.                                           *)
Stumble ==
    /\ stage = "stored"
    /\ stage' = "stumbled"
    /\ UNCHANGED <<log, threat, alert>>

(* The next log, once this one has come to its end. *)
TakeNext ==
    /\ stage \notin {"none", "posted", "stored"}
    /\ log' = NoLog /\ stage' = "none" /\ threat' = 0 /\ alert' = NoAlert

Next ==
    \/ TakeNext
    \/ Collect \/ SubmitForm \/ Upload \/ PostDirectly
    \/ Receive \/ GoWithout \/ Stumble
    \/ \E a \in Anomaly : Judge(a)

Spec == Init /\ [][Next]_vars

-------------------------------------------------------------------------------
(* Every log of the collector passes both validators, and one of the form  *)
(* passes the backend's; a service that is up refuses a log only for a     *)
(* port that the DTO lets through.                                         *)
SendersFitValidators ==
    /\ log.from = "collector" => stage \notin {"refused", "unjudged"}
    /\ log.from = "form" => stage # "refused"
    /\ stage = "unjudged" => ~(log.port \in PortNumber /\ log.sourcePort \in PortNumber)

(* What becomes of a Windows machine's events under the scorer's weights:  *)
(* a failed logon alerts as brute force, never as critical; of the others  *)
(* only the critical ones can alert, at the least grade, and only when the *)
(* detector is all but certain.                                            *)
WindowsAlerts ==
    log.from = "collector" /\ alert # NoAlert =>
        IF log.eventType = "LOGIN_FAILURE"
        THEN alert.type = "BRUTE_FORCE" /\ alert.severity # "CRITICAL"
        ELSE /\ log.severity = "CRITICAL" /\ alert.severity = "MEDIUM"
             /\ alert.type = IF log.source = "ANTIVIRUS" THEN "MALWARE" ELSE "SUSPICIOUS_LOGIN"
             /\ \A a \in Anomaly : a <= 97 => ~NeedsAlert(ThreatOf(log, a))

(* A score that the service did not compute stays on a processed row only  *)
(* when its sender wrote it and the write-back failed; it never alerts.    *)
ClaimsDoNotAlert ==
    /\ alert # NoAlert => stage = "judged" /\ NeedsAlert(threat)
    /\ stage \in {"unjudged", "unanswered", "stumbled"} /\ threat > 0 =>
          stage = "stumbled" /\ log.from \in {"upload", "client"}

===============================================================================
