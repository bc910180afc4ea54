------------------------------ MODULE OverviewPage ------------------------------
(***************************************************************************)
(* The dashboard, overview/page.tsx: six panels, each with a request of    *)
(* its own through hooks/use-api.ts, each answered by one aggregate of     *)
(* dashboard.service.ts, and most of them synchronised on the screen with  *)
(* the copies of uploaded logs that lib/telemetry-store.ts keeps.  An      *)
(* answer is the set of logs it is made of, each aggregate with its match  *)
(* and its limit; a panel is described by how often it shows each log.     *)
(* Before its first answer it shows mock data, of which no log is part.    *)
(* Alerts, which share the list of activities, are not looked at: they may *)
(* take any of its places.                                                 *)
(***************************************************************************)
EXTENDS Naturals, Sequences, FiniteSets, SequencesExt

CONSTANTS
    Log, Denied,     \* Denied \subseteq Log: those whose action is DENY, DROP or ALERT
    LastDays,        \* LastDays \subseteq Log: those of the 30 days of the trend
    TypeOf, SourceOf, TimeOf,   \* the eventType, sourceIp and timestamp of a log
    TypeLimit,       \* types of attacks a query groups at most, 15
    SourceLimit,     \* addresses a query groups at most, 20
    MergedLimit,     \* addresses that stay when copies were merged in, 10
    ActivityLimit,   \* entries in the list of activities, 20
    CopyLimit,       \* copies in the list of activities, 10
    Panel,           \* the panels looked at, of AllPanels
    MaxAsked         \* bound: requests of a panel under way at a time

AllPanels == {"stats", "trend", "severity", "frequency", "sources", "activity"}

VARIABLES
    stored,    \* the logs of the backend
    copies,    \* the logs of localStorage
    data,      \* data[p]: the logs the answer shown by panel p was made of
    answered,  \* the panels that have had an answer
    asked,     \* asked[p]: the requests of p under way, "sent" or answered with logs
    settled    \* history: since all panels were asked at rest, nothing failed or was stored

vars == <<stored, copies, data, answered, asked, settled>>

Sent == [phase |-> "sent", logs |-> {}]

OverviewTypeOK ==
    /\ stored \subseteq Log /\ copies \subseteq Log
    /\ data \in [Panel -> SUBSET Log] /\ answered \subseteq Panel
    /\ \A p \in Panel : /\ asked[p] \in Seq([phase : {"sent", "done"}, logs : SUBSET Log])
                        /\ Len(asked[p]) <= MaxAsked
    /\ settled \in BOOLEAN

(* Every panel asks when the page is mounted. *)
Init ==
    /\ stored \in SUBSET Log /\ copies \in SUBSET stored
    /\ data = [p \in Panel |-> {}] /\ answered = {}
    /\ asked = [p \in Panel |-> <<Sent>>]
    /\ settled = TRUE

AtRest == \A p \in Panel : asked[p] = <<>>

-------------------------------------------------------------------------------
(* What a query answers *)

(* The groups a $limit or a slice leaves of those of two collections, the   *)
(* largest first; which of equally large ones is not said.                  *)
Leading(of, logs, more, limit) ==
    LET Group == {of[l] : l \in logs \cup more}
        size(g) == Cardinality({l \in logs : of[l] = g}) + Cardinality({l \in more : of[l] = g})
    IN  {top \in SUBSET Group :
            /\ Cardinality(top) <= limit
            /\ top # Group => Cardinality(top) = limit
            /\ \A g \in top, h \in Group \ top : size(g) >= size(h)}

Within(of, groups, logs) == {l \in logs : of[l] \in groups}

(* As many of the newest logs as alerts leave places. *)
Newest(logs, limit) ==
    {new \in SUBSET logs :
        /\ Cardinality(new) <= limit
        /\ \A l \in new, k \in logs \ new : TimeOf[l] >= TimeOf[k]}

Attacks == stored \cap Denied

Answers(p) ==
    CASE p \in {"stats", "severity"} -> {stored}
      [] p = "trend" -> {stored \cap LastDays}
      [] p = "frequency" ->
            {Within(TypeOf, top, Attacks) : top \in Leading(TypeOf, Attacks, {}, TypeLimit)}
      [] p = "sources" ->
            {Within(SourceOf, top, Attacks) : top \in Leading(SourceOf, Attacks, {}, SourceLimit)}
      [] p = "activity" -> Newest(stored, ActivityLimit)

-------------------------------------------------------------------------------
(* The button is disabled for 700 ms, not until the answers are there. *)
HandleRefreshAll ==
    /\ \A p \in Panel : Len(asked[p]) < MaxAsked
    /\ asked' = [p \in Panel |-> Append(asked[p], Sent)]
    /\ settled' = (settled \/ AtRest)
    /\ UNCHANGED <<stored, copies, data, answered>>

(* A dashboard query reads the logs there are. *)
Serve(p, i) ==
    /\ asked[p][i].phase = "sent"
    /\ \E logs \in Answers(p) :
          asked' = [asked EXCEPT ![p][i] = [phase |-> "done", logs |-> logs]]
    /\ UNCHANGED <<stored, copies, data, answered, settled>>

(* fetchData takes the answers in the order they come. *)
Land(p, i) ==
    /\ asked[p][i].phase = "done"
    /\ data' = [data EXCEPT ![p] = asked[p][i].logs] /\ answered' = answered \cup {p}
    /\ asked' = [asked EXCEPT ![p] = RemoveAt(@, i)]
    /\ UNCHANGED <<stored, copies, settled>>

(* There is no fallback: what was shown stays. *)
Fail(p, i) ==
    /\ asked' = [asked EXCEPT ![p] = RemoveAt(@, i)]
    /\ settled' = FALSE
    /\ UNCHANGED <<stored, copies, data, answered>>

(* Another tab uploads a log: the backend and the storage get it one after  *)
(* the other, and the page hears of the storage only.                       *)
Upload(l) ==
    /\ l \notin stored
    /\ stored' = stored \cup {l}
    /\ settled' = FALSE
    /\ UNCHANGED <<copies, data, answered, asked>>

Copy(l) ==
    /\ l \in stored \ copies
    /\ copies' = copies \cup {l}
    /\ UNCHANGED <<stored, data, answered, asked, settled>>

ClearUploadedLogs ==
    /\ copies # {}
    /\ copies' = {}
    /\ UNCHANGED <<stored, data, answered, asked, settled>>

Next ==
    \/ HandleRefreshAll \/ ClearUploadedLogs
    \/ \E p \in Panel : \E i \in 1..Len(asked[p]) : Serve(p, i) \/ Land(p, i) \/ Fail(p, i)
    \/ \E l \in Log : Upload(l) \/ Copy(l)

Spec == Init /\ [][Next]_vars

-------------------------------------------------------------------------------
(* What the panels show *)

Synchronised(p) == p \in {"stats", "severity", "sources", "activity"}

(* Mutant: the copies are added to the numbers but not to the sources. *)
TakenNotBySources(p) == IF Synchronised(p) /\ p # "sources" THEN copies ELSE {}

Taken(p) == IF Synchronised(p) THEN copies ELSE {}

(* What a panel may show of its answer and of the copies.  The sources of   *)
(* both are merged and cut, if there are copies; of the activities some     *)
(* copies come first, whichever these are, and what is too much is cut.     *)
Views(p) ==
    CASE p = "sources" /\ Taken(p) # {} ->
            {[answer |-> Within(SourceOf, top, data[p]),
              copies |-> Within(SourceOf, top, Taken(p))] :
                top \in Leading(SourceOf, data[p], Taken(p), MergedLimit)}
      [] p = "activity" ->
            {v \in [answer : Newest(data[p], ActivityLimit), copies : SUBSET Taken(p)] :
                /\ Cardinality(v.copies) <= CopyLimit
                /\ v.copies # Taken(p) => Cardinality(v.copies) = CopyLimit
                /\ Cardinality(v.answer) + Cardinality(v.copies) <= ActivityLimit}
      [] OTHER -> {[answer |-> data[p], copies |-> Taken(p)]}

Once(l, logs) == IF l \in logs THEN 1 ELSE 0

Shown(v, l) == Once(l, v.answer) + Once(l, v.copies)

(* StatusBadge says LIVE TELEMETRY and no answer is awaited. *)
Live == AtRest /\ answered = Panel

(* The logs that nothing cuts off: all groups of the attacks counted in the *)
(* numbers have a place.                                                    *)
Groups(of, logs) == Cardinality({of[l] : l \in logs})

Whole(p) ==
    CASE p \in {"stats", "severity"} -> Log
      [] p = "trend" -> LastDays
      [] p = "frequency" ->
            IF Groups(TypeOf, data["stats"] \cap Denied) <= TypeLimit THEN Denied ELSE {}
      [] p = "sources" ->
            IF Groups(SourceOf, (data["stats"] \cap Denied) \cup copies) <= MergedLimit
            THEN Denied ELSE {}
      [] p = "activity" -> {}

(* Six requests without a common snapshot, answers that overtake each       *)
(* other, a storage that grows in between and failures that leave old       *)
(* numbers under a live badge: on a live page at rest, whatever went before *)
(* a refresh at rest after which nothing failed or was stored, no panel     *)
(* shows a log oftener than the numbers count it, and what it is to show    *)
(* whole it shows as often: of all logs, those of the 30 days, or the       *)
(* attacks if all their types or addresses have a place.                    *)
PanelsAgree ==
    Live /\ settled =>
        \A p \in Panel : \A v \in Views(p), l \in Log :
            /\ Shown(v, l) <= Once(l, data["stats"]) + Once(l, copies)
            /\ l \in Whole(p) =>
                  Shown(v, l) = Once(l, data["stats"])
                                + (IF Synchronised(p) THEN Once(l, copies) ELSE 0)

===============================================================================
