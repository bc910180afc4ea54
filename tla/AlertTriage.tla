------------------------------ MODULE AlertTriage ------------------------------
(***************************************************************************)
(* Alerts: the rows that alerts.service.ts updates and the page on which   *)
(* analysts work through them (frontend app/(dashboard)/alerts/page.tsx).  *)
(* The page changes its list before the backend has agreed and keeps a     *)
(* copy of list and counters to go back to; while a request is under way   *)
(* the analyst may act again or synchronise.  Filters, tabs and expanded   *)
(* rows change at will and touch nothing else, so they are no state: a row *)
(* is within reach when some choice of them shows it.  Title, description  *)
(* and assignee of an alert are columns nothing here depends on.           *)
(***************************************************************************)
EXTENDS Integers, FiniteSets

CONSTANTS
    MaxAlerts,   \* bound: alerts raised
    Limit,       \* alerts the page asks for (100 in the code)
    MaxPending,  \* bound: actions of the page under way at a time
    MaxCount,    \* bound: value up to which a counter is pushed
    DemoList,    \* the alerts of mock-data.ts, with their status
    SeverityOf,  \* the severity of an alert of the table or of mock-data.ts
    Target       \* bound: the statuses set, on the page by its three buttons

Status == {"NEW", "INVESTIGATING", "RESOLVED", "FALSE_POSITIVE"}
Closed == {"RESOLVED", "FALSE_POSITIVE"}
Severity == {"CRITICAL", "HIGH", "MEDIUM", "LOW"}
Id == 1..MaxAlerts
Demo == DOMAIN DemoList
Slot == 1..MaxPending

VARIABLES
    raised,      \* alerts in the table: 1..raised, in the order of createdAt
    status,      \* status[a]
    resolved,    \* the alerts whose resolvedAt is set
    page,        \* the state of the page: list, counters, demo flag
    answer,      \* the request of fetchAlerts: none, asked, or the list it was sent
    pending,     \* pending[k]: an action sent to the backend, with its snapshot
    served,      \* history: the list last taken over from the backend
    mixed        \* history: something happened on the page during an action

vars == <<raised, status, resolved, page, answer, pending, served, mixed>>

rows == <<raised, status, resolved>>

Lists(S) == UNION {[T -> Status] : T \in SUBSET S}
Free == [phase |-> "free"]
Counters == [Status -> Nat]

TypeOK ==
    /\ raised \in 0..MaxAlerts
    /\ status \in [1..raised -> Status]
    /\ resolved \subseteq 1..raised
    /\ page \in [list : Lists(Id) \cup Lists(Demo), counts : Counters, demo : BOOLEAN]
    /\ answer \in {Free} \cup [phase : {"asked"}] \cup [phase : {"sent"}, list : Lists(Id)]
    /\ pending \in [Slot -> {Free} \cup
          [phase : {"sent"}, id : Id, to : Target, list : Lists(Id), counts : Counters]]
    /\ served \in Lists(Id)
    /\ mixed \in BOOLEAN

Tally(list) == [s \in Status |-> Cardinality({a \in DOMAIN list : list[a] = s})]

InFlight == \E k \in Slot : pending[k] # Free

Init ==
    /\ raised = 0
    /\ status = [a \in {} |-> "NEW"]
    /\ resolved = {}
    /\ page = [list |-> DemoList, counts |-> Tally(DemoList), demo |-> TRUE]
    /\ answer = [phase |-> "asked"]
    /\ pending = [k \in Slot |-> Free]
    /\ served = [a \in {} |-> "NEW"]
    /\ mixed = FALSE

-------------------------------------------------------------------------------
(* The backend *)

(* The log worker inserts an alert. *)
Raise ==
    /\ raised < MaxAlerts
    /\ raised' = raised + 1
    /\ status' = [a \in 1..raised' |-> IF a = raised' THEN "NEW" ELSE status[a]]
    /\ UNCHANGED <<resolved, page, answer, pending, served, mixed>>

(* PATCH /alerts/:id by a client of the API: the row must exist, every     *)
(* status may follow every other, and closing sets resolvedAt.             *)
Update(a, s) ==
    /\ a \in 1..raised
    /\ status' = [status EXCEPT ![a] = s]
    /\ resolved' = IF s \in Closed THEN resolved \cup {a} ELSE resolved
    /\ UNCHANGED <<raised, page, answer, pending, served, mixed>>

(* One page of the rows whose status is wanted, newest first. *)
FindAll(wanted, pageNo, limit) ==
    LET matching == {a \in 1..raised : status[a] \in wanted}
        newer(a) == Cardinality({b \in matching : b > a})
        skip == (pageNo - 1) * limit
    IN {a \in matching : newer(a) \in skip..(skip + limit - 1)}

(* The list is read; the answer is on its way. *)
Serve ==
    /\ answer = [phase |-> "asked"]
    /\ answer' = [phase |-> "sent",
                  list |-> [a \in FindAll(Status, 1, Limit) |-> status[a]]]
    /\ UNCHANGED <<rows, page, pending, served, mixed>>

-------------------------------------------------------------------------------
(* The page *)

(* The Sync button, which is disabled while a list is being loaded. *)
Sync ==
    /\ answer = Free
    /\ answer' = [phase |-> "asked"]
    /\ UNCHANGED <<rows, page, pending, served, mixed>>

(* fetchAlerts has its answer.  An empty list is replaced by the demo      *)
(* list, and then the counters stay as they are.                           *)
Land ==
    /\ answer.phase = "sent"
    /\ answer' = Free
    /\ mixed' = InFlight
    /\ IF DOMAIN answer.list # {}
       THEN /\ page' = [list |-> answer.list, counts |-> Tally(answer.list), demo |-> FALSE]
            /\ served' = answer.list
       ELSE /\ page' = [page EXCEPT !.list = DemoList, !.demo = TRUE]
            /\ UNCHANGED served
    /\ UNCHANGED <<rows, pending>>

(* fetchAlerts has failed, before or after the backend answered. *)
FetchFails ==
    /\ answer # Free
    /\ answer' = Free
    /\ page' = [page EXCEPT !.list = DemoList, !.demo = TRUE]
    /\ mixed' = InFlight
    /\ UNCHANGED <<rows, pending, served>>

(* The severities of the capsule, and how many alerts it shows for each,   *)
(* whatever their status.                                                  *)
SeverityCapsule == Severity \cup {"ALL"}
SeverityCount(s) == Cardinality({a \in DOMAIN page.list : s \in {"ALL", SeverityOf[a]}})

(* The filters: severity, status, and the alerts that the search text finds. *)
Filters == [severity : SeverityCapsule, status : Status \cup {"ALL"},
            found : {DOMAIN page.list}]

FilteredAlerts(f) ==
    {a \in DOMAIN page.list :
        /\ f.severity \in {"ALL", SeverityOf[a]}
        /\ f.status \in {"ALL", page.list[a]}
        /\ a \in f.found}

ActiveIncidents(f) == {a \in FilteredAlerts(f) : page.list[a] \in {"NEW", "INVESTIGATING"}}

(* A status' tile shows its counter; a click on it filters by the status. *)
Tile(s) == [count |-> page.counts[s],
            click |-> [severity |-> "ALL", status |-> s, found |-> DOMAIN page.list]]

(* While a list is being loaded, neither the table nor the grid is there. *)
QueueTable(f) == IF answer = Free THEN FilteredAlerts(f) ELSE {}
IncidentsGrid(f) == IF answer = Free THEN ActiveIncidents(f) ELSE {}

(* The buttons of an expanded row and those of a card.  The second and a   *)
(* half in which an action that succeeded replaces them is not modelled.   *)
RowButtons == {"RESOLVED", "INVESTIGATING", "FALSE_POSITIVE"}
CardButtons == {"INVESTIGATING", "RESOLVED", "FALSE_POSITIVE"}

Offered(id, to) ==
    \E f \in Filters : \/ id \in QueueTable(f) /\ to \in RowButtons
                       \/ id \in IncidentsGrid(f) /\ to \in CardButtons

(* The counter of the old status goes below zero. *)
EditedBelowZero(id, to) ==
    LET old == page.list[id]
        less == [page.counts EXCEPT ![old] = @ - 1]
    IN [page EXCEPT !.list[id] = to,
                    !.counts = [less EXCEPT ![to] = less[to] + 1]]

(* The part of handleAlertAction before its await: one less of the old     *)
(* status and one more of the new, which may be the same.                  *)
Edited(id, to) ==
    LET old == page.list[id]
        less == [page.counts EXCEPT ![old] = IF @ > 0 THEN @ - 1 ELSE 0]
    IN [page EXCEPT !.list[id] = to,
                    !.counts = [less EXCEPT ![to] = page.counts[to] + 1]]

(* The snapshot is taken after the edit. *)
ActSnapshotsLate(k, id, to) ==
    /\ ~page.demo
    /\ Offered(id, to)
    /\ page.counts[to] < MaxCount
    /\ pending[k] = Free
    /\ page' = Edited(id, to)
    /\ pending' = [pending EXCEPT ![k] = [phase |-> "sent", id |-> id, to |-> to,
                       list |-> page'.list, counts |-> page'.counts]]
    /\ mixed' = (mixed \/ InFlight)
    /\ UNCHANGED <<rows, answer, served>>

(* A button on an alert of the live list: the edit, and a request. *)
Act(k, id, to) ==
    /\ ~page.demo
    /\ Offered(id, to)
    /\ page.counts[to] < MaxCount
    /\ pending[k] = Free
    /\ pending' = [pending EXCEPT ![k] = [phase |-> "sent", id |-> id, to |-> to,
                       list |-> page.list, counts |-> page.counts]]
    /\ page' = Edited(id, to)
    /\ mixed' = (mixed \/ InFlight)
    /\ UNCHANGED <<rows, answer, served>>

(* A button on the demo list: the edit and nothing else. *)
ActOnDemo(id, to) ==
    /\ page.demo
    /\ Offered(id, to)
    /\ page.counts[to] < MaxCount
    /\ page' = Edited(id, to)
    /\ UNCHANGED <<rows, answer, pending, served, mixed>>

(* PATCH /alerts/:id/status is not a route of the controller: the backend  *)
(* answers 404 and the page goes back to the snapshot of the click, its    *)
(* demo flag left as it is.                                                *)
Refused(k) ==
    /\ pending[k] # Free
    /\ page' = [page EXCEPT !.list = pending[k].list, !.counts = pending[k].counts]
    /\ pending' = [pending EXCEPT ![k] = Free]
    /\ UNCHANGED <<rows, answer, served, mixed>>

Next ==
    \/ Raise
    \/ \E a \in Id, s \in Target \cup {"NEW"} : Update(a, s)
    \/ Serve
    \/ Sync
    \/ Land
    \/ FetchFails
    \/ \E k \in Slot, id \in Id \cup Demo, to \in Target : Act(k, id, to)
    \/ \E id \in Id \cup Demo, to \in Target : ActOnDemo(id, to)
    \/ \E k \in Slot : Refused(k)

Spec == Init /\ [][Next]_vars

-------------------------------------------------------------------------------
(* Properties *)

(* A page that says it is live, with no action under way and none          *)
(* overlapped since the list came (handleAlertAction's snapshots), shows   *)
(* the list the backend last served, and a click on a tile or a severity   *)
(* lists as many alerts as it counts.                                      *)
QuietPageIsServed ==
    ~page.demo /\ ~InFlight /\ ~mixed =>
        /\ page.list = served
        /\ \A s \in Status : Tile(s).count = Cardinality(FilteredAlerts(Tile(s).click))
        /\ \A s \in SeverityCapsule : SeverityCount(s) =
              Cardinality(FilteredAlerts([Tile("NEW").click EXCEPT !.severity = s, !.status = "ALL"]))

(* Whatever overlaps, a page not marked as demo lists rows of the table:   *)
(* no rollback brings demo alerts into a live page.                        *)
LivePageListsRows == ~page.demo => DOMAIN page.list \subseteq 1..raised

(* docs/PROJECT_PHASE_REPORT.md:101: the action buttons resolve, start to  *)
(* investigate or dismiss an alert.  When an action of a live page ends,   *)
(* the row has the status that was asked for.                              *)
ActionsArePersisted ==
    [][\A k \in Slot : pending[k] # Free /\ pending'[k] = Free =>
         status'[pending[k].id] = pending[k].to]_vars

===============================================================================
