------------------------------ MODULE ReportsPage ------------------------------
(***************************************************************************)
(* The page of archived reports, reports/page.tsx, with the generator's    *)
(* dialog and the drawer that shows one report.  A refresh is sent and not *)
(* waited for, an inspection opens the drawer before its answer is there,  *)
(* and a generation ends by inspecting what it made.  The filters, the     *)
(* counters above the table, the downloads, the preview and the scope of a *)
(* report are left out.  A report's number is its place in the order of    *)
(* creation, as in ReportList.                                             *)
(***************************************************************************)
EXTENDS Naturals, FiniteSets

CONSTANTS
    Reports,   \* bound: reports that are ever made
    Limit,     \* 20, the rows that findAll gives when it is not asked for more
    Mock,      \* stands for mockReports
    Fetch      \* bound: requests for the list under way at a time

VARIABLES
    archive,   \* the reports the backend stores
    known,     \* how many it has ever stored
    list,      \* the rows of the table
    fetch,     \* fetch[f]: a request for the list
    drawer,    \* the report of the drawer and the one its summary is of
    inspecting,\* the inspections under way
    generator, \* the generator's dialog is open
    making,    \* a generation under way
    deleting,  \* a deletion under way
    crossed,   \* history: an inspection was started while another was under way
    clean      \* history: the list was fetched alone, and nobody else wrote since

vars == <<archive, known, list, fetch, drawer, inspecting, generator, making, deleting, crossed, clean>>
backend == <<archive, known>>
table == <<list, fetch, clean>>
panel == <<drawer, inspecting, crossed>>

None == 0
Idle == [phase |-> "idle"]
Report == 1..Reports
Shown == Report \cup {Mock}
Maker == {"preset", "dialog"}

ReportsTypeOK ==
    /\ known \in 0..Reports /\ archive \in SUBSET (1..known)
    /\ list \in {{Mock}} \cup SUBSET Report
    /\ fetch \in [Fetch -> {Idle} \cup [phase : {"sent", "done"}, got : SUBSET Report, alone : BOOLEAN]]
    /\ drawer \in [open : BOOLEAN, report : Shown \cup {None}, summary : Report \cup {None}]
    /\ inspecting \in SUBSET Shown
    /\ making \in {Idle} \cup [phase : {"sent"}, by : Maker]
                         \cup [phase : {"done"}, by : Maker, report : Report]
    /\ deleting \in {Idle} \cup [phase : {"sent", "done"}, report : Shown]
    /\ {generator, crossed, clean} \subseteq BOOLEAN

Init ==
    /\ known \in 0..Reports /\ archive \in SUBSET (1..known)
    /\ list = {Mock}                       \* allReports before the first answer
    /\ fetch = [f \in Fetch |-> Idle]
    /\ drawer = [open |-> FALSE, report |-> None, summary |-> None]
    /\ inspecting = {}
    /\ making = Idle /\ deleting = Idle
    /\ generator = FALSE /\ crossed = FALSE /\ clean = FALSE

-------------------------------------------------------------------------------
(* The table *)

(* What is written or asked for now makes the answers under way old. *)
Outdated == [f \in Fetch |-> IF fetch[f] = Idle THEN Idle ELSE [fetch[f] EXCEPT !.alone = FALSE]]

(* useApi's fetchData; the requests under way are not called off. *)
Refetch(f) ==
    /\ fetch[f] = Idle
    /\ fetch' = [Outdated EXCEPT ![f] = [phase |-> "sent", got |-> {},
                                         alone |-> \A g \in Fetch : fetch[g] = Idle]]
    /\ UNCHANGED <<list, clean>>

HandleRefresh(f) == Refetch(f) /\ UNCHANGED <<backend, panel, generator, making, deleting>>

FetchLands(f) ==
    /\ fetch[f].phase = "done"
    /\ list' = fetch[f].got /\ clean' = fetch[f].alone
    /\ fetch' = [fetch EXCEPT ![f] = Idle]
    /\ UNCHANGED <<backend, panel, generator, making, deleting>>

(* The request or its answer is lost: the mock reports replace the rows. *)
FetchFails(f) ==
    /\ fetch[f] # Idle
    /\ list' = {Mock} /\ clean' = FALSE
    /\ fetch' = [fetch EXCEPT ![f] = Idle]
    /\ UNCHANGED <<backend, panel, generator, making, deleting>>

-------------------------------------------------------------------------------
(* The drawer *)

(* Mutant: the summary of the last report is left in place. *)
InspectedOverOld(r) ==
    /\ drawer' = [drawer EXCEPT !.open = TRUE, !.report = r]
    /\ inspecting' = inspecting \cup {r}
    /\ crossed' = (inspecting \ {r} # {})

Inspected(r) ==
    /\ drawer' = [open |-> TRUE, report |-> r, summary |-> None]
    /\ inspecting' = inspecting \cup {r}
    /\ crossed' = (inspecting \ {r} # {})

(* The dialogs cover the table. *)
OnTable == ~drawer.open /\ ~generator

HandleInspect(r) ==
    /\ OnTable /\ r \in list
    /\ Inspected(r)
    /\ UNCHANGED <<backend, table, generator, making, deleting>>

InspectionLands(r) ==
    /\ r \in inspecting \cap 1..known
    /\ drawer' = [drawer EXCEPT !.summary = r]
    /\ inspecting' = inspecting \ {r}
    /\ UNCHANGED <<backend, table, crossed, generator, making, deleting>>

(* Not found, or no answer: the drawer goes on with what the row holds. *)
InspectionFails(r) ==
    /\ r \in inspecting
    /\ inspecting' = inspecting \ {r}
    /\ UNCHANGED <<backend, table, drawer, crossed, generator, making, deleting>>

CloseDrawer ==
    /\ drawer.open
    /\ drawer' = [drawer EXCEPT !.open = FALSE]
    /\ UNCHANGED <<backend, table, inspecting, crossed, generator, making, deleting>>

-------------------------------------------------------------------------------
(* Deletion *)

HandleDelete(r) ==
    /\ OnTable /\ r \in list /\ deleting = Idle   \* bound: one at a time
    /\ deleting' = [phase |-> "sent", report |-> r]
    /\ UNCHANGED <<backend, table, panel, generator, making>>

DeletionLands(f) ==
    /\ deleting.phase = "done"
    /\ Refetch(f)
    /\ deleting' = Idle
    /\ UNCHANGED <<backend, panel, generator, making>>

(* Refused with 404, or the request or its answer lost: nothing is refreshed. *)
DeletionFails ==
    /\ deleting # Idle
    /\ clean' = (clean /\ deleting.phase = "sent")
    /\ deleting' = Idle
    /\ UNCHANGED <<backend, list, fetch, panel, generator, making>>

-------------------------------------------------------------------------------
(* Generation *)

OpenGenerator ==
    /\ OnTable
    /\ generator' = TRUE
    /\ UNCHANGED <<backend, table, panel, making, deleting>>

CloseGenerator ==
    /\ generator
    /\ generator' = FALSE
    /\ UNCHANGED <<backend, table, panel, making, deleting>>

Make(by) ==
    /\ making = Idle   \* bound: the presets and the dialog one at a time
    /\ making' = [phase |-> "sent", by |-> by]
    /\ UNCHANGED <<backend, table, panel, generator, deleting>>

HandleQuickPreset == OnTable /\ Make("preset")
HandleGenerate == generator /\ Make("dialog")

(* onReportCreated and handleQuickPreset: refresh, then inspect the answer. *)
MakingLands(f) ==
    /\ making.phase = "done"
    /\ Refetch(f) /\ Inspected(making.report)
    /\ generator' = (generator /\ making.by = "preset")
    /\ making' = Idle
    /\ UNCHANGED <<backend, deleting>>

MakingFails ==
    /\ making # Idle
    /\ making' = Idle
    /\ UNCHANGED <<backend, table, panel, generator, deleting>>

-------------------------------------------------------------------------------
(* The backend, of which ReportStore has the detail *)

(* findAll: page 1 of the reports by their time of creation. *)
Listed == {r \in archive : Cardinality({s \in archive : s > r}) < Limit}

ServeFetch(f) ==
    /\ fetch[f].phase = "sent"
    /\ fetch' = [fetch EXCEPT ![f].phase = "done", ![f].got = Listed]
    /\ UNCHANGED <<backend, list, clean, panel, generator, making, deleting>>

Store ==
    /\ known < Reports
    /\ known' = known + 1 /\ archive' = archive \cup {known'}
    /\ fetch' = Outdated /\ clean' = FALSE

ServeMaking ==
    /\ making.phase = "sent"
    /\ Store
    /\ making' = [phase |-> "done", by |-> making.by, report |-> known']
    /\ UNCHANGED <<list, panel, generator, deleting>>

ServeDeletion ==
    /\ deleting.phase = "sent" /\ deleting.report \in archive
    /\ archive' = archive \ {deleting.report}
    /\ deleting' = [deleting EXCEPT !.phase = "done"]
    /\ fetch' = Outdated
    /\ UNCHANGED <<known, list, clean, panel, generator, making>>

Others ==
    /\ \/ Store
       \/ \E r \in archive : archive' = archive \ {r} /\ known' = known
                            /\ fetch' = Outdated /\ clean' = FALSE
    /\ UNCHANGED <<list, panel, generator, making, deleting>>

Next ==
    \/ \E f \in Fetch : \/ HandleRefresh(f) \/ FetchLands(f) \/ FetchFails(f) \/ ServeFetch(f)
                        \/ DeletionLands(f) \/ MakingLands(f)
    \/ \E r \in Shown : HandleInspect(r) \/ InspectionLands(r) \/ InspectionFails(r) \/ HandleDelete(r)
    \/ CloseDrawer \/ DeletionFails \/ ServeDeletion
    \/ OpenGenerator \/ CloseGenerator \/ HandleQuickPreset \/ HandleGenerate \/ MakingFails
    \/ ServeMaking \/ Others

Spec == Init /\ [][Next]_vars

-------------------------------------------------------------------------------
(* Properties *)

(* handleInspect empties the drawer before it asks, and a generation's end  *)
(* takes the drawer over: unless two inspections crossed, the summary in    *)
(* the drawer is that of the report it was opened for.                      *)
DrawerIsItsReport ==
    drawer.summary # None /\ ~crossed => drawer.summary = drawer.report

(* A deletion of the page refreshes the table when it is answered: at rest, *)
(* unless the last answer failed or crossed another or others wrote since,  *)
(* the table lists the newest reports of the archive, as many as findAll    *)
(* gives, also after a report was deleted and an older one moved up.        *)
QuietTableIsArchive ==
    clean /\ making = Idle /\ deleting = Idle /\ (\A f \in Fetch : fetch[f] = Idle) => list = Listed

===============================================================================
