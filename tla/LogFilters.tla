------------------------------- MODULE LogFilters -------------------------------
(***************************************************************************)
(* What the browser of logs looks for: the toolbar of                      *)
(* components/logs/log-filters.tsx, the heads, rows and buttons of         *)
(* log-table.tsx and the page controls of logs/page.tsx; the validation    *)
(* and the query of the backend (query-logs.dto.ts, logs.service.ts) and   *)
(* the fallback of telemetry-store.ts.  Logs and copies are what they are  *)
(* at the start, and only the answer to the latest query lands: how both   *)
(* change meanwhile is in LogsPage.  The country has no control and is     *)
(* never set.                                                              *)
(***************************************************************************)
EXTENDS Integers, Sequences, FiniteSets

CONSTANTS
    Log, Mock,         \* logs, and the logs of mock-data.ts: numbers
    SeverityOf, SourceOf,
    SeverityOrder,     \* the severities, as they follow each other in the slider
    Source, Accepted,  \* the sources of the drop-down; those of QueryLogsDto
    Found, Near, Recent,  \* what the search, the address and the dates let through
    PerPage,           \* lengths of a page (10, 20, 50, 100 in the code)
    Field, Rank,       \* Rank[f][l]: the place of log l when sorted by column f
    BaseTotal,         \* the number of logs that the demo data claims
    MaxPage, MaxKinds  \* bounds: pages turned to, kinds of filters used at a time

Severity == {SeverityOrder[i] : i \in DOMAIN SeverityOrder}
Copies == {s \in UNION {[1..n -> Log] : n \in 0..Cardinality(Log)} :
             \A i, j \in DOMAIN s : i < j => s[i] > s[j]}

VARIABLES
    stored,    \* the logs of the backend
    copies,    \* the copies in localStorage, the latest first
    typed,     \* whether there is a text in the search field
    search,    \* the same, 300 ms later
    severities, sources, place,   \* the other filters
    view,      \* page, length of a page, and the order
    due,       \* a fetch is under way
    table,     \* what was fetched last
    sure       \* history: the page is the first, or was turned to when it was there

filters == <<typed, search, severities, sources, place>>
vars == <<stored, copies, filters, view, due, table, sure>>

Entry == (Log \X {"row", "copy"}) \cup (Mock \X {"mock"})

FiltersTypeOK ==
    /\ stored \subseteq Log /\ copies \in Copies
    /\ typed \in BOOLEAN /\ search \in BOOLEAN
    /\ severities \subseteq Severity /\ sources \subseteq Source
    /\ place \subseteq {"ip", "dates"}
    /\ view \in [page : 1..MaxPage, perPage : PerPage, by : Field, order : {"asc", "desc"}]
    /\ due \in BOOLEAN
    /\ table \in [rows : SUBSET Entry, total : Nat, demo : BOOLEAN]
    /\ sure \in BOOLEAN

Init ==
    /\ stored \in SUBSET Log /\ copies \in Copies
    /\ typed = FALSE /\ search = FALSE
    /\ severities = {} /\ sources = {} /\ place = {}
    /\ \E n \in PerPage, f \in Field :
          view = [page |-> 1, perPage |-> n, by |-> f, order |-> "desc"]
    /\ due = TRUE
    /\ table = [rows |-> Mock \X {"mock"}, total |-> Cardinality(Mock), demo |-> TRUE]
    /\ sure = TRUE

-------------------------------------------------------------------------------
(* The answer *)

Passes(l) ==
    /\ search => l \in Found
    /\ severities # {} => SeverityOf[l] \in severities
    /\ sources # {} => SourceOf[l] \in sources
    /\ "ip" \in place => l \in Near
    /\ "dates" \in place => l \in Recent

(* The page asked for, of the entries S in the order asked for. *)
Slice(S) ==
    LET before(e) == {d \in S : IF view.order = "asc"
                                THEN Rank[view.by][d[1]] < Rank[view.by][e[1]]
                                ELSE Rank[view.by][d[1]] > Rank[view.by][e[1]]}
        skip == (view.page - 1) * view.perPage
    IN {e \in S : Cardinality(before(e)) \in skip..(skip + view.perPage - 1)}

(* QueryLogsDto lets one severity and one source through, of a list that   *)
(* is shorter than the drop-down's; several arrive joined by commas.       *)
ValidQuery ==
    /\ Cardinality(severities) <= 1
    /\ Cardinality(sources) <= 1 /\ sources \subseteq Accepted

Matching == {l \in stored : Passes(l)}

(* The copies come before the rows on a first page without search,         *)
(* severity and source, and are counted on every page.                     *)
FirstOf(n) == {copies[i] : i \in 1..Len(copies) \cap 1..n}

Displayed ==
    LET rows == Slice(Matching \X {"row"})
        newest == FirstOf(view.perPage) \X {"copy"}
        room == view.perPage - Cardinality(newest)
        rank(e) == Cardinality({d \in rows : IF view.order = "asc"
                                             THEN Rank[view.by][d[1]] < Rank[view.by][e[1]]
                                             ELSE Rank[view.by][d[1]] > Rank[view.by][e[1]]})
    IN IF view.page = 1 /\ ~search /\ severities = {} /\ sources = {}
       THEN newest \cup {e \in rows : rank(e) < room}
       ELSE rows

Served ==
    /\ due /\ ValidQuery
    /\ due' = FALSE
    /\ table' = [rows |-> Displayed, total |-> Cardinality(Matching) + Len(copies),
                 demo |-> FALSE]
    /\ UNCHANGED <<stored, copies, filters, view, sure>>

(* getSynchronizedLogs: the copies and the demo data, all filtered; the    *)
(* number of entries is theirs only when something is filtered.            *)
NoFilters == ~search /\ severities = {} /\ sources = {} /\ place = {}
Synchronized ==
    LET combined == (FirstOf(Len(copies)) \X {"copy"}) \cup (Mock \X {"mock"})
        kept == {e \in combined : Passes(e[1])}
    IN [rows |-> Slice(kept),
        total |-> IF NoFilters THEN BaseTotal + Len(copies) ELSE Cardinality(kept)]

(* The backend refuses the query or does not answer. *)
FallBack ==
    /\ due
    /\ due' = FALSE
    /\ table' = [rows |-> Synchronized.rows, total |-> Synchronized.total, demo |-> TRUE]
    /\ UNCHANGED <<stored, copies, filters, view, sure>>

-------------------------------------------------------------------------------
(* The filters.  Each change goes back to the first page and asks again. *)

Kinds(t, sev, src, pl) ==
    Cardinality({k \in 1..4 : CASE k = 1 -> t [] k = 2 -> sev # {}
                                [] k = 3 -> src # {} [] k = 4 -> pl # {}})
FirstPage == [view EXCEPT !.page = 1]

(* The severities change and the page stays. *)
SetSeveritiesOnPage(s) ==
    /\ Kinds(typed, s, sources, place) <= MaxKinds
    /\ severities' = s
    /\ due' = TRUE
    /\ UNCHANGED <<stored, copies, typed, search, sources, place, view, table, sure>>

SetSeverities(s) ==
    /\ Kinds(typed, s, sources, place) <= MaxKinds
    /\ severities' = s
    /\ view' = FirstPage /\ sure' = TRUE
    /\ due' = TRUE
    /\ UNCHANGED <<stored, copies, typed, search, sources, place, table>>

(* handleSliderOptionClick: with a modifier key the severity is added or   *)
(* taken away, without one it is the only one or, clicked again, none.     *)
ClickSeverity(s, modifier) ==
    SetSeverities(
        IF modifier THEN IF s \in severities THEN severities \ {s} ELSE severities \cup {s}
        ELSE IF severities = {s} THEN {} ELSE {s})

ClickAll == SetSeverities({})

(* Arrow keys go round All and the severities; several selected count as All. *)
ArrowKey(step) ==
    LET n == Len(SeverityOrder) + 1
        at == IF Cardinality(severities) = 1
              THEN CHOOSE i \in DOMAIN SeverityOrder : severities = {SeverityOrder[i]} ELSE 0
        next == (at + step + n) % n
    IN SetSeverities(IF next = 0 THEN {} ELSE {SeverityOrder[next]})

SetSources(s) ==
    /\ Kinds(typed, severities, s, place) <= MaxKinds
    /\ sources' = s
    /\ view' = FirstPage /\ sure' = TRUE
    /\ due' = TRUE
    /\ UNCHANGED <<stored, copies, typed, search, severities, place, table>>

(* An entry of the drop-down, or its badge; `Reset` and `All Sources`. *)
ToggleSource(s) ==
    SetSources(IF s \in sources THEN sources \ {s} ELSE sources \cup {s})
AllSources == SetSources({})

(* The field of the address and the two of the dates, and their crosses. *)
SetPlace(p) ==
    /\ Kinds(typed, severities, sources, p) <= MaxKinds
    /\ place' = p
    /\ view' = FirstPage /\ sure' = TRUE
    /\ due' = TRUE
    /\ UNCHANGED <<stored, copies, typed, search, severities, sources, table>>

TypeAddress == SetPlace(place \cup {"ip"}) \/ SetPlace(place \ {"ip"})
PickDates == SetPlace(place \cup {"dates"}) \/ SetPlace(place \ {"dates"})

(* The button beside an address of the table, which is not there while     *)
(* something is being fetched.                                             *)
FilterByIp(e) ==
    /\ ~due
    /\ e \in table.rows /\ e[1] \in Near
    /\ SetPlace(place \cup {"ip"})

(* The search field is set at once, what is asked for 300 ms later. *)
TypeSearch ==
    /\ Kinds(~typed, severities, sources, place) <= MaxKinds
    /\ typed' = ~typed
    /\ view' = FirstPage /\ sure' = TRUE
    /\ due' = (due \/ view.page # 1)
    /\ UNCHANGED <<stored, copies, search, severities, sources, place, table>>

Debounced ==
    /\ search # typed
    /\ search' = typed
    /\ due' = TRUE
    /\ UNCHANGED <<stored, copies, typed, severities, sources, place, view, table, sure>>

(* The two dates, here one, count for two. *)
activeFilterCount ==
    (IF typed THEN 1 ELSE 0) + (IF severities # {} THEN 1 ELSE 0)
      + (IF sources # {} THEN 1 ELSE 0) + Cardinality(place)

(* `Reset` of the toolbar and `Clear all`, which are there while filters   *)
(* are active, and `Reset filters` of an empty table.                      *)
ClearFilters ==
    /\ activeFilterCount > 0 \/ (~due /\ table.rows = {})
    /\ typed' = FALSE /\ severities' = {} /\ sources' = {} /\ place' = {}
    /\ view' = FirstPage /\ sure' = TRUE
    /\ due' = TRUE
    /\ UNCHANGED <<stored, copies, search, table>>

-------------------------------------------------------------------------------
(* The page *)

totalPages ==
    LET n == (table.total + view.perPage - 1) \div view.perPage IN IF n > 1 THEN n ELSE 1

(* At most five numbers, around the page where there are more. *)
Numbers ==
    LET n == IF totalPages <= 5 THEN totalPages ELSE 5
        first == IF totalPages <= 5 \/ view.page <= 3 THEN 1
                 ELSE IF view.page >= totalPages - 2 THEN totalPages - 4
                 ELSE view.page - 2
    IN first..(first + n - 1)

AtRest == ~due /\ typed = search

Turn(p) ==
    /\ p <= MaxPage
    /\ view' = [view EXCEPT !.page = p]
    /\ due' = (due \/ p # view.page)
    /\ sure' = (p = 1 \/ (AtRest /\ ~table.demo /\ p <= totalPages))
    /\ UNCHANGED <<stored, copies, filters, table>>

Previous == view.page # 1 /\ Turn(view.page - 1)
NextPage ==
    /\ view.page # totalPages
    /\ Turn(IF view.page + 1 < totalPages THEN view.page + 1 ELSE totalPages)
Number(p) == p \in Numbers /\ Turn(p)

SetPerPage(n) ==
    /\ view' = [view EXCEPT !.perPage = n, !.page = 1]
    /\ due' = (due \/ view' # view)
    /\ sure' = TRUE
    /\ UNCHANGED <<stored, copies, filters, table>>

(* The head of a column, of a table that has rows: another column starts   *)
(* with its highest value. The page stays.                                 *)
SortBy(f) ==
    /\ ~due /\ table.rows # {}
    /\ view' = IF view.by = f
               THEN [view EXCEPT !.order = IF @ = "asc" THEN "desc" ELSE "asc"]
               ELSE [view EXCEPT !.by = f, !.order = "desc"]
    /\ due' = TRUE
    /\ UNCHANGED <<stored, copies, filters, table, sure>>

Sync ==
    /\ ~due
    /\ due' = TRUE
    /\ UNCHANGED <<stored, copies, filters, view, table, sure>>

Next ==
    \/ Served \/ FallBack
    \/ \E s \in Severity, modifier \in BOOLEAN : ClickSeverity(s, modifier)
    \/ ClickAll \/ AllSources \/ TypeAddress \/ PickDates
    \/ \E step \in {-1, 1} : ArrowKey(step)
    \/ \E s \in Source : ToggleSource(s)
    \/ \E e \in Entry : FilterByIp(e)
    \/ TypeSearch \/ Debounced \/ ClearFilters
    \/ Previous \/ NextPage \/ Sync
    \/ \E p \in 1..MaxPage : Number(p)
    \/ \E n \in PerPage : SetPerPage(n)
    \/ \E f \in Field : SortBy(f)

Spec == Init /\ [][Next]_vars

-------------------------------------------------------------------------------
(* Properties *)

(* At rest every row and every demo log that is shown passes the filters,  *)
(* and the way to reset them is offered exactly when there are some        *)
(* (logs/page.tsx): the copies alone are shown whatever address and dates  *)
(* are asked for.                                                          *)
ShownMatches ==
    AtRest =>
        /\ \A e \in table.rows : e[2] = "copy" \/ Passes(e[1])
        /\ NoFilters <=> activeFilterCount = 0

(* With nothing copied, a live table at rest is never empty when logs      *)
(* match, whatever filter, order or length of a page is chosen after a     *)
(* page was turned; it may be when the page was turned during a fetch, in  *)
(* the 300 ms after a search was typed, or on the demo data.               *)
PageHasRows ==
    AtRest /\ sure /\ ~table.demo /\ copies = <<>> /\ Matching # {} => table.rows # {}

===============================================================================
