------------------------------ MODULE ThreatsPage ------------------------------
(***************************************************************************)
(* The page of threat scores, threats/page.tsx, over the answer of         *)
(* threats.service.ts, which reads the rows of the page and the rows of    *)
(* the summary by two queries.  An Entity is a row of ThreatScore; what a  *)
(* card or a row of the table tells of it, at once or expanded, is left    *)
(* out.                                                                    *)
(***************************************************************************)
EXTENDS Integers, FiniteSets

CONSTANTS
    Entity, CategoryOf,             \* CategoryOf \in [Entity -> Category]
    Mock,       \* the entities of mockThreatEntities, none of which is stored
    Matching,   \* the entities that the search text lets through
    Limit,      \* 200, the rows asked for
    PageSize,   \* PageSize[view]: 12 cards or 20 rows
    Sort, Rank  \* the orders to sort in; Rank[s][e]: the place of e in the order s

VARIABLES
    stored,    \* the rows of the table
    fetch,     \* the request under way: the rows and the scores read so far
    entities, summary, demo,        \* what the page got last; summary[c]: a count, of
                                    \* a category or of All
    filter, search, sort, view, page,   \* what it is set to show
    replaced,  \* history: the entities were replaced under a page beyond the first
    torn       \* history: a row was added between the two reads of what is shown

vars == <<stored, fetch, entities, summary, demo, filter, search, sort, view, page, replaced, torn>>

View == {"grid", "table"}
Category == {"SAFE", "LOW_RISK", "MEDIUM_RISK", "HIGH_RISK", "CRITICAL"}
All == "ALL"

Of(c, set) == {e \in set : c = All \/ CategoryOf[e] = c}
Counts(set) == [c \in Category \cup {All} |-> Cardinality(Of(c, set))]

(* Sync and the mount; Sync is disabled while a request is under way. *)
Idle == [read |-> {}, rows |-> {}, scores |-> {}, torn |-> FALSE, busy |-> FALSE]
Sent == [Idle EXCEPT !.busy = TRUE]

ThreatsTypeOK ==
    /\ stored \subseteq Entity \ Mock
    /\ fetch \in [read : SUBSET {"rows", "scores"}, rows : SUBSET Entity, scores : SUBSET Entity,
                  torn : BOOLEAN, busy : BOOLEAN]
    /\ entities \subseteq Entity
    /\ summary \in [Category \cup {All} -> 0..Cardinality(Entity)]
    /\ demo \in BOOLEAN /\ demo = (entities \subseteq Mock)
    /\ filter \in Category \cup {All} /\ search \in BOOLEAN /\ sort \in Sort /\ view \in View
    /\ page \in 1..Cardinality(Entity)
    /\ replaced \in BOOLEAN /\ torn \in BOOLEAN

Init ==
    /\ stored \in SUBSET (Entity \ Mock)
    /\ fetch = Sent
    /\ entities = Mock /\ summary = Counts(Mock) /\ demo = TRUE
    /\ filter = All /\ search = FALSE /\ sort \in Sort /\ view = "grid" /\ page = 1
    /\ replaced = FALSE /\ torn = FALSE

Filtered == {e \in Of(filter, entities) : search => e \in Matching}

Pages(n) == IF n = 0 THEN 1 ELSE (n + PageSize[view] - 1) \div PageSize[view]
TotalPages == Pages(Cardinality(Filtered))

paginatedEntities ==
    LET start == (page - 1) * PageSize[view]
        before(e) == {d \in Filtered : Rank[sort][d] < Rank[sort][e]}
    IN {e \in Filtered : Cardinality(before(e)) \in start..(start + PageSize[view] - 1)}

(* The grid is not there while a request is under way, the table is. *)
Cards == IF view = "grid" /\ ~fetch.busy THEN paginatedEntities ELSE {}
MatrixTable == IF view = "table" THEN paginatedEntities ELSE {}

(* The footer: `Showing from to`, of all that passes the filter. *)
Footer ==
    LET n == Cardinality(Filtered)
        last == page * PageSize[view]
    IN [from |-> (page - 1) * PageSize[view] + 1, to |-> IF last < n THEN last ELSE n]

-------------------------------------------------------------------------------
(* The request *)

Sync ==
    /\ ~fetch.busy
    /\ fetch' = Sent
    /\ UNCHANGED <<stored, entities, summary, demo, filter, search, sort, view, page, replaced, torn>>

(* findMany with take: the rows of the highest scores, if there are too many. *)
ReadRows ==
    /\ fetch.busy /\ "rows" \notin fetch.read
    /\ \E rows \in SUBSET stored :
          /\ \/ rows = stored /\ Cardinality(stored) <= Limit
             \/ Cardinality(rows) = Limit
          /\ fetch' = [fetch EXCEPT !.read = @ \cup {"rows"}, !.rows = rows]
    /\ UNCHANGED <<stored, entities, summary, demo, filter, search, sort, view, page, replaced, torn>>

ReadScores ==
    /\ fetch.busy /\ "scores" \notin fetch.read
    /\ fetch' = [fetch EXCEPT !.read = @ \cup {"scores"}, !.scores = stored]
    /\ UNCHANGED <<stored, entities, summary, demo, filter, search, sort, view, page, replaced, torn>>

(* Mutant: the counts of the last answer stay. *)
ShowKeepsSummary(set, counts, mock) ==
    /\ entities' = set /\ summary' = summary /\ demo' = mock
    /\ torn' = (fetch.torn /\ ~mock)
    /\ replaced' = (replaced \/ page > 1)
    /\ fetch' = Idle
    /\ UNCHANGED <<stored, filter, search, sort, view, page>>

Show(set, counts, mock) ==
    /\ entities' = set /\ summary' = counts /\ demo' = mock
    /\ torn' = (fetch.torn /\ ~mock)
    /\ replaced' = (replaced \/ page > 1)
    /\ fetch' = Idle
    /\ UNCHANGED <<stored, filter, search, sort, view, page>>

FetchThreats ==
    /\ fetch.read = {"rows", "scores"}
    /\ IF fetch.rows # {} THEN Show(fetch.rows, Counts(fetch.scores), FALSE)
       ELSE Show(Mock, Counts(Mock), TRUE)

FetchFails == fetch.busy /\ Show(Mock, Counts(Mock), TRUE)

(* The log worker scores another log. *)
Score(e) ==
    /\ e \notin stored \cup Mock
    /\ stored' = stored \cup {e}
    /\ fetch' = [fetch EXCEPT !.torn = @ \/ Cardinality(fetch.read) = 1]
    /\ UNCHANGED <<entities, summary, demo, filter, search, sort, view, page, replaced, torn>>

-------------------------------------------------------------------------------
(* What the page is set to show *)

(* The effect on filter, search, order and view goes back to page 1. *)
Set(f, s, o, v) ==
    /\ <<f, s, o, v>> # <<filter, search, sort, view>>
    /\ filter' = f /\ search' = s /\ sort' = o /\ view' = v
    /\ page' = 1 /\ replaced' = FALSE
    /\ UNCHANGED <<stored, fetch, entities, summary, demo, torn>>

(* The tiles toggle their category, the capsule sets it. *)
SetCategoryFilter(c) == Set(c, search, sort, view)
SetSearchQuery(s) == Set(filter, s, sort, view)
SetSortBy(o) == Set(filter, search, o, view)
SetViewMode(v) == Set(filter, search, sort, v)

(* The footer is there when something is listed. *)
Turn(to) ==
    /\ ~fetch.busy /\ Filtered # {}
    /\ to # page
    /\ page' = to
    /\ replaced' = (replaced /\ to > TotalPages)
    /\ UNCHANGED <<stored, fetch, entities, summary, demo, filter, search, sort, view, torn>>

Previous == page > 1 /\ Turn(page - 1)
NextPage == page # TotalPages /\ Turn(IF page + 1 < TotalPages THEN page + 1 ELSE TotalPages)

Next ==
    \/ Sync \/ ReadRows \/ ReadScores \/ FetchThreats \/ FetchFails
    \/ \E e \in Entity : Score(e)
    \/ \E c \in Category \cup {All} : SetCategoryFilter(c)
    \/ \E s \in BOOLEAN : SetSearchQuery(s)
    \/ \E o \in Sort : SetSortBy(o)
    \/ \E v \in View : SetViewMode(v)
    \/ Previous \/ NextPage

Spec == Init /\ [][Next]_vars

-------------------------------------------------------------------------------
(* Properties *)

(* categoryCounts and the chart: a count of the summary, or what the page   *)
(* holds when that is zero.                                                *)
CategoryCount(c) == IF summary[c] # 0 THEN summary[c] ELSE Cardinality(Of(c, entities))
Distribution == [c \in Category |-> CategoryCount(c)]

(* The tiles show and filter by the whole, Critical and High Risk, as the  *)
(* summary has them, the capsule by every category.                        *)
Tiles == [c \in {All, "CRITICAL", "HIGH_RISK"} |-> summary[c]]
Capsule == [c \in Category \cup {All} |-> CategoryCount(c)]

(* Rows and summary are read by two queries (threats.service.ts:183), and   *)
(* the counts come from another setState than the cards: unless a row was   *)
(* added between the reads, tiles and capsule agree and count no fewer      *)
(* entities, in all and of a category, than the page holds, and no more     *)
(* while the page holds all; and the bars of the chart add up to the whole. *)
CountsMatchEntities ==
    ~torn =>
        /\ \A c \in Category \cup {All} :
              LET held == Cardinality(Of(c, entities)) IN
              /\ Capsule[c] >= held
              /\ Cardinality(entities) < Limit => Capsule[c] = held
              /\ c \in DOMAIN Tiles => Tiles[c] = Capsule[c]
        /\ Tiles[All] = Distribution["SAFE"] + Distribution["LOW_RISK"]
              + Distribution["MEDIUM_RISK"] + Distribution["HIGH_RISK"] + Distribution["CRITICAL"]

(* The current page is kept through every change of what is listed: unless  *)
(* an answer came in while a later page was shown, cards or table show      *)
(* something whenever anything passes the filter, as many as the footer     *)
(* says.                                                                    *)
PageShowsSomething ==
    Filtered # {} /\ ~replaced /\ ~fetch.busy =>
        LET shown == Cards \cup MatrixTable IN
        shown # {} /\ Cardinality(shown) = Footer.to - Footer.from + 1

===============================================================================
