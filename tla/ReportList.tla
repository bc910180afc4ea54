------------------------------- MODULE ReportList -------------------------------
(***************************************************************************)
(* Table and tiles of reports/page.tsx: the newest reports come with one   *)
(* request and the numbers of the whole archive with another, which is     *)
(* made of four queries; the filters work on the rows that came.  The      *)
(* downloads of rows share one marker.  A report's number is its place in  *)
(* the order of creation.  What ReportsPage follows (answers that overtake *)
(* each other, drawer, generator) is left out.                             *)
(***************************************************************************)
EXTENDS Naturals, FiniteSets, FiniteSetsExt

CONSTANTS
    Reports,    \* bound: reports that are ever made
    Type, TypeOf, FormatOf,  \* TypeOf[r], FormatOf[r]: of report r
    Limit       \* 20, the rows that findAll gives when it is not asked for more

VARIABLES
    archive,    \* the reports stored
    made,       \* how many were ever made
    rows,       \* the answer in the table; no report is among the mock rows
    stats,      \* the answer in the tiles
    list,       \* the request for the rows
    counts,     \* the request for the tiles: the queries not yet answered, the answers
    dirty,      \* history: the archive changed, or a request failed, since the refresh
    downloading, marker   \* the downloads under way, downloadingId

vars == <<archive, made, rows, stats, list, counts, dirty, downloading, marker>>
backend == <<archive, made>>
page == <<rows, stats, list, counts>>
downloads == <<downloading, marker>>

Report == 1..Reports
Format == {"PDF", "CSV"}
All == "ALL"
None == 0
Tile == {"total", "PDF", "CSV", "last"}

OfFormat(f, set) == {r \in set : FormatOf[r] = f}
Newest(set) == IF set = {} THEN None ELSE Max(set)

NoStats == [t \in Tile |-> 0]
Idle == [phase |-> "idle", rows |-> {}]
Still == [phase |-> "idle", left |-> {}, stats |-> NoStats]

ListTypeOK ==
    /\ made \in 0..Reports /\ archive \subseteq 1..made
    /\ rows \subseteq Report /\ Cardinality(rows) <= Limit
    /\ stats \in [Tile -> 0..Reports]
    /\ list \in [phase : {"idle", "sent", "done"}, rows : SUBSET Report]
    /\ counts \in [phase : {"idle", "sent"}, left : SUBSET Tile, stats : [Tile -> 0..Reports]]
    /\ dirty \in BOOLEAN
    /\ downloading \subseteq Report /\ marker \in Report \cup {None}

(* The page asks for both when it is mounted. *)
Init ==
    /\ made \in 0..Reports /\ archive \in SUBSET (1..made)
    /\ rows = {} /\ stats = NoStats
    /\ list = [Idle EXCEPT !.phase = "sent"]
    /\ counts = [Still EXCEPT !.phase = "sent", !.left = Tile]
    /\ dirty = FALSE
    /\ downloading = {} /\ marker = None

-------------------------------------------------------------------------------
(* A refresh *)

HandleRefresh ==
    /\ list = Idle /\ counts = Still     \* bound: one refresh at a time
    /\ list' = [Idle EXCEPT !.phase = "sent"]
    /\ counts' = [Still EXCEPT !.phase = "sent", !.left = Tile]
    /\ dirty' = FALSE
    /\ UNCHANGED <<backend, rows, stats, downloads>>

(* findAll: page 1 of the reports by their time of creation. *)
NewestRows == {r \in archive : Cardinality({s \in archive : s > r}) < Limit}

ReadRows ==
    /\ list.phase = "sent"
    /\ list' = [phase |-> "done", rows |-> NewestRows]
    /\ UNCHANGED <<backend, rows, stats, counts, dirty, downloads>>

ListLands ==
    /\ list.phase = "done"
    /\ rows' = list.rows /\ list' = Idle
    /\ UNCHANGED <<backend, stats, counts, dirty, downloads>>

ListFails ==
    /\ list # Idle
    /\ rows' = {} /\ list' = Idle
    /\ dirty' = TRUE
    /\ UNCHANGED <<backend, stats, counts, downloads>>

(* Mutant: the formats are counted among the rows of a page. *)
CountOnPage(t) ==
    CASE t = "total" -> Cardinality(archive)
      [] t \in Format -> Cardinality(OfFormat(t, NewestRows))
      [] t = "last" -> Newest(archive)

Count(t) ==
    CASE t = "total" -> Cardinality(archive)
      [] t \in Format -> Cardinality(OfFormat(t, archive))
      [] t = "last" -> Newest(archive)

GetReportStats(t) ==
    /\ t \in counts.left
    /\ counts' = [counts EXCEPT !.left = @ \ {t}, !.stats[t] = Count(t)]
    /\ UNCHANGED <<backend, rows, stats, list, dirty, downloads>>

StatsLand ==
    /\ counts.phase = "sent" /\ counts.left = {}
    /\ stats' = counts.stats /\ counts' = Still
    /\ UNCHANGED <<backend, rows, list, dirty, downloads>>

StatsFail ==
    /\ counts # Still
    /\ stats' = NoStats /\ counts' = Still
    /\ dirty' = TRUE
    /\ UNCHANGED <<backend, rows, list, downloads>>

-------------------------------------------------------------------------------
(* The archive, changed here or elsewhere *)

Generate ==
    /\ made < Reports
    /\ made' = made + 1 /\ archive' = archive \cup {made'}
    /\ dirty' = TRUE
    /\ UNCHANGED <<page, downloads>>

Remove(r) ==
    /\ r \in archive
    /\ archive' = archive \ {r}
    /\ dirty' = TRUE
    /\ UNCHANGED <<made, page, downloads>>

-------------------------------------------------------------------------------
(* Filters and downloads of the rows *)

(* The scope and format buttons; they are set at any time and touch         *)
(* nothing else, so that the rows they leave are looked at for every choice. *)
Passes(r, type, format) ==
    type \in {All, TypeOf[r]} /\ format \in {All, FormatOf[r]}

FilteredReports(type, format) == {r \in rows : Passes(r, type, format)}

(* The button of the row with the marker is disabled. *)
HandleDownload(r) ==
    /\ r \in FilteredReports(All, All) \ {marker}
    /\ r \notin downloading     \* bound: one download of a report at a time
    /\ downloading' = downloading \cup {r} /\ marker' = r
    /\ UNCHANGED <<backend, page, dirty>>

(* Saved, or refused: the marker is cleared, whosever it is. *)
DownloadEnds(r) ==
    /\ r \in downloading
    /\ downloading' = downloading \ {r} /\ marker' = None
    /\ UNCHANGED <<backend, page, dirty>>

Next ==
    \/ HandleRefresh \/ ReadRows \/ ListLands \/ ListFails \/ StatsLand \/ StatsFail
    \/ \E t \in Tile : GetReportStats(t)
    \/ Generate
    \/ \E r \in Report : Remove(r) \/ HandleDownload(r) \/ DownloadEnds(r)

Spec == Init /\ [][Next]_vars

-------------------------------------------------------------------------------
(* Properties *)

(* On a page at rest whose two answers are of one refresh that nothing      *)
(* disturbed, the tiles are about the archive of which the table lists the  *)
(* newest: the formats add up to the total, the latest report is the first  *)
(* row, and while the archive fits into the table, all of it that passes    *)
(* the filters is listed, so that an empty table means there is none.       *)
TilesFitTable ==
    list = Idle /\ counts = Still /\ ~dirty =>
        /\ stats["PDF"] + stats["CSV"] = stats["total"]
        /\ stats["last"] = Newest(rows)
        /\ IF stats["total"] > Limit THEN Cardinality(rows) = Limit
           ELSE \A t \in Type \cup {All}, f \in Format \cup {All} :
                    FilteredReports(t, f) = {r \in archive : Passes(r, t, f)}

(* A row marked as being saved is being saved. *)
MarkedIsDownloading == marker # None => marker \in downloading

===============================================================================
