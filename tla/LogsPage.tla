-------------------------------- MODULE LogsPage --------------------------------
(***************************************************************************)
(* The logs of the browser: logs/page.tsx with its upload dialog and       *)
(* lib/telemetry-store.ts, which keeps a copy of every uploaded log in     *)
(* localStorage.  The page asks again whenever its query or the copies     *)
(* change and takes every answer as it comes.  A Log stands for a chunk of *)
(* up to 100.  Of the query matters only how it treats the copies; what it *)
(* looks for, and which page it asks for, is in LogFilters: whatever it    *)
(* is, it lets through the logs of Narrow.                                 *)
(***************************************************************************)
EXTENDS Naturals, Sequences

CONSTANTS
    Log, Narrow,   \* Narrow \subseteq Log
    MaxFetch       \* bound: fetches under way at a time

(* The first page of all logs; a first page narrowed by address, country   *)
(* and dates alone; any other filter or a later page.                      *)
Query == {"open", "placed", "narrowed"}

VARIABLES
    stored,    \* the logs of the backend
    copies,    \* the logs of localStorage
    query,     \* what the page is set to show
    fetches,   \* the fetches under way, oldest first
    shown,     \* what the table shows, before slice cuts a page from it
    upload,    \* the upload under way, or NoUpload
    stale      \* history: the last answer had been overtaken by a newer one

vars == <<stored, copies, query, fetches, shown, upload, stale>>

NoUpload == [list |-> <<>>, sent |-> 0]
Row == Log \X {"row", "copy"}
Fetches == [query : Query, phase : {"sent", "done", "failed"}, rows : SUBSET Log, late : BOOLEAN]

LogsTypeOK ==
    /\ stored \subseteq Log /\ copies \subseteq Log
    /\ query \in Query
    /\ fetches \in Seq(Fetches) /\ Len(fetches) <= MaxFetch
    /\ shown \in [query : Query, rows : SUBSET Row, demo : BOOLEAN]
    /\ upload.list \in Seq(Log) /\ upload.sent \in 0..Len(upload.list)
    /\ stale \in BOOLEAN

Ask(q) == [query |-> q, phase |-> "sent", rows |-> {}, late |-> FALSE]

(* The page is mounted over whatever an earlier visit left. *)
Init ==
    /\ stored = {} /\ copies \in SUBSET Log
    /\ query = "open"
    /\ fetches = <<Ask("open")>>
    /\ shown = [query |-> "open", rows |-> {}, demo |-> TRUE]
    /\ upload = NoUpload
    /\ stale = FALSE

AskedAgain(q, n) == fetches \o [i \in 1..n |-> Ask(q)]
CanAsk(n) == Len(fetches) + n <= MaxFetch

-------------------------------------------------------------------------------
(* The query *)

(* A filter changes, or the page is turned; the effect asks again. *)
ChangeQuery(q) ==
    /\ q # query /\ CanAsk(1)
    /\ query' = q
    /\ fetches' = AskedAgain(q, 1)
    /\ UNCHANGED <<stored, copies, shown, upload, stale>>

(* The Sync button, disabled while something loads. *)
Sync ==
    /\ fetches = <<>>
    /\ fetches' = AskedAgain(query, 1)
    /\ UNCHANGED <<stored, copies, query, shown, upload, stale>>

(* LogsService.findAll at some time of the request. *)
Matching(q) == IF q = "open" THEN stored ELSE stored \cap Narrow

Answer(i) ==
    /\ fetches[i].phase = "sent"
    /\ \/ fetches' = [fetches EXCEPT ![i] = [@ EXCEPT !.phase = "done",
                                                      !.rows = Matching(fetches[i].query)]]
       \/ fetches' = [fetches EXCEPT ![i].phase = "failed"]
    /\ UNCHANGED <<stored, copies, query, shown, upload, stale>>

(* getSynchronizedLogs: the copies, before the demo data. *)
SynchronizedLogs(q) == IF q = "open" THEN copies ELSE copies \cap Narrow

(* What the table shows of an answer: without one, the copies that match   *)
(* and the demo data; on a first page without search, severity and source  *)
(* all copies there are now, whose ids are never those of the rows, and    *)
(* the rows.  Of these a page shows the first, the copies before the rows, *)
(* as Displayed and Slice of LogFilters have it.                           *)
Displayed(r) ==
    CASE r.phase = "failed" -> SynchronizedLogs(r.query) \X {"copy"}
      [] r.phase = "done" /\ r.query = "narrowed" -> r.rows \X {"row"}
      [] OTHER -> (r.rows \X {"row"}) \cup (copies \X {"copy"})

(* fetchLogs takes the answer, whichever fetch it is of. *)
Land(i) ==
    /\ fetches[i].phase # "sent"
    /\ shown' = [query |-> fetches[i].query, rows |-> Displayed(fetches[i]),
                 demo |-> fetches[i].phase = "failed"]
    /\ stale' = fetches[i].late
    /\ fetches' = [j \in 1..(i - 1) |-> [fetches[j] EXCEPT !.late = TRUE]]
                  \o SubSeq(fetches, i + 1, Len(fetches))
    /\ UNCHANGED <<stored, copies, query, upload>>

-------------------------------------------------------------------------------
(* Uploads *)

(* The dialog's forms: one log, or a list of them. *)
Submit(list) ==
    /\ upload = NoUpload
    /\ upload' = [list |-> list, sent |-> 0]
    /\ UNCHANGED <<stored, copies, query, fetches, shown, stale>>

(* A chunk is stored and answered; the next one is sent. *)
ChunkStored ==
    /\ upload.sent < Len(upload.list)
    /\ stored' = stored \cup {upload.list[upload.sent + 1]}
    /\ upload' = [upload EXCEPT !.sent = @ + 1]
    /\ UNCHANGED <<copies, query, fetches, shown, stale>>

(* The copies change without an event, and the page does not ask again. *)
IngestUnheard ==
    /\ upload # NoUpload
    /\ copies' = copies \cup {upload.list[i] : i \in DOMAIN upload.list}
    /\ upload' = NoUpload
    /\ UNCHANGED <<stored, query, fetches, shown, stale>>

(* When all chunks are sent or one has failed, the whole list is copied,   *)
(* unless the storage refuses, and announced as ingested.  The event of    *)
(* the storage and onSuccess each make the page ask again.                 *)
Ingest ==
    /\ upload # NoUpload
    /\ \E failed \in SUBSET {upload.list[i] : i \in {upload.sent + 1} \cap DOMAIN upload.list} :
           stored' = stored \cup failed
    /\ \/ /\ CanAsk(2) /\ fetches' = AskedAgain(query, 2)
          /\ copies' = copies \cup {upload.list[i] : i \in DOMAIN upload.list}
       \/ /\ CanAsk(1) /\ fetches' = AskedAgain(query, 1)
          /\ UNCHANGED copies
    /\ upload' = NoUpload
    /\ UNCHANGED <<query, shown, stale>>

(* Another tab uploads, of which this one gets the event; others send logs. *)
OtherTab(l) ==
    /\ l \notin copies /\ CanAsk(1)
    /\ copies' = copies \cup {l}
    /\ fetches' = AskedAgain(query, 1)
    /\ UNCHANGED <<stored, query, shown, upload, stale>>

Arrive(l) ==
    /\ l \notin stored
    /\ stored' = stored \cup {l}
    /\ UNCHANGED <<copies, query, fetches, shown, upload, stale>>

Lists == {list \in UNION {[1..n -> Log] : n \in 1..2} : \A i, j \in DOMAIN list : list[i] = list[j] => i = j}

Next ==
    \/ \E q \in Query : ChangeQuery(q)
    \/ Sync \/ ChunkStored \/ Ingest
    \/ \E i \in DOMAIN fetches : Answer(i) \/ Land(i)
    \/ \E list \in Lists : Submit(list)
    \/ \E l \in Log : OtherTab(l) \/ Arrive(l)

Spec == Init /\ [][Next]_vars

-------------------------------------------------------------------------------
(* Properties *)

(* Answers that come out of order, uploads and other tabs (logs/page.tsx): *)
(* a page at rest whose last answer was not overtaken shows what it is set *)
(* to show, cut from a list with the copies there are by now.              *)
QuietShowsQuery ==
    fetches = <<>> /\ ~stale =>
        /\ shown.query = query
        /\ shown.demo \/ query # "narrowed" =>
              SynchronizedLogs(query) \X {"copy"} \subseteq shown.rows

===============================================================================
