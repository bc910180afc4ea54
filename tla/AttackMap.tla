------------------------------ MODULE AttackMap ------------------------------
(***************************************************************************)
(* The map of attacks: dashboard.service.ts getGeoAttacks, which reads the *)
(* logs several times for one answer, geo-map/page.tsx, which asks for it  *)
(* through hooks/use-api.ts, and the map and side panel below the page.    *)
(* The panel filters the origins in an effect that runs after the render,  *)
(* and hands them up to the page, which hands them down to the map.        *)
(***************************************************************************)
EXTENDS Naturals, FiniteSets, Sequences, SequencesExt

CONSTANTS
    Log,            \* logs with coordinates of the last 30 days
    IpOf, CountryOf,
    Critical,       \* Critical \subseteq Log
    OriginLimit, CountryLimit,
    Demo,           \* the origins of the mock data
    Search,         \* sets of origins that a search and a severity select
    MaxAsked        \* bound: requests of the page under way at a time

NoFilter == {"none"}   \* no text and no severity; null at the page
NoData == [phase |-> "none"]

VARIABLES
    stored,     \* the logs of the backend
    asked,      \* requests of the page under way, in the order they were sent
    data,       \* the answer shown, or NoData
    isLoading,
    filter,     \* the side panel's search text and severity
    filtered,   \* filteredOrigins of the page
    due         \* the panel's effect is still to run

vars == <<stored, asked, data, isLoading, filter, filtered, due>>

Sent == [phase |-> "origins", origins |-> {}, countries |-> {}, total |-> 0, critical |-> 0]

Answers ==
    [phase : {"origins", "countries", "summary", "done"}, origins : SUBSET Log,
     countries : SUBSET {CountryOf[l] : l \in Log},
     total : 0..Cardinality(Log), critical : 0..Cardinality(Critical)]

MapTypeOK ==
    /\ stored \subseteq Log
    /\ asked \in Seq(Answers) /\ Len(asked) <= MaxAsked
    /\ data \in Answers \cup {NoData}
    /\ isLoading \in BOOLEAN /\ due \in BOOLEAN
    /\ filter \in Search \cup {NoFilter}
    /\ filtered \in {NoFilter} \cup SUBSET (Log \cup Demo)

Init ==
    /\ stored \in SUBSET Log
    /\ asked = <<Sent>> /\ data = NoData /\ isLoading = TRUE
    /\ filter = NoFilter /\ filtered = NoFilter /\ due = FALSE

-------------------------------------------------------------------------------
(* getGeoAttacks: every aggregate reads the logs of its own moment.        *)

page == <<data, isLoading, filter, filtered, due>>

(* $sort by a count, $limit: k of the keys, and none left out counts more. *)
Top(key, k) ==
    LET keys == {key[l] : l \in stored}
        count(x) == Cardinality({l \in stored : key[l] = x})
    IN  {T \in SUBSET keys :
            /\ Cardinality(T) = IF Cardinality(keys) < k THEN Cardinality(keys) ELSE k
            /\ \A x \in T, y \in keys \ T : count(x) >= count(y)}

(* An origin is described by the first log of its address, in no order. *)
Origins(ips) ==
    {R \in SUBSET stored : /\ {IpOf[l] : l \in R} = ips
                           /\ Cardinality(R) = Cardinality(ips)}

ReadOrigins(i) ==
    /\ asked[i].phase = "origins"
    /\ \E ips \in Top(IpOf, OriginLimit) : \E R \in Origins(ips) :
          asked' = [asked EXCEPT ![i] = [@ EXCEPT !.phase = "countries", !.origins = R]]
    /\ UNCHANGED <<stored, page>>

ReadCountries(i) ==
    /\ asked[i].phase = "countries"
    /\ \E T \in Top(CountryOf, CountryLimit) :
          asked' = [asked EXCEPT ![i] = [@ EXCEPT !.phase = "summary", !.countries = T]]
    /\ UNCHANGED <<stored, page>>

(* The number of addresses, of CRITICAL logs, and the port, in Promise.all. *)
ReadSummary(i) ==
    /\ asked[i].phase = "summary"
    /\ asked' = [asked EXCEPT ![i] =
                    [@ EXCEPT !.phase = "done",
                              !.total = Cardinality({IpOf[l] : l \in stored}),
                              !.critical = Cardinality(stored \cap Critical)]]
    /\ UNCHANGED <<stored, page>>

Ingest(l) ==
    /\ l \notin stored
    /\ stored' = stored \cup {l}
    /\ UNCHANGED <<asked, page>>

-------------------------------------------------------------------------------
(* The page: the panel exists while there are origins and nothing loads.   *)

OriginsOf(d) == IF d = NoData THEN Demo ELSE d.origins
HasOrigins(d) == OriginsOf(d) # {}
Open == ~isLoading /\ HasOrigins(data)

(* The button is disabled for 700 ms, not until the answer is there; the   *)
(* skeleton replaces map and panel, and with them their state.             *)
HandleRefresh ==
    /\ Len(asked) < MaxAsked
    /\ asked' = Append(asked, Sent)
    /\ isLoading' = TRUE
    /\ filter' = NoFilter /\ due' = FALSE
    /\ UNCHANGED <<stored, data, filtered>>

(* What a render with the answer d does: a panel that comes into being is  *)
(* empty and its effect runs, one that was there has an effect to run if   *)
(* the origins are others, one without origins goes.                       *)
Render(d) ==
    /\ isLoading' = FALSE
    /\ filter' = IF Open /\ HasOrigins(d) THEN filter ELSE NoFilter
    /\ due' = (HasOrigins(d) /\ (due \/ ~Open \/ d # data))

(* fetchData takes the answers in the order they come. *)
Land(i) ==
    /\ asked[i].phase = "done"
    /\ data' = asked[i] /\ Render(asked[i])
    /\ asked' = RemoveAt(asked, i)
    /\ UNCHANGED <<stored, filtered>>

(* There is no fallback: what was shown stays, the first time mock data. *)
Fail(i) ==
    /\ asked' = RemoveAt(asked, i)
    /\ Render(data)
    /\ UNCHANGED <<stored, data, filtered>>

(* The search box and the list of severities; collapsing the panel keeps them. *)
Choose(s) ==
    /\ Open /\ s # filter
    /\ filter' = s /\ due' = TRUE
    /\ UNCHANGED <<stored, asked, data, isLoading, filtered>>

(* The effect of the panel, and handleFilterChange of the page. *)
OnFilterChange ==
    /\ due
    /\ due' = FALSE
    /\ filtered' = IF filter = NoFilter THEN NoFilter ELSE OriginsOf(data) \cap filter
    /\ UNCHANGED <<stored, asked, data, isLoading, filter>>

Next ==
    \/ HandleRefresh \/ OnFilterChange
    \/ \E i \in 1..Len(asked) : \/ ReadOrigins(i) \/ ReadCountries(i) \/ ReadSummary(i)
                                \/ Land(i) \/ Fail(i)
    \/ \E s \in Search \cup {NoFilter} : Choose(s)
    \/ \E l \in Log : Ingest(l)

Spec == Init /\ [][Next]_vars

-------------------------------------------------------------------------------
(* What is shown *)

Markers == IF filtered = NoFilter THEN OriginsOf(data) ELSE filtered
Listed == data.countries   \* the leaderboard of the panel
Selected == IF filter = NoFilter THEN OriginsOf(data) ELSE OriginsOf(data) \cap filter

(* Whatever loads, fails and overtakes while a filter is set: once the     *)
(* panel's effect has run, the map shows those origins of the answer shown *)
(* that the panel selects, and never those of an earlier answer or of a    *)
(* panel that is gone (geo-map/page.tsx, GeoSidePanel.tsx).                *)
MarkersFitPanel == Open /\ ~due => Markers = Selected

(* Logs come in between the aggregates of one answer: still its numbers    *)
(* cover its map, and every marker lies in a country of the list, unless   *)
(* the list is cut off (dashboard.service.ts getGeoAttacks).               *)
NumbersCoverMap ==
    data # NoData =>
        /\ Cardinality(data.origins) <= data.total
        /\ Cardinality(data.origins \cap Critical) <= data.critical
        /\ Cardinality(Listed) < CountryLimit =>
              \A l \in data.origins : CountryOf[l] \in Listed

===============================================================================
