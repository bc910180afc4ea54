--------------------------- MODULE ReportStoreProofs ---------------------------
(***************************************************************************)
(* Theorems about ReportStore, for every set of reports and every number   *)
(* of requests served side by side.                                        *)
(***************************************************************************)
EXTENDS ReportStore, TLAPS

(* What a request record is, by its phase. *)
LEMMA RequestFields ==
    ASSUME NEW x \in Requests
    PROVE  /\ x.phase \in {"unlink", "delete"} =>
                 x.report \in Report /\ x = Removing(x.report, x.phase)
           /\ x.phase \in {"check", "open"} =>
                 /\ x.report \in Report /\ x.part \in Part
                 /\ x = Reading(x.report, x.part, x.phase)
           /\ x.phase = "stream" => x.report \in Report
           /\ x.phase = "idle" <=> x = Idle
  BY DEF Requests, Idle, Removing, Reading

(* The records the handlers build are requests. *)
LEMMA RequestForms ==
    ASSUME NEW r \in Report, NEW p \in Part, NEW c \in Content
    PROVE  /\ Idle \in Requests
           /\ Removing(r, "unlink") \in Requests /\ Removing(r, "delete") \in Requests
           /\ Reading(r, p, "check") \in Requests /\ Reading(r, p, "open") \in Requests
           /\ Streaming(r, p, c) \in Requests
  BY DEF Requests, Idle, Removing, Reading, Streaming

(* The steps of the system, one name for each group of handlers. *)
LEMMA TypeNext == TypeOK /\ [Next]_vars => TypeOK'
<1> SUFFICES ASSUME TypeOK, [Next]_vars PROVE TypeOK'
  OBVIOUS
<1> USE DEF TypeOK
<1>1. ASSUME NEW r \in Report, Generate(r) PROVE TypeOK'
  BY <1>1 DEF Generate, InProgress, Writing
<1>2. ASSUME NEW r \in Report, Write(r) PROVE TypeOK'
  BY <1>2 DEF Write, PartOf, Part, Content
<1>3. ASSUME NEW r \in Report, FinishMain(r) PROVE TypeOK'
  BY <1>3 DEF FinishMain, Part, Content, InProgress, Writing
<1>4. ASSUME NEW r \in Report, FinishCompanion(r) PROVE TypeOK'
  BY <1>4 DEF FinishCompanion, Part, Content, InProgress
<1>5. ASSUME NEW r \in Report, FailWriting(r) PROVE TypeOK'
  BY <1>5 DEF FailWriting, Blame
<1>6. ASSUME NEW r \in Report, Persist(r) PROVE TypeOK'
  BY <1>6 DEF Persist, Blame
<1>7. ASSUME NEW q \in Request, NEW r \in Report, Remove(q, r) PROVE TypeOK'
  BY <1>7, RequestForms DEF Remove, Part, Content
<1>8. ASSUME NEW q \in Request, NEW S \in SUBSET Part, Unlink(q, S) PROVE TypeOK'
  <2> DEFINE r == req[q].report
  <2>1. r \in Report
    BY <1>8, RequestFields DEF Unlink
  <2>2. file' \in [Report -> [Part -> Content]]
    BY <1>8, <2>1 DEF Unlink, Content
  <2>3. req' \in [Request -> Requests]
    BY <1>8, <2>1, RequestForms DEF Unlink, Part, Content
  <2>4. /\ gen' = gen /\ row' = row /\ removals' = removals
        /\ begun' \in [Report -> BOOLEAN]
    BY <1>8, <2>1 DEF Unlink
  <2>5. cause' \in [Report -> SUBSET {"generation", "crash", "unlink"}]
    BY <1>8, <2>1 DEF Unlink, Blame
  <2> QED BY <2>2, <2>3, <2>4, <2>5
<1>9. ASSUME NEW q \in Request, DeleteRow(q) PROVE TypeOK'
  <2>1. req[q].report \in Report
    BY <1>9, RequestFields DEF DeleteRow
  <2>2. req' \in [Request -> Requests]
    BY <1>9 DEF DeleteRow, Requests
  <2>3. row' \in [Report -> BOOLEAN] /\ removals' \in [Report -> Nat]
    <3>1. [removals EXCEPT ![req[q].report] = @ + 1] \in [Report -> Nat]
      BY <2>1
    <3>2. [row EXCEPT ![req[q].report] = FALSE] \in [Report -> BOOLEAN]
      BY <2>1
    <3>3. row' \in {row, [row EXCEPT ![req[q].report] = FALSE]}
      BY <1>9 DEF DeleteRow
    <3>4. removals' \in {removals, [removals EXCEPT ![req[q].report] = @ + 1]}
      BY <1>9 DEF DeleteRow
    <3> QED BY <3>1, <3>2, <3>3, <3>4
  <2> QED BY <1>9, <2>2, <2>3 DEF DeleteRow
<1>10. ASSUME NEW q \in Request, NEW r \in Report, NEW p \in Part, Read(q, r, p) PROVE TypeOK'
  BY <1>10, RequestForms DEF Read, Content
<1>11. ASSUME NEW q \in Request, Check(q) PROVE TypeOK'
  <2>1. req[q].report \in Report /\ req[q].part \in Part
    BY <1>11, RequestFields DEF Check
  <2> QED BY <1>11, <2>1, RequestForms DEF Check, Content
<1>12. ASSUME Die PROVE TypeOK'
  BY <1>12 DEF Die, Requests
<1>13. ASSUME NEW q \in Request, Open(q) PROVE TypeOK'
  <2>1. req[q].report \in Report /\ req[q].part \in Part
    BY <1>13, RequestFields DEF Open
  <2>2. CASE Die
    BY <2>2, <1>12
  <2>3. CASE ~Die
    BY <1>13, <2>1, <2>3, RequestForms DEF Open
  <2> QED BY <2>2, <2>3
<1>14. ASSUME NEW q \in Request, Answer(q) PROVE TypeOK'
  BY <1>14 DEF Answer, Requests
<1>15. CASE UNCHANGED vars
  BY <1>15 DEF vars
<1> QED
  BY <1>1, <1>2, <1>3, <1>4, <1>5, <1>6, <1>7, <1>8, <1>9, <1>10, <1>11, <1>12, <1>13, <1>14, <1>15
     DEF Next

(* Type correctness: a generation is at one of its phases, and a slot holds *)
(* a removal, a read or nothing.                                           *)
THEOREM TypeCorrect == Spec => []TypeOK
<1>1. Init => TypeOK
  BY DEF Init, TypeOK, Content, Requests
<1> QED BY <1>1, TypeNext, PTL DEF Spec

-------------------------------------------------------------------------------
(* Generation: a report it works on is not listed, hence in no request.    *)
LEMMA GenerationKeepsInv ==
    ASSUME ReportInv, TypeOK', NEW r \in Report,
           Generate(r) \/ Write(r) \/ FinishMain(r) \/ FinishCompanion(r) \/ FailWriting(r) \/ Persist(r)
    PROVE  ReportInv'
<1> USE DEF ReportInv, Listed
<1>1. /\ gen[r] # "ended" /\ ~row[r] /\ ~begun[r]
      /\ req' = req /\ begun' = begun /\ removals' = removals
      /\ \A x \in Report \ {r} : /\ gen'[x] = gen[x] /\ file'[x] = file[x]
                                 /\ row'[x] = row[x] /\ cause'[x] = cause[x]
  BY DEF TypeOK, ListedHasEnded, Generate, Write, FinishMain, FinishCompanion, FailWriting, Persist,
         Writing, InProgress, Blame
<1>2. \A q \in Request : req[q] # Idle => req[q].report \in Report \ {r}
  BY <1>1, RequestFields DEF TypeOK, RequestsAreListed, Requests
<1>3. RequestsAreListed'
  BY <1>1, <1>2 DEF RequestsAreListed
<1>4. ServedIsWhole'
  BY <1>1 DEF ServedIsWhole
<1>5. CASE Generate(r)
  <2>1. ListedHasEnded' /\ ListedIsWhole' /\ OrphansHaveCause'
    BY <1>1, <1>5 DEF Generate, TypeOK, ListedHasEnded, ListedIsWhole, OrphansHaveCause, InProgress, Writing
  <2> QED BY <1>3, <1>4, <2>1
<1>6. CASE Write(r)
  <2>1. ListedHasEnded' /\ ListedIsWhole' /\ OrphansHaveCause'
    BY <1>1, <1>6 DEF Write, PartOf, Part, TypeOK, ListedHasEnded, ListedIsWhole, OrphansHaveCause,
                      InProgress, Writing
  <2> QED BY <1>3, <1>4, <2>1
<1>7. CASE FinishMain(r)
  <2>1. ListedHasEnded' /\ ListedIsWhole' /\ OrphansHaveCause'
    BY <1>1, <1>7 DEF FinishMain, Part, TypeOK, ListedHasEnded, ListedIsWhole, OrphansHaveCause,
                      InProgress, Writing
  <2> QED BY <1>3, <1>4, <2>1
<1>8. CASE FinishCompanion(r)
  <2>1. ListedHasEnded' /\ ListedIsWhole' /\ OrphansHaveCause'
    BY <1>1, <1>8 DEF FinishCompanion, Part, TypeOK, ListedHasEnded, ListedIsWhole, OrphansHaveCause,
                      InProgress, Writing
  <2> QED BY <1>3, <1>4, <2>1
<1>9. CASE FailWriting(r)
  <2>1. cause'[r] # {}
    BY <1>9 DEF FailWriting, Blame, TypeOK
  <2>2. ListedHasEnded' /\ ListedIsWhole' /\ OrphansHaveCause'
    BY <1>1, <1>9, <2>1 DEF FailWriting, TypeOK, ListedHasEnded, ListedIsWhole, OrphansHaveCause,
                            InProgress, Writing
  <2> QED BY <1>3, <1>4, <2>2
<1>10. CASE Persist(r)
  <2>1. row'[r] \/ cause'[r] # {}
    BY <1>10 DEF Persist, Blame, TypeOK
  <2>2. \A p \in Part : file'[r][p] = "whole"
    BY <1>10 DEF Persist, Part, ListedHasEnded
  <2>3. gen'[r] = "ended" /\ removals[r] = 0
    BY <1>1, <1>10 DEF Persist, TypeOK, ListedHasEnded
  <2>4. ListedHasEnded'
    BY <1>1, <2>2, <2>3 DEF ListedHasEnded
  <2>5. ListedIsWhole'
    BY <1>1, <2>2 DEF ListedIsWhole
  <2>6. OrphansHaveCause'
    BY <1>1, <1>10, <2>1 DEF OrphansHaveCause, Persist
  <2> QED BY <1>3, <1>4, <2>4, <2>5, <2>6
<1> QED BY <1>5, <1>6, <1>7, <1>8, <1>9, <1>10

(* A request that found the row: the report is listed. *)
LEMMA AcceptedKeepsInv ==
    ASSUME ReportInv, TypeOK', NEW q \in Request, NEW r \in Report, NEW p \in Part,
           Remove(q, r) \/ Read(q, r, p)
    PROVE  ReportInv'
<1>1. /\ row[r]
      /\ req' = [req EXCEPT ![q] = Removing(r, "unlink")]
         \/ req' = [req EXCEPT ![q] = Reading(r, p, "check")]
      /\ UNCHANGED <<gen, file, row, removals, begun, cause>>
  BY DEF Remove, Read
<1>2. req'[q].report = r /\ req'[q].phase \notin {"delete", "stream"}
  BY <1>1 DEF ReportInv, TypeOK, Removing, Reading
<1>3. \A x \in Request \ {q} : req'[x] = req[x]
  BY <1>1 DEF ReportInv, TypeOK
<1>4. ListedHasEnded' /\ ListedIsWhole' /\ OrphansHaveCause'
  BY <1>1 DEF ReportInv, ListedHasEnded, Listed, ListedIsWhole, OrphansHaveCause
<1>5. RequestsAreListed'
  BY <1>1, <1>2, <1>3 DEF ReportInv, RequestsAreListed, Listed
<1>6. ServedIsWhole'
  BY <1>2, <1>3 DEF ReportInv, ServedIsWhole
<1> QED BY <1>4, <1>5, <1>6 DEF ReportInv

(* Unlinking leaves only what it blames; every other removal of the report *)
(* that is about to delete the row finds no more files than before.        *)
LEMMA UnlinkKeepsInv ==
    ASSUME ReportInv, TypeOK', NEW q \in Request, NEW S \in SUBSET Part, Unlink(q, S)
    PROVE  ReportInv'
<1> DEFINE r == req[q].report
<1>1. r \in Report /\ req[q] # Idle
  BY RequestFields DEF Unlink, ReportInv, TypeOK, Idle
<1>2. Listed(r)
  BY <1>1 DEF ReportInv, RequestsAreListed
<1>3. /\ gen' = gen /\ row' = row /\ removals' = removals
      /\ begun'[r] /\ \A x \in Report \ {r} : begun'[x] = begun[x]
      /\ \A p \in Part : file'[r][p] = IF p \in S THEN file[r][p] ELSE "none"
      /\ \A x \in Report \ {r} : file'[x] = file[x] /\ cause'[x] = cause[x]
  BY <1>1 DEF Unlink, Blame, ReportInv, TypeOK
<1>4. cause[r] \subseteq cause'[r] /\ (S = {} \/ cause'[r] # {})
  <2>1. CASE S = {}
    BY <1>1, <2>1 DEF Unlink
  <2>2. CASE S # {}
    <3>1. cause' = [cause EXCEPT ![r] = @ \cup {"unlink"}]
      BY <2>2 DEF Unlink, Blame
    <3> QED BY <1>1, <3>1 DEF ReportInv, TypeOK
  <2> QED BY <2>1, <2>2
<1>5. /\ req'[q] = Removing(r, "delete")
      /\ \A x \in Request \ {q} : req'[x] = req[x]
  BY <1>1 DEF Unlink, ReportInv, TypeOK
<1>6. ListedHasEnded'
  BY <1>1, <1>2, <1>3 DEF ReportInv, ListedHasEnded, Listed
<1>7. ListedIsWhole'
  BY <1>1, <1>3 DEF ReportInv, ListedIsWhole
<1>8. OrphansHaveCause'
  BY <1>1, <1>3, <1>4 DEF ReportInv, OrphansHaveCause
<1>9. ServedIsWhole'
  BY <1>5 DEF ReportInv, ServedIsWhole, Removing
<1>10. RequestsAreListed'
  <2> SUFFICES ASSUME NEW x \in Request, req'[x] # Idle
               PROVE  /\ row'[req'[x].report] \/ begun'[req'[x].report]
                      /\ req'[x].phase = "delete" =>
                            /\ begun'[req'[x].report]
                            /\ cause'[req'[x].report] # {}
                               \/ \A p \in Part : file'[req'[x].report][p] = "none"
    BY DEF RequestsAreListed, Listed
  <2>1. CASE x = q
    BY <1>1, <1>3, <1>4, <1>5, <2>1 DEF Removing, Listed
  <2>2. CASE x # q /\ req[x].report = r
    BY <1>1, <1>3, <1>4, <1>5, <2>2 DEF Listed, ReportInv, RequestsAreListed
  <2>3. CASE x # q /\ req[x].report # r
    <3>1. req[x].report \in Report
      BY <1>5, <2>3 DEF ReportInv, TypeOK, Requests, Idle
    <3> QED BY <1>1, <1>3, <1>5, <2>3, <3>1 DEF Listed, ReportInv, RequestsAreListed
  <2> QED BY <2>1, <2>2, <2>3
<1> QED BY <1>6, <1>7, <1>8, <1>9, <1>10 DEF ReportInv

(* The removal that deletes the row has unlinked the files or blamed them. *)
LEMMA DeleteRowKeepsInv ==
    ASSUME ReportInv, TypeOK', NEW q \in Request, DeleteRow(q)
    PROVE  ReportInv'
<1> DEFINE r == req[q].report
<1>1. r \in Report /\ req[q] # Idle
  BY RequestFields DEF DeleteRow, ReportInv, TypeOK, Idle
<1>2. begun[r] /\ (cause[r] # {} \/ \A p \in Part : file[r][p] = "none")
  BY <1>1 DEF DeleteRow, ReportInv, RequestsAreListed
<1>3. /\ UNCHANGED <<gen, file, begun, cause>>
      /\ \A x \in Report \ {r} : row'[x] = row[x] /\ removals'[x] = removals[x]
      /\ \/ row'[r] = row[r] /\ removals'[r] = removals[r]
         \/ row[r] /\ ~row'[r] /\ removals'[r] \in {removals[r], removals[r] + 1}
  BY <1>1 DEF DeleteRow, ReportInv, TypeOK
<1>4. removals[r] \in Nat /\ (row[r] => removals[r] = 0)
  BY <1>1 DEF ReportInv, TypeOK, ListedHasEnded
<1>5. /\ req'[q] = Idle
      /\ \A x \in Request \ {q} : req'[x] = req[x]
  BY DEF DeleteRow, ReportInv, TypeOK
<1>6. ListedHasEnded'
  BY <1>1, <1>2, <1>3, <1>4 DEF ReportInv, ListedHasEnded, Listed
<1>7. ListedIsWhole'
  BY <1>1, <1>2, <1>3 DEF ReportInv, ListedIsWhole
<1>8. OrphansHaveCause'
  BY <1>1, <1>2, <1>3 DEF ReportInv, OrphansHaveCause
<1>9. ServedIsWhole'
  BY <1>5 DEF ReportInv, ServedIsWhole, Idle
<1>10. \A x \in Request : req[x] # Idle => req[x].report \in Report
  BY DEF ReportInv, TypeOK, Requests, Idle
<1>11. RequestsAreListed'
  BY <1>1, <1>2, <1>3, <1>5, <1>10 DEF ReportInv, RequestsAreListed, Listed
<1> QED BY <1>6, <1>7, <1>8, <1>9, <1>11 DEF ReportInv

(* A request goes on, ends, or opens what is there. *)
LEMMA ReadingKeepsInv ==
    ASSUME ReportInv, TypeOK', NEW q \in Request,
           Check(q) \/ (Open(q) /\ ~Die) \/ Answer(q)
    PROVE  ReportInv'
<1> DEFINE r == req[q].report
           p == req[q].part
<1>1. UNCHANGED <<gen, file, row, removals, begun, cause>>
  BY DEF Check, Open, Answer
<1>2. req[q] # Idle
  BY DEF Check, Open, Answer, Idle
<1>3. \A x \in Request \ {q} : req'[x] = req[x]
  BY DEF Check, Open, Answer, ReportInv, TypeOK
<1>4. \/ req'[q] = Idle
      \/ req'[q].report = r /\ req'[q].phase = "open"
      \/ req'[q].report = r /\ req'[q].phase = "stream" /\ req'[q].content = "whole"
  <2>1. CASE Check(q)
    BY <2>1 DEF Check, Reading, ReportInv, TypeOK
  <2>2. CASE Open(q) /\ ~Die
    <3>1. r \in Report /\ p \in Part
      BY <2>2, RequestFields DEF Open, ReportInv, TypeOK
    <3>2. file[r][p] \in {"none", "whole"}
      BY <1>2, <3>1 DEF ReportInv, TypeOK, Content, RequestsAreListed, ListedHasEnded
    <3> QED BY <2>2, <3>2 DEF Open, Streaming, ReportInv, TypeOK
  <2>3. CASE Answer(q)
    BY <2>3 DEF Answer, ReportInv, TypeOK
  <2> QED BY <2>1, <2>2, <2>3
<1>5. ListedHasEnded' /\ ListedIsWhole' /\ OrphansHaveCause'
  BY <1>1 DEF ReportInv, ListedHasEnded, Listed, ListedIsWhole, OrphansHaveCause
<1>6. RequestsAreListed'
  BY <1>1, <1>2, <1>3, <1>4 DEF ReportInv, RequestsAreListed, Listed
<1>7. ServedIsWhole'
  BY <1>3, <1>4 DEF ReportInv, ServedIsWhole, Idle
<1> QED BY <1>5, <1>6, <1>7 DEF ReportInv

(* A crash ends every request and blames what generations leave. *)
LEMMA DieKeepsInv == ASSUME ReportInv, TypeOK', Die PROVE ReportInv'
<1>1. /\ UNCHANGED <<file, row, removals, begun>>
      /\ \A q \in Request : req'[q] = Idle
      /\ \A r \in Report : /\ gen'[r] = IF gen[r] \in InProgress THEN "ended" ELSE gen[r]
                           /\ cause[r] \subseteq cause'[r]
                           /\ gen[r] \in InProgress => cause'[r] # {}
  BY DEF Die
<1>2. ListedHasEnded'
  BY <1>1 DEF ReportInv, ListedHasEnded, Listed, InProgress, Writing
<1>3. OrphansHaveCause'
  BY <1>1 DEF ReportInv, OrphansHaveCause, InProgress, Writing
<1>4. ListedIsWhole' /\ RequestsAreListed' /\ ServedIsWhole'
  BY <1>1 DEF ReportInv, ListedIsWhole, RequestsAreListed, ServedIsWhole, Idle
<1> QED BY <1>2, <1>3, <1>4 DEF ReportInv

LEMMA InvNext == ReportInv /\ [Next]_vars => ReportInv'
<1> SUFFICES ASSUME ReportInv, [Next]_vars PROVE ReportInv'
  OBVIOUS
<1>1. TypeOK'
  BY TypeNext DEF ReportInv
<1>2. ASSUME NEW q \in Request, Open(q) PROVE ReportInv'
  <2>1. CASE Die
    BY <1>1, <2>1, DieKeepsInv
  <2>2. CASE ~Die
    BY <1>1, <1>2, <2>2, ReadingKeepsInv
  <2> QED BY <2>1, <2>2
<1>3. CASE UNCHANGED vars
  BY <1>3 DEF vars, ReportInv, TypeOK, ListedHasEnded, RequestsAreListed, Listed,
              ListedIsWhole, ServedIsWhole, OrphansHaveCause
<1>4. ASSUME NEW q \in Request, NEW r \in Report, Remove(q, r) PROVE ReportInv'
  <2>1. "main" \in Part
    BY DEF Part
  <2> QED BY <1>1, <1>4, <2>1, AcceptedKeepsInv
<1> QED
  BY <1>1, <1>2, <1>3, <1>4, GenerationKeepsInv, AcceptedKeepsInv, UnlinkKeepsInv,
     DeleteRowKeepsInv, ReadingKeepsInv, DieKeepsInv DEF Next

(* The invariant holds from the start on. *)
LEMMA InvHolds == Spec => []ReportInv
<1>1. Init => ReportInv
  <2> SUFFICES ASSUME Init PROVE ReportInv
    OBVIOUS
  <2>1. TypeOK
    BY DEF Init, TypeOK, Content, Requests
  <2>2. ListedHasEnded /\ RequestsAreListed /\ ListedIsWhole /\ ServedIsWhole /\ OrphansHaveCause
    BY DEF Init, ListedHasEnded, RequestsAreListed, Listed, ListedIsWhole, ServedIsWhole,
           OrphansHaveCause, Idle
  <2> QED BY <2>1, <2>2 DEF ReportInv
<1> QED BY <1>1, InvNext, PTL DEF Spec

(* The archive lists no report whose file or preview is missing or cut     *)
(* short, but for one that is being removed.                               *)
THEOREM ListedWhole == Spec => []ListedIsWhole
<1>1. ReportInv => ListedIsWhole
  BY DEF ReportInv
<1> QED BY <1>1, InvHolds, PTL

(* Whatever requests interleave, a download or a preview is never partial. *)
THEOREM ServedWhole == Spec => []ServedIsWhole
<1>1. ReportInv => ServedIsWhole
  BY DEF ReportInv
<1> QED BY <1>1, InvHolds, PTL

(* A file without a row stems from a failed generation, a crash or a       *)
(* failed unlink.                                                          *)
THEOREM OrphansAccounted == Spec => []OrphansHaveCause
<1>1. ReportInv => OrphansHaveCause
  BY DEF ReportInv
<1> QED BY <1>1, InvHolds, PTL

(* At most one of any number of concurrent removals succeeds. *)
THEOREM OneRemovalSucceeds == Spec => []RemovedOnce
<1>1. ReportInv => RemovedOnce
  <2> SUFFICES ASSUME ReportInv, NEW r \in Report PROVE removals[r] <= 1
    BY DEF RemovedOnce
  <2>1. removals[r] \in Nat /\ (removals[r] > 0 => removals[r] = 1)
    BY DEF ReportInv, TypeOK, ListedHasEnded
  <2> QED BY <2>1
<1> QED BY <1>1, InvHolds, PTL

-------------------------------------------------------------------------------
(* The refinement of ReportArchive. *)

LEMMA ArchiveInit == Init => Archive!Init
<1> SUFFICES ASSUME Init PROVE Archive!Init
  OBVIOUS
<1>1. ArchiveStage = [r \in Report |-> "absent"]
  BY DEF Init, ArchiveStage
<1>2. Sent = [q \in Request |-> {}]
  BY DEF Init, Sent, Idle
<1> QED BY <1>1, <1>2 DEF Init, Archive!Init

(* A step that leaves the row and what began alone moves no report. *)
LEMMA StageStays == UNCHANGED <<row, begun>> => ArchiveStage' = ArchiveStage
  BY DEF ArchiveStage

(* A slot that neither starts nor ends to send sends what it did. *)
LEMMA SentStays ==
    ASSUME TypeOK, NEW q \in Request, NEW x,
           req' = [req EXCEPT ![q] = x], req[q].phase # "stream", x.phase # "stream"
    PROVE  Sent' = Sent
<1>1. \A s \in Request : req'[s] = IF s = q THEN x ELSE req[s]
  BY DEF TypeOK
<1> QED BY <1>1 DEF Sent

(* Nothing a client sees of the archive changes. *)
LEMMA ArchiveStutter ==
    UNCHANGED <<row, begun, removals>> /\ Sent' = Sent => UNCHANGED Archive!archiveVars
  BY StageStays DEF Archive!archiveVars

(* A report in generation is absent, and listed by its row. *)
LEMMA ArchiveList ==
    ASSUME ReportInv, NEW r \in Report, Persist(r)
    PROVE  [Archive!Next]_Archive!archiveVars
<1>1. ~row[r] /\ ~begun[r] /\ UNCHANGED <<req, removals, begun>>
  BY DEF Persist, ReportInv, TypeOK, ListedHasEnded, Listed
<1>2. Sent' = Sent
  BY <1>1 DEF Sent
<1>3. CASE row' = row
  BY <1>1, <1>2, <1>3, ArchiveStutter
<1>4. CASE row' # row
  <2>1. row' = [row EXCEPT ![r] = TRUE]
    BY <1>4 DEF Persist
  <2>2. \A x \in Report : row'[x] = IF x = r THEN TRUE ELSE row[x]
    BY <2>1 DEF ReportInv, TypeOK
  <2>3. ArchiveStage' = [ArchiveStage EXCEPT ![r] = "listed"]
    BY <1>1, <2>2 DEF ArchiveStage
  <2>4. ArchiveStage[r] = "absent"
    BY <1>1 DEF ArchiveStage
  <2>5. Archive!List(r)
    BY <1>1, <1>2, <2>3, <2>4 DEF Archive!List
  <2> QED BY <2>5 DEF Archive!Next
<1> QED BY <1>3, <1>4

(* The first removal that reaches the files withdraws the report; one that *)
(* comes later, also after the deletion, changes nothing of it.            *)
LEMMA ArchiveWithdraw ==
    ASSUME ReportInv, NEW q \in Request, NEW S \in SUBSET Part, Unlink(q, S)
    PROVE  [Archive!Next]_Archive!archiveVars
<1> DEFINE r == req[q].report
<1>1. r \in Report /\ req[q] # Idle
  BY RequestFields DEF Unlink, ReportInv, TypeOK, Idle
<1>2. row[r] \/ begun[r]
  BY <1>1 DEF ReportInv, RequestsAreListed, Listed
<1>3. row' = row /\ removals' = removals /\ begun' = [begun EXCEPT ![r] = TRUE]
  BY DEF Unlink
<1>4. \A x \in Report : begun'[x] = IF x = r THEN TRUE ELSE begun[x]
  BY <1>3 DEF ReportInv, TypeOK
<1>5. Sent' = Sent
  <2>1. req' = [req EXCEPT ![q] = Removing(r, "delete")] /\ req[q].phase # "stream"
    BY DEF Unlink
  <2>2. Removing(r, "delete").phase # "stream"
    BY DEF Removing
  <2> HIDE DEF r
  <2> QED BY <2>1, <2>2, SentStays DEF ReportInv
<1> HIDE DEF r
<1>6. CASE begun[r]
  <2>1. ArchiveStage' = ArchiveStage
    BY <1>3, <1>4, <1>6 DEF ArchiveStage
  <2> QED BY <1>3, <1>5, <2>1 DEF Archive!archiveVars
<1>7. CASE ~begun[r]
  <2>1. ArchiveStage[r] = "listed"
    BY <1>1, <1>2, <1>7 DEF ArchiveStage
  <2>2. ArchiveStage' = [ArchiveStage EXCEPT ![r] = "withdrawn"]
    BY <1>1, <1>2, <1>3, <1>4, <1>7 DEF ArchiveStage
  <2>3. Archive!Withdraw(r)
    BY <1>3, <1>5, <2>1, <2>2 DEF Archive!Withdraw
  <2> QED BY <1>1, <2>3 DEF Archive!Next
<1> QED BY <1>6, <1>7

(* The removal that finds the row deletes the report, which is withdrawn.  *)
LEMMA ArchiveDelete ==
    ASSUME ReportInv, NEW q \in Request, DeleteRow(q)
    PROVE  [Archive!Next]_Archive!archiveVars
<1> DEFINE r == req[q].report
<1>1. r \in Report /\ req[q] # Idle
  BY RequestFields DEF DeleteRow, ReportInv, TypeOK, Idle
<1>2. begun[r] /\ begun' = begun
  BY <1>1 DEF DeleteRow, ReportInv, RequestsAreListed
<1>3. Sent' = Sent
  <2>1. req' = [req EXCEPT ![q] = Idle] /\ req[q].phase # "stream"
    BY DEF DeleteRow
  <2>2. Idle.phase # "stream"
    BY DEF Idle
  <2> QED BY <2>1, <2>2, SentStays DEF ReportInv
<1>4. CASE UNCHANGED <<row, removals>>
  BY <1>2, <1>3, <1>4, ArchiveStutter
<1>5. CASE ~UNCHANGED <<row, removals>>
  <2>1. /\ row[r]
        /\ row' = [row EXCEPT ![r] = FALSE]
        /\ removals' \in {removals, [removals EXCEPT ![r] = @ + 1]}
    BY <1>5 DEF DeleteRow
  <2> HIDE DEF r
  <2>2. \A x \in Report : row'[x] = IF x = r THEN FALSE ELSE row[x]
    BY <2>1 DEF ReportInv, TypeOK
  <2>3. ArchiveStage[r] = "withdrawn"
    BY <1>1, <1>2, <2>1 DEF ArchiveStage
  <2>4. ArchiveStage' = [ArchiveStage EXCEPT ![r] = "deleted"]
    BY <1>1, <1>2, <2>2 DEF ArchiveStage
  <2>5. Archive!Delete(r)
    BY <1>3, <2>1, <2>3, <2>4 DEF Archive!Delete
  <2> QED BY <1>1, <2>5 DEF Archive!Next
<1> QED BY <1>4, <1>5

(* Every answer that is lost with the process was being sent. *)
LEMMA ArchiveRestart == Die => Archive!Next
<1> SUFFICES ASSUME Die PROVE Archive!Next
  OBVIOUS
<1>1. Sent' = [q \in Request |-> {}]
  BY DEF Die, Sent, Idle
<1>2. ArchiveStage' = ArchiveStage /\ removals' = removals
  BY StageStays DEF Die
<1> QED BY <1>1, <1>2 DEF Archive!Next, Archive!Restart

(* What a read opens is of a report that is or was listed, and whole. *)
LEMMA ArchiveServe ==
    ASSUME ReportInv, ReportInv', NEW q \in Request, Open(q)
    PROVE  [Archive!Next]_Archive!archiveVars
<1> DEFINE r == req[q].report
           p == req[q].part
<1>1. r \in Report /\ p \in Part /\ req[q] # Idle
  BY RequestFields DEF Open, ReportInv, TypeOK, Idle
<1>2. CASE Die
  BY <1>2, ArchiveRestart
<1>3. CASE ~Die
  <2>1. UNCHANGED <<row, begun, removals>> /\ req[q].phase = "open"
    BY <1>3 DEF Open
  <2>2. CASE req' = [req EXCEPT ![q] = Idle]
    <3>1. Idle.phase # "stream"
      BY DEF Idle
    <3>2. Sent' = Sent
      BY <2>1, <2>2, <3>1, SentStays DEF ReportInv
    <3> QED BY <2>1, <3>2, ArchiveStutter
  <2>3. CASE req' = [req EXCEPT ![q] = Streaming(r, p, file[r][p])]
    <3> HIDE DEF r, p
    <3>1. \A s \in Request : req'[s] = IF s = q THEN Streaming(r, p, file[r][p]) ELSE req[s]
      BY <2>3 DEF ReportInv, TypeOK
    <3>2. req'[q].phase = "stream" /\ req'[q].report = r /\ req'[q].content = "whole"
      <4>1. req'[q].phase = "stream" /\ req'[q].report = r
        BY <3>1 DEF Streaming
      <4> QED BY <4>1 DEF ReportInv, ServedIsWhole
    <3>3. Sent' = [Sent EXCEPT ![q] = {<<r, "whole">>}]
      BY <3>1, <3>2 DEF Sent
    <3>4. Sent[q] = {}
      BY <2>1 DEF Sent
    <3>5. ArchiveStage[r] # "absent"
      BY <1>1 DEF ArchiveStage, ReportInv, RequestsAreListed, Listed, r
    <3>6. ArchiveStage' = ArchiveStage
      BY <2>1, StageStays
    <3>7. Archive!Serve(q, r)
      BY <2>1, <3>3, <3>4, <3>5, <3>6 DEF Archive!Serve
    <3> QED BY <1>1, <3>7 DEF Archive!Next
  <2> QED BY <1>3, <2>2, <2>3 DEF Open
<1> QED BY <1>2, <1>3

LEMMA ArchiveFinish ==
    ASSUME TypeOK, NEW q \in Request, Answer(q)
    PROVE  Archive!Next
<1>1. Sent[q] # {}
  BY DEF Answer, Sent
<1>2. \A s \in Request : req'[s] = IF s = q THEN Idle ELSE req[s]
  BY DEF Answer, TypeOK
<1>3. Sent' = [Sent EXCEPT ![q] = {}]
  <2>1. Idle.phase # "stream"
    BY DEF Idle
  <2>2. \A s \in Request : Sent'[s] = IF s = q THEN {} ELSE Sent[s]
    BY <1>2, <2>1 DEF Sent
  <2> QED BY <2>2 DEF Sent
<1>4. ArchiveStage' = ArchiveStage /\ removals' = removals
  BY StageStays DEF Answer
<1>5. Archive!Finish(q)
  BY <1>1, <1>3, <1>4 DEF Archive!Finish
<1> QED BY <1>5 DEF Archive!Next

(* Every step of the store is a step of the archive, or a stutter. *)
LEMMA ArchiveNext == ReportInv /\ ReportInv' /\ [Next]_vars => [Archive!Next]_Archive!archiveVars
<1> SUFFICES ASSUME ReportInv, ReportInv', [Next]_vars
             PROVE  [Archive!Next]_Archive!archiveVars
  OBVIOUS
<1>1. TypeOK
  BY DEF ReportInv
<1>2. ASSUME NEW r \in Report,
             Generate(r) \/ Write(r) \/ FinishMain(r) \/ FinishCompanion(r) \/ FailWriting(r)
      PROVE  UNCHANGED Archive!archiveVars
  <2>1. UNCHANGED <<row, begun, removals>> /\ req' = req
    BY <1>2 DEF Generate, Write, FinishMain, FinishCompanion, FailWriting
  <2>2. Sent' = Sent
    BY <2>1 DEF Sent
  <2> QED BY <2>1, <2>2, ArchiveStutter
<1>3. ASSUME NEW q \in Request, NEW r \in Report, NEW p \in Part, Remove(q, r) \/ Read(q, r, p)
      PROVE  UNCHANGED Archive!archiveVars
  <2>1. UNCHANGED <<row, begun, removals>> /\ req[q] = Idle
    BY <1>3 DEF Remove, Read
  <2>2. PICK x \in {Removing(r, "unlink"), Reading(r, p, "check")} : req' = [req EXCEPT ![q] = x]
    BY <1>3 DEF Remove, Read
  <2>3. req[q].phase # "stream" /\ x.phase # "stream"
    BY <2>1, <2>2 DEF Idle, Removing, Reading
  <2>4. Sent' = Sent
    BY <1>1, <2>2, <2>3, SentStays
  <2> QED BY <2>1, <2>4, ArchiveStutter
<1>4. ASSUME NEW q \in Request, Check(q) PROVE UNCHANGED Archive!archiveVars
  <2>1. UNCHANGED <<row, begun, removals>> /\ req[q].phase # "stream"
    BY <1>4 DEF Check
  <2>2. PICK x \in {Idle, Reading(req[q].report, req[q].part, "open")} : req' = [req EXCEPT ![q] = x]
    BY <1>4 DEF Check
  <2>3. x.phase # "stream"
    BY <2>2 DEF Idle, Reading
  <2>4. Sent' = Sent
    BY <1>1, <2>1, <2>2, <2>3, SentStays
  <2> QED BY <2>1, <2>4, ArchiveStutter
<1>5. CASE UNCHANGED vars
  <2>1. UNCHANGED <<row, begun, removals>> /\ Sent' = Sent
    BY <1>5 DEF vars, Sent
  <2> QED BY <2>1, ArchiveStutter
<1>6. ASSUME NEW q \in Request, NEW r \in Report, Remove(q, r)
      PROVE  UNCHANGED Archive!archiveVars
  <2>1. "main" \in Part
    BY DEF Part
  <2> QED BY <1>3, <1>6, <2>1
<1> QED
  BY <1>1, <1>2, <1>3, <1>4, <1>5, <1>6, ArchiveList, ArchiveWithdraw, ArchiveDelete, ArchiveRestart,
     ArchiveServe, ArchiveFinish DEF Next

(* However generations, removals and reads interleave, fail and die, what  *)
(* clients see of the store is an archive: a report is listed once,        *)
(* goes for good, is sent whole, and one client at most is told it is gone. *)
THEOREM StoreImplementsArchive == Spec => ImplementsArchive
<1>1. ReportInv /\ ReportInv' /\ [Next]_vars => [Archive!Next]_Archive!archiveVars
  BY ArchiveNext
<1> QED BY ArchiveInit, <1>1, InvHolds, PTL DEF Spec, ImplementsArchive, Archive!Spec
===============================================================================
