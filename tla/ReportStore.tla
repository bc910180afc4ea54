------------------------------ MODULE ReportStore ------------------------------
(***************************************************************************)
(* Reports (backend/src/reports/reports.service.ts).  A report is a PDF or *)
(* CSV file, a JSON companion for the preview, and a row in PostgreSQL.    *)
(* Generation writes the files and then the row, removal unlinks the files *)
(* and then deletes the row, and nothing ties the three together: requests *)
(* interleave at their awaits, and the process may die at any of them.     *)
(***************************************************************************)
EXTENDS Naturals

CONSTANTS
    Report,      \* the reports clients ask for, each with its fresh uuid
    Request      \* bound: requests for finished reports served at a time

(* The file of the report's format, and the companion. *)
Part == {"main", "json"}

Content == {"none", "partial", "whole"}

Writing == {"build", "companion"}

InProgress == Writing \cup {"persist"}

VARIABLES
    gen,         \* gen[r]: where generateReport is with r
    file,        \* file[r][p]: what the storage directory holds
    row,         \* row[r]: whether PostgreSQL lists r
    req,         \* req[q]: the request served in slot q
    removals,    \* removals[r]: requests that were told "deleted"
    begun,       \* history: a removal of r has reached the files
    cause        \* history: why files of r may lie about without a row

vars == <<gen, file, row, req, removals, begun, cause>>

Idle == [phase |-> "idle"]
Removing(r, phase) == [phase |-> phase, report |-> r]
Reading(r, p, phase) == [phase |-> phase, report |-> r, part |-> p]
Streaming(r, p, content) == [phase |-> "stream", report |-> r, part |-> p, content |-> content]

Requests ==
    {Idle} \cup [phase : {"unlink", "delete"}, report : Report]
           \cup [phase : {"check", "open"}, report : Report, part : Part]
           \cup [phase : {"stream"}, report : Report, part : Part, content : Content]

TypeOK ==
    /\ gen \in [Report -> {"none", "ended"} \cup InProgress]
    /\ file \in [Report -> [Part -> Content]]
    /\ row \in [Report -> BOOLEAN]
    /\ req \in [Request -> Requests]
    /\ removals \in [Report -> Nat]
    /\ begun \in [Report -> BOOLEAN]
    /\ cause \in [Report -> SUBSET {"generation", "crash", "unlink"}]

Init ==
    /\ gen = [r \in Report |-> "none"]
    /\ file = [r \in Report |-> [p \in Part |-> "none"]]
    /\ row = [r \in Report |-> FALSE]
    /\ req = [q \in Request |-> Idle]
    /\ removals = [r \in Report |-> 0]
    /\ begun = [r \in Report |-> FALSE]
    /\ cause = [r \in Report |-> {}]

-------------------------------------------------------------------------------
(* generateReport *)

(* The aggregation has come back and the name of the files is known. *)
Generate(r) ==
    /\ gen[r] = "none"
    /\ gen' = [gen EXCEPT ![r] = "build"]
    /\ UNCHANGED <<file, row, req, removals, begun, cause>>

PartOf(phase) == IF phase = "build" THEN "main" ELSE "json"

(* The file of this phase is created and fills up. *)
Write(r) ==
    /\ gen[r] \in Writing
    /\ file[r][PartOf(gen[r])] = "none"
    /\ file' = [file EXCEPT ![r][PartOf(gen[r])] = "partial"]
    /\ UNCHANGED <<gen, row, req, removals, begun, cause>>

(* Mutant of FinishMain: the row is created as soon as the report itself   *)
(* can be downloaded, before the companion.                                *)
FinishMainAndList(r) ==
    /\ gen[r] = "build" /\ file[r]["main"] = "partial"
    /\ file' = [file EXCEPT ![r]["main"] = "whole"]
    /\ gen' = [gen EXCEPT ![r] = "companion"]
    /\ row' = [row EXCEPT ![r] = TRUE]
    /\ UNCHANGED <<req, removals, begun, cause>>

(* buildPdfReport or buildCsvReport resolves. *)
FinishMain(r) ==
    /\ gen[r] = "build" /\ file[r]["main"] = "partial"
    /\ file' = [file EXCEPT ![r]["main"] = "whole"]
    /\ gen' = [gen EXCEPT ![r] = "companion"]
    /\ UNCHANGED <<row, req, removals, begun, cause>>

(* The companion is written. *)
FinishCompanion(r) ==
    /\ gen[r] = "companion" /\ file[r]["json"] = "partial"
    /\ file' = [file EXCEPT ![r]["json"] = "whole"]
    /\ gen' = [gen EXCEPT ![r] = "persist"]
    /\ UNCHANGED <<row, req, removals, begun, cause>>

Blame(r, why) == cause' = [cause EXCEPT ![r] = @ \cup {why}]

(* Mutant of FailWriting: the report is kept under the status FAILED. *)
FailWritingAsFailed(r) ==
    /\ gen[r] \in Writing
    /\ gen' = [gen EXCEPT ![r] = "FAILED"]
    /\ Blame(r, "generation")
    /\ UNCHANGED <<file, row, req, removals, begun>>

(* Building or writing a file throws: the catch answers with an error and  *)
(* leaves what was written.                                                *)
FailWriting(r) ==
    /\ gen[r] \in Writing
    /\ gen' = [gen EXCEPT ![r] = "ended"]
    /\ Blame(r, "generation")
    /\ UNCHANGED <<file, row, req, removals, begun>>

(* report.create: the row is there, also when only the answer is lost, or  *)
(* the insert failed and the catch leaves both files.                      *)
Persist(r) ==
    /\ gen[r] = "persist"
    /\ gen' = [gen EXCEPT ![r] = "ended"]
    /\ \/ row' = [row EXCEPT ![r] = TRUE] /\ UNCHANGED cause
       \/ Blame(r, "generation") /\ UNCHANGED row
    /\ UNCHANGED <<file, req, removals, begun>>

-------------------------------------------------------------------------------
(* remove *)

(* Mutant of Remove: the row is deleted before the files. *)
RemoveRowFirst(q, r) ==
    /\ req[q] = Idle
    /\ row[r]
    /\ row' = [row EXCEPT ![r] = FALSE]
    /\ req' = [req EXCEPT ![q] = Removing(r, "unlink")]
    /\ UNCHANGED <<gen, file, removals, begun, cause>>

(* The row is found; without it the answer is 404. *)
Remove(q, r) ==
    /\ req[q] = Idle
    /\ row[r]
    /\ req' = [req EXCEPT ![q] = Removing(r, "unlink")]
    /\ UNCHANGED <<gen, file, row, removals, begun, cause>>

(* Every extension is unlinked without an await in between; those of S     *)
(* fail, which is only warned about.                                       *)
Unlink(q, S) ==
    /\ req[q].phase = "unlink"
    /\ LET r == req[q].report IN
       /\ \A p \in S : file[r][p] # "none"
       /\ file' = [file EXCEPT ![r] = [p \in Part |-> IF p \in S THEN file[r][p] ELSE "none"]]
       /\ begun' = [begun EXCEPT ![r] = TRUE]
       /\ IF S = {} THEN UNCHANGED cause ELSE Blame(r, "unlink")
       /\ req' = [req EXCEPT ![q] = Removing(r, "delete")]
    /\ UNCHANGED <<gen, row, removals>>

(* Mutant of DeleteRow: deleteMany, which accepts that there is no row. *)
DeleteRows(q) ==
    /\ req[q].phase = "delete"
    /\ LET r == req[q].report IN
       /\ row' = [row EXCEPT ![r] = FALSE]
       /\ removals' = [removals EXCEPT ![r] = @ + 1]
    /\ req' = [req EXCEPT ![q] = Idle]
    /\ UNCHANGED <<gen, file, begun, cause>>

(* report.delete throws when another removal was faster; it may also fail  *)
(* with the row still there, or lose its answer with the row deleted.      *)
DeleteRow(q) ==
    /\ req[q].phase = "delete"
    /\ LET r == req[q].report IN
       \/ /\ row[r]
          /\ row' = [row EXCEPT ![r] = FALSE]
          /\ removals' \in {removals, [removals EXCEPT ![r] = @ + 1]}
       \/ UNCHANGED <<row, removals>>
    /\ req' = [req EXCEPT ![q] = Idle]
    /\ UNCHANGED <<gen, file, begun, cause>>

-------------------------------------------------------------------------------
(* getDownloadStream reads the report, findOne the companion. *)

(* Mutant of Read: the files are looked for without asking the database. *)
ReadUnlisted(q, r, p) ==
    /\ req[q] = Idle
    /\ req' = [req EXCEPT ![q] = Reading(r, p, "check")]
    /\ UNCHANGED <<gen, file, row, removals, begun, cause>>

(* The row is found; without it the answer is 404. *)
Read(q, r, p) ==
    /\ req[q] = Idle
    /\ row[r]
    /\ req' = [req EXCEPT ![q] = Reading(r, p, "check")]
    /\ UNCHANGED <<gen, file, row, removals, begun, cause>>

(* existsSync: without a report 404, without a companion no preview. *)
Check(q) ==
    /\ req[q].phase = "check"
    /\ LET r == req[q].report  p == req[q].part IN
       req' = [req EXCEPT ![q] = IF file[r][p] = "none" THEN Idle ELSE Reading(r, p, "open")]
    /\ UNCHANGED <<gen, file, row, removals, begun, cause>>

(* The process dies, and with it everything under way. *)
Die ==
    /\ req' = [q \in Request |-> Idle]
    /\ gen' = [r \in Report |-> IF gen[r] \in InProgress THEN "ended" ELSE gen[r]]
    /\ cause' = [r \in Report |-> IF gen[r] \in InProgress THEN cause[r] \cup {"crash"} ELSE cause[r]]
    /\ UNCHANGED <<file, row, removals, begun>>

(* createReadStream and readFile open the file later.  By then it may be   *)
(* gone: readFile's error is caught and means no preview, but nothing      *)
(* listens to the stream's, which ends the process.                        *)
Open(q) ==
    /\ req[q].phase = "open"
    /\ LET r == req[q].report  p == req[q].part IN
       \/ /\ file[r][p] # "none"
          /\ req' = [req EXCEPT ![q] = Streaming(r, p, file[r][p])]
          /\ UNCHANGED <<gen, file, row, removals, begun, cause>>
       \/ /\ file[r][p] = "none" /\ p = "json"
          /\ req' = [req EXCEPT ![q] = Idle]
          /\ UNCHANGED <<gen, file, row, removals, begun, cause>>
       \/ /\ file[r][p] = "none" /\ p = "main"
          /\ Die

(* The answer is complete; an open file outlives its unlinking. *)
Answer(q) ==
    /\ req[q].phase = "stream"
    /\ req' = [req EXCEPT ![q] = Idle]
    /\ UNCHANGED <<gen, file, row, removals, begun, cause>>

Next ==
    \/ \E r \in Report : \/ Generate(r) \/ Write(r) \/ FinishMain(r)
                         \/ FinishCompanion(r) \/ FailWriting(r) \/ Persist(r)
    \/ \E q \in Request : \/ \E r \in Report : Remove(q, r)
                          \/ \E S \in SUBSET Part : Unlink(q, S)
                          \/ DeleteRow(q)
                          \/ \E r \in Report, p \in Part : Read(q, r, p)
                          \/ Check(q) \/ Open(q) \/ Answer(q)
    \/ Die

Spec == Init /\ [][Next]_vars

-------------------------------------------------------------------------------
(* Properties. *)

(* A report the archive lists has its file and its preview in full, unless *)
(* a removal has reached its files - however generations fail or die.      *)
ListedIsWhole == \A r \in Report : row[r] /\ ~begun[r] => \A p \in Part : file[r][p] = "whole"

(* Nobody is sent a part of a report: not while it is generated, not one   *)
(* whose generation died, not while it is being removed.                   *)
ServedIsWhole == \A q \in Request : req[q].phase = "stream" => req[q].content = "whole"

(* A file nobody will ever reach again, for its row is gone or never came, *)
(* stems from a failed generation, a crash, or a failed unlink.            *)
OrphansHaveCause ==
    \A r \in Report, p \in Part :
        file[r][p] # "none" /\ ~row[r] /\ gen[r] \notin InProgress => cause[r] # {}

(* Of the removals of a report that run side by side, at most one is told  *)
(* that it deleted the report.                                             *)
RemovedOnce == \A r \in Report : removals[r] <= 1

(* The inductive strengthening of the properties above. *)

(* A report that is, or was, listed: its generation is over and has left    *)
(* whole files, which only a removal touches.                               *)
Listed(r) == row[r] \/ begun[r]

ListedHasEnded ==
    \A r \in Report :
        /\ Listed(r) => gen[r] = "ended" /\ \A p \in Part : file[r][p] # "partial"
        /\ gen[r] = "none" => \A p \in Part : file[r][p] = "none"
        /\ gen[r] \in {"companion", "persist"} => file[r]["main"] = "whole"
        /\ gen[r] = "persist" => file[r]["json"] = "whole"
        /\ removals[r] > 0 => begun[r] /\ ~row[r] /\ removals[r] = 1

(* What a request works on has been listed; a removal that goes on to the  *)
(* row has left no file but those it could not unlink.                     *)
RequestsAreListed ==
    \A q \in Request : req[q] # Idle =>
        /\ Listed(req[q].report)
        /\ req[q].phase = "delete" =>
              /\ begun[req[q].report]
              /\ cause[req[q].report] # {} \/ \A p \in Part : file[req[q].report][p] = "none"

ReportInv ==
    /\ TypeOK /\ ListedHasEnded /\ RequestsAreListed
    /\ ListedIsWhole /\ ServedIsWhole /\ OrphansHaveCause

(* The store, seen by its clients: how far a report has come, and what is  *)
(* being sent out of it.                                                   *)
ArchiveStage ==
    [r \in Report |-> IF row[r] THEN IF begun[r] THEN "withdrawn" ELSE "listed"
                      ELSE IF begun[r] THEN "deleted" ELSE "absent"]

Sent == [q \in Request |-> IF req[q].phase = "stream" THEN {<<req[q].report, req[q].content>>}
                           ELSE {}]

Archive == INSTANCE ReportArchive WITH stage <- ArchiveStage, told <- removals, served <- Sent

(* The store implements ReportArchive: although the files and the row are   *)
(* written and removed one by one, and any step may fail or be the last, a *)
(* report appears once, goes for good, and one removal is told so.         *)
ImplementsArchive == Archive!Spec

(* reports.service.ts:927: "Delete report from database and file storage." *)
DeletedFromStorage ==
    \A r \in Report : removals[r] > 0 => \A p \in Part : file[r][p] = "none"
===============================================================================
