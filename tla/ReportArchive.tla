----------------------------- MODULE ReportArchive -----------------------------
(***************************************************************************)
(* What the archive of reports promises its clients, whatever generations, *)
(* removals and reads interleave, fail or die: a report is listed once, is *)
(* withdrawn before it is deleted, never comes back, its deletion is told  *)
(* to at most one client, and what is sent out of it is sent whole.        *)
(***************************************************************************)
EXTENDS Naturals

CONSTANTS
    Report,
    Request      \* bound: requests served at a time

VARIABLES
    stage,       \* stage[r]: how far report r has come
    told,        \* told[r]: clients that were told that r is deleted
    served       \* served[q]: what is being sent out in slot q

archiveVars == <<stage, told, served>>

Stage == {"absent", "listed", "withdrawn", "deleted"}

Init ==
    /\ stage = [r \in Report |-> "absent"]
    /\ told = [r \in Report |-> 0]
    /\ served = [q \in Request |-> {}]

(* A report appears, which it does once. *)
List(r) ==
    /\ stage[r] = "absent"
    /\ stage' = [stage EXCEPT ![r] = "listed"]
    /\ UNCHANGED <<told, served>>

(* From here on a read of the report may find nothing. *)
Withdraw(r) ==
    /\ stage[r] = "listed"
    /\ stage' = [stage EXCEPT ![r] = "withdrawn"]
    /\ UNCHANGED <<told, served>>

(* The answer to the client may get lost. *)
Delete(r) ==
    /\ stage[r] = "withdrawn"
    /\ stage' = [stage EXCEPT ![r] = "deleted"]
    /\ told' \in {told, [told EXCEPT ![r] = @ + 1]}
    /\ UNCHANGED served

(* A read accepted in time may still find a file of a deleted report. *)
Serve(q, r) ==
    /\ served[q] = {} /\ stage[r] # "absent"
    /\ served' = [served EXCEPT ![q] = {<<r, "whole">>}]
    /\ UNCHANGED <<stage, told>>

Finish(q) ==
    /\ served[q] # {}
    /\ served' = [served EXCEPT ![q] = {}]
    /\ UNCHANGED <<stage, told>>

(* A crash loses the answers under way, and no report. *)
Restart ==
    /\ served' = [q \in Request |-> {}]
    /\ UNCHANGED <<stage, told>>

Next ==
    \/ \E r \in Report : List(r) \/ Withdraw(r) \/ Delete(r)
    \/ \E q \in Request : Finish(q) \/ \E r \in Report : Serve(q, r)
    \/ Restart

Spec == Init /\ [][Next]_archiveVars
===============================================================================
