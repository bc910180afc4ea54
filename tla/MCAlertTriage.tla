----------------------------- MODULE MCAlertTriage -----------------------------
(* Small instances of AlertTriage for TLC. *)
EXTENDS AlertTriage, TLC

(* One demo alert; ids of the demo list never meet those of the table. *)
MCDemoList == (-1) :> "NEW"

MCSeverityOf == [a \in {-1, 1} |-> IF a = 1 THEN "HIGH" ELSE "LOW"]
===============================================================================
