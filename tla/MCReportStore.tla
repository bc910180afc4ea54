----------------------------- MODULE MCReportStore -----------------------------
(* Small instances of ReportStore for TLC. *)
EXTENDS ReportStore, TLC

CONSTANTS r1, r2, q1, q2

Symmetry == Permutations(Report) \cup Permutations(Request)
===============================================================================
