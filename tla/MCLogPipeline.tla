----------------------------- MODULE MCLogPipeline -----------------------------
(* Small instances of LogPipeline for TLC. *)
EXTENDS LogPipeline, TLC

CONSTANTS l1, l2, b1, b2

(* A client leaves the triage fields out, or claims the log is done. *)
MCSubmittedDoc ==
    {FreshDoc, [isProcessed |-> TRUE, anomalyScore |-> 0, threatScore |-> 60]}

MCFreshOnly == {FreshDoc}

Symmetry == Permutations(Log) \cup Permutations(Backend)
===============================================================================
