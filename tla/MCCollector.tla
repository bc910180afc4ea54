------------------------------ MODULE MCCollector ------------------------------
(* Small instances of Collector for TLC. *)
EXTENDS Collector, TLC

CONSTANTS security, system

Symmetry == Permutations(Channel)
===============================================================================
