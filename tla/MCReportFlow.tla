----------------------------- MODULE MCReportFlow -----------------------------
(* ReportFlow with slots and texts that can be exchanged for one another.   *)
EXTENDS ReportFlow, TLC

Symmetry == Permutations(Requests) \cup Permutations(Contents)
=============================================================================
