------------------------------ MODULE MCStaffing ------------------------------
(* Staffing with slots and mentors that can be exchanged for one another.   *)
EXTENDS Staffing, TLC

Symmetry == Permutations(Requests) \cup Permutations(Faculty)
=============================================================================
