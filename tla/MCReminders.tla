----------------------------- MODULE MCReminders -----------------------------
(* Reminders with students that can be exchanged for one another, and days  *)
(* on which an internship starts.                                           *)
EXTENDS Reminders, TLC

StartDays == {-1, 5}
Symmetry == Permutations(Students)
=============================================================================
