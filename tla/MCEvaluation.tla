---------------------------- MODULE MCEvaluation ----------------------------
(* Evaluation on small sets of model values. *)
EXTENDS Evaluation, TLC

\* Request slots, faculty and marks are interchangeable.
Symmetry == Permutations(Requests) \cup Permutations(Faculty) \cup Permutations(Marks)
              \cup Permutations(Schedules)
=============================================================================
