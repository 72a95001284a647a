------------------------- MODULE MCAssignmentFlow -------------------------
(***************************************************************************)
(* AssignmentFlow on small instances.  Workers, questions, request         *)
(* goroutines and background goroutines are interchangeable; the symmetry  *)
(* is used in the runs that check no liveness.                             *)
(***************************************************************************)
EXTENDS AssignmentFlow, TLC

Symmetry == Permutations(Worker) \cup Permutations(Session)
            \cup Permutations(Question) \cup Permutations(Job)
=============================================================================
