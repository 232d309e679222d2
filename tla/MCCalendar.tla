------------------------------ MODULE MCCalendar ------------------------------
(* Instances of Calendar for TLC. *)
EXTENDS Calendar, TLC

Symmetry == Permutations(Reqs) \cup Permutations(Workers) \cup Permutations(Jobs)
            \cup Permutations(Flows) \cup Permutations(Conns)
=============================================================================
