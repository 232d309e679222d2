------------------------------ MODULE MCTasks ------------------------------
(* An instance of Tasks for TLC. *)
EXTENDS Tasks, TLC

\* Two routines of one name, on a day of the week and counted per week.
MCCadence ==
  [n \in Routines |->
     [name |-> "run", active |-> TRUE, perWeek |-> n = "gym",
      days |-> IF n = "gym" THEN {} ELSE Days]]

\* A task by hand, of a routine's title and source.
MCCreates == {[title |-> "run", routine |-> TRUE, day |-> NoDay]}

\* Nothing of these fields, and all of them.
MCUpdates ==
  {[title |-> Keep, status |-> Keep, day |-> Keep],
   [title |-> "run", status |-> "INBOX", day |-> "mon"]}

Symmetry == Permutations(Tasks) \cup Permutations(Reqs)
=============================================================================
