------------------------------- MODULE MCIdeas -------------------------------
(* Instances of Ideas for TLC. *)
EXTENDS Ideas, TLC

CONSTANTS a, b

\* The bodies that can disturb another request: new content, archiving with a
\* review date in the same body, reopening, a review date alone.
MCPatches == {
  [NoPatch EXCEPT !.content = b],
  [NoPatch EXCEPT !.status = "ARCHIVED", !.reviewOn = Day],
  [NoPatch EXCEPT !.status = "ACTIVE"],
  [NoPatch EXCEPT !.reviewOn = Day]}

\* Conversions only.
NoPatches == {}

Symmetry == Permutations(Reqs) \cup Permutations(Tasks) \cup Permutations(IdeaIds)
=============================================================================
