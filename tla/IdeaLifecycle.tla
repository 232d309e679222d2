---------------------------- MODULE IdeaLifecycle ----------------------------
(***************************************************************************)
(* What the ideas API promises about an idea, whatever requests overlap: it *)
(* is created once, may be converted once, in the same step that creates    *)
(* its one task, and nothing but its deletion follows the conversion.       *)
(***************************************************************************)
CONSTANTS Ideas, Tasks, NoIdea

VARIABLES
  life,     \* "unborn", "open", "converted" or "gone", for each idea
  made      \* the idea each task was made from; NoIdea before it exists

lifecycleVars == <<life, made>>

LifecycleInit ==
  /\ life = [i \in Ideas |-> "unborn"]
  /\ made = [t \in Tasks |-> NoIdea]

Become(i, stage) == life' = [life EXCEPT ![i] = stage]

Create(i) == life[i] = "unborn" /\ Become(i, "open") /\ UNCHANGED made

Convert(i, t) ==
  /\ life[i] = "open" /\ made[t] = NoIdea
  /\ Become(i, "converted")
  /\ made' = [made EXCEPT ![t] = i]

Delete(i) == life[i] \in {"open", "converted"} /\ Become(i, "gone") /\ UNCHANGED made

LifecycleNext ==
  \E i \in Ideas : Create(i) \/ Delete(i) \/ \E t \in Tasks : Convert(i, t)

LifecycleSpec == LifecycleInit /\ [][LifecycleNext]_lifecycleVars
=============================================================================
