---------------------------- MODULE MCEngagement ----------------------------
(* An instance of Engagement for TLC; the answers, the lists and the patches, *)
(* which share no state with it, are explored from its first state.          *)
EXTENDS Engagement, Answers, Paging, Patches, TLC

\* A low mood at its bound, and a high mood with full energy.
MCScores == {<<2, 5>>, <<4, 5>>}

MCReactions == {<<"LOW_MOOD", "DISMISSED">>}

\* One question on each axis, two axes in either direction, and a set that asks
\* about one axis only, both ways.
MCQuestionSets ==
  {<<[axis |-> "EI", direction |-> 1], [axis |-> "SN", direction |-> 1],
     [axis |-> "TF", direction |-> -1], [axis |-> "JP", direction |-> -1]>>,
   <<[axis |-> "EI", direction |-> 1], [axis |-> "EI", direction |-> -1],
     [axis |-> "EI", direction |-> 1]>>}

\* A routine may be asked about for a day before the one it was created on.
MCRoutines ==
  {[active |-> active, daysOfWeek |-> cadence[1], timesPerWeek |-> cadence[2], created |-> created] :
     active \in BOOLEAN, cadence \in {<<0 .. 6, 0>>, <<{1, 3, 5}, 0>>}, created \in {2}}
    \cup {[active |-> active, daysOfWeek |-> {}, timesPerWeek |-> 2, created |-> created] :
            active \in BOOLEAN, created \in {2, 8, 20}}

\* Sundays, Mondays and the days around them, over three weeks.
MCDoneDays == {5, 8, 10, 12, 13, 14, 15, 16}
MCOpenDays == {10, 15}
MCTodays == {12, 14, 15, 16}

MCGoalRows ==
  {[status |-> "ACTIVE", target |-> target, current |-> current, start |-> start, due |-> due] :
     target \in {0, 5, 7}, current \in 0 .. 6, start \in {6, 12, 15}, due \in {NoDate} \cup (14 .. 30)}

\* From Hawaii to Auckland, with a change of an hour either way or none.
MCZones ==
  {[before |-> before, after |-> before + step, change |-> change] :
     before \in {-10, -5, 1, 12}, step \in -1 .. 1, change \in 24 .. 47}

Symmetry == Permutations(Keys) \cup Permutations(Reqs)

\* The row of users and that of goals meet in no statement: one is patched at a
\* time.
OneRow == user = NewUser \/ goal = NoGoal

MCInit == Init /\ AnswersInit /\ PagingInit /\ PatchesInit
MCNext ==
  \/ /\ Next /\ input = NoInput /\ list = NoList /\ PatchesInit
     /\ UNCHANGED <<input, list, patchVars>>
  \/ Init /\ list = NoList /\ PatchesInit /\ AnswersNext /\ UNCHANGED <<list, patchVars, vars>>
  \/ Init /\ input = NoInput /\ PatchesInit /\ PagingNext /\ UNCHANGED <<input, patchVars, vars>>
  \/ /\ Init /\ input = NoInput /\ list = NoList
     /\ PatchesNext /\ OneRow' /\ UNCHANGED <<input, list, vars>>
MCSpec == MCInit /\ [][MCNext]_<<vars, input, list, patchVars>>
=============================================================================
