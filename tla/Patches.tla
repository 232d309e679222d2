------------------------------- MODULE Patches -------------------------------
(***************************************************************************)
(* Two PATCHes that read a row, work out what to write from it and write   *)
(* it in a later statement: MeService.updatePreferences, which merges the  *)
(* notification preferences and stores the whole document again, and       *)
(* GoalsService.updateGoal, which writes the fields it is given but takes  *)
(* the completion time, and a start date that is cleared, from what it     *)
(* read.                                                                   *)
(*                                                                         *)
(* Of a goal the fields that are only copied are left out; the locale      *)
(* stands for them.                                                        *)
(***************************************************************************)
EXTENDS Integers

CONSTANTS
  Prefs,      \* the entries of the preferences
  PrefValues,
  Locales,    \* locale and timezone are written alike
  KoKR,       \* the locale of a new user
  Dates,
  Clients,    \* request slots
  MaxClock,   \* bound: the clock
  Keep        \* a field the input leaves out

Unset == "unset"  \* an entry the document lacks
Null == "null"

ASSUME PatchesAssumption ==
  /\ MaxClock \in Nat /\ KoKR \in Locales
  /\ Keep \notin PrefValues \cup Locales \cup Dates
  /\ Unset \notin PrefValues /\ Null \notin Dates

VARIABLES
  clock,
  user,   \* locale and notification_prefs_json of the row of users
  goal,   \* the row of goals
  patch   \* the requests in flight

patchVars == <<clock, user, goal, patch>>

-----------------------------------------------------------------------------
GoalStatus == {"ACTIVE", "COMPLETED", "ARCHIVED"}
NotCompleted == -1
NoGoal == [status |-> "none", start |-> Keep, completedAt |-> NotCompleted]

\* A request: its input, what it read, the time it read it at, and whether the
\* row was written since.
Resting == [op |-> "idle", input |-> Keep, seen |-> Keep, at |-> 0, raced |-> FALSE]
Asks(c, op) == patch[c].op = op
Given(value, old) == IF value = Keep THEN old ELSE value

Begins(c, op, input, row) ==
  /\ Asks(c, "idle")
  /\ patch' = [patch EXCEPT ![c] =
       [op |-> op, input |-> input, seen |-> row, at |-> clock, raced |-> FALSE]]
  /\ UNCHANGED <<clock, user, goal>>

\* The request ends; the others of its kind hold a row that was overtaken.
Ends(c) ==
  patch' = [b \in Clients |->
    IF b = c THEN Resting
    ELSE [patch[b] EXCEPT !.raced = @ \/ Asks(b, patch[c].op)]]

-----------------------------------------------------------------------------
(* UpdatePreferencesDto.                                                    *)
PreferencesInput ==
  [locale : Locales \cup {Keep}, prefs : {Keep} \cup [Prefs -> PrefValues \cup {Keep}]]

\* Fault: the input takes the place of the document.
MergedReplaces(seen, input) ==
  [p \in Prefs |-> IF input[p] = Keep THEN Unset ELSE input[p]]
(* updatePreferences: the entries read, overlaid with those of the input.   *)
Merged(seen, input) == [p \in Prefs |-> Given(input[p], seen[p])]

PreferencesRead(c, input) == Begins(c, "preferences", input, user)

PreferencesWrite(c) ==
  LET input == patch[c].input IN
  /\ Asks(c, "preferences")
  /\ user' = [locale |-> Given(input.locale, user.locale),
              prefs |-> IF input.prefs = Keep THEN user.prefs
                        ELSE Merged(patch[c].seen.prefs, input.prefs)]
  /\ Ends(c)
  /\ UNCHANGED <<clock, goal>>

-----------------------------------------------------------------------------
(* createGoal; of the goals of a user one is followed.                      *)
CreateGoal(start) ==
  /\ goal = NoGoal
  /\ goal' = [status |-> "ACTIVE", start |-> start, completedAt |-> NotCompleted]
  /\ UNCHANGED <<clock, user, patch>>

(* UpdateGoalDto; a start date may be given as null.                        *)
GoalInput ==
  [status : GoalStatus \cup {Keep}, start : Dates \cup {Null, Keep}]

(* updateGoal: the completion time of a status that is given.               *)
CompletedAt(status, seen, at) ==
  IF status # "COMPLETED" THEN NotCompleted
  ELSE IF seen.completedAt # NotCompleted THEN seen.completedAt
  ELSE at

GoalRead(c, input) == goal # NoGoal /\ Begins(c, "goal", input, goal)

GoalWrite(c) ==
  LET input == patch[c].input
      seen == patch[c].seen
  IN /\ Asks(c, "goal")
     /\ goal' = [status |-> Given(input.status, goal.status),
                 start |-> IF input.start = Null THEN seen.start ELSE Given(input.start, goal.start),
                 completedAt |-> IF input.status = Keep THEN goal.completedAt
                                 ELSE CompletedAt(input.status, seen, patch[c].at)]
     /\ Ends(c)
     /\ UNCHANGED <<clock, user>>

PatchTick ==
  /\ clock < MaxClock /\ clock' = clock + 1
  /\ UNCHANGED <<user, goal, patch>>

NewUser == [locale |-> KoKR, prefs |-> [p \in Prefs |-> Unset]]

PatchesInit ==
  /\ clock = 0
  /\ user = NewUser
  /\ goal = NoGoal
  /\ patch = [c \in Clients |-> Resting]

PatchesNext ==
  \/ \E c \in Clients :
       \/ \E input \in PreferencesInput : PreferencesRead(c, input)
       \/ \E input \in GoalInput : GoalRead(c, input)
       \/ PreferencesWrite(c) \/ GoalWrite(c)
  \/ \E start \in Dates : CreateGoal(start)
  \/ PatchTick

PatchesSpec == PatchesInit /\ [][PatchesNext]_patchVars

-----------------------------------------------------------------------------
(* A PATCH changes what it names and nothing else, unless another wrote the *)
(* row between its read and its write: entries of the preferences it leaves *)
(* out, the start date it clears, and the time a goal was first completed.  *)
(* What a goal's status says of its completion time is true at all times.   *)
PatchesChangeWhatTheyName ==
  [][\A c \in Clients : ~Asks(c, "idle") /\ patch'[c] = Resting =>
       LET input == patch[c].input IN
       /\ goal'.status = "COMPLETED" <=> goal'.completedAt # NotCompleted
       /\ patch[c].raced
          \/ /\ Asks(c, "preferences") => \A p \in Prefs :
                  input.prefs = Keep \/ input.prefs[p] = Keep
                    => user'.prefs[p] = user.prefs[p]
             /\ Asks(c, "goal") =>
                  /\ input.start \in {Null, Keep} => goal'.start = goal.start
                  /\ goal.status = goal'.status => goal'.completedAt = goal.completedAt
    ]_patchVars
=============================================================================
