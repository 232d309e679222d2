----------------------------- MODULE Engagement -----------------------------
(***************************************************************************)
(* How the app addresses one user on the Home screen: HomeService decides  *)
(* from the time of the user's last activity whether to greet a return,    *)
(* VideoSuggestionsService from the mood checks and the user's reactions   *)
(* whether to suggest a video, and ReflectService records the checks.      *)
(*                                                                         *)
(* A Home request reads the user, then the checks, then the feedback, may  *)
(* ask YouTube, and only then writes the last activity: each is a step, so *)
(* other requests come in between.  Time is in days, and a request is over *)
(* before the day is.  Texts, tasks and calendar items on the screen are   *)
(* left out.                                                               *)
(***************************************************************************)
EXTENDS Integers, Sequences, FiniteSets

CONSTANTS
  Keys,      \* local date and context of a check
  Scores,    \* pairs of mood and energy, 1..5 each
  Reactions, \* pairs of a state and an action that clients send
  Curated,   \* the states whose copy lists videos
  HasKey,    \* YOUTUBE_API_KEY is set
  Reqs,      \* request slots
  MaxDay,    \* bound: the clock
  MaxChecks, \* bound: rows of mood_energy_checks
  NoState, NoKey

UNRESPONSIVE_INACTIVE_DAYS == 3
RECENT_CHECK_WINDOW == 3
SUPPORT_CHECK_WINDOW == 7
LOW_MOOD_MAX_SCORE == 2
OVERAROUSED_MIN_ENERGY == 5
OVERAROUSED_MIN_MOOD == 4
PERSISTENT_LOW_MOOD_CHECKS == 3
YOUTUBE_CACHE_TTL == 1

States == {"LOW_MOOD", "UNRESPONSIVE", "OVERAROUSED"}
Actions == {"DISMISSED", "OPENED"}
Never == -10 \* before every window
Days == 0 .. MaxDay

ASSUME EngagementAssumption ==
  /\ Scores \subseteq (1 .. 5) \X (1 .. 5) /\ Curated \subseteq States /\ HasKey \in BOOLEAN
  /\ Reactions \subseteq States \X Actions
  /\ MaxDay \in Nat /\ MaxChecks \in Nat /\ NoState \notin States /\ NoKey \notin Keys

VARIABLES
  now,        \* the day
  lastActive, \* users.last_active_at
  checks,     \* rows of mood_energy_checks, the latest first
  feedback,   \* state, action -> when last, of video_suggestion_feedbacks
  cached,     \* Redis: state -> the day its search result expires
  req         \* the requests in flight

\* History: the day of the last Home that was answered.
VARIABLES visited

vars == <<now, lastActive, checks, feedback, cached, req, visited>>

-----------------------------------------------------------------------------
Check == [key : Keys, score : Scores, at : Days]

\* A request: for a Home the inactive days, the state found and whether the
\* support notice goes with it; as history, whether a Home had been answered
\* within three days and the states dismissed within them when it began.
Blank == [pc |-> "idle", key |-> NoKey, inactive |-> 0, state |-> NoState,
          notice |-> FALSE, visited |-> FALSE, dismissed |-> {}]
Request == [pc : {"idle", "create", "checks", "feedback", "videos", "answer"},
            key : Keys \cup {NoKey}, inactive : Days, state : States \cup {NoState},
            notice : BOOLEAN, visited : BOOLEAN, dismissed : SUBSET States]

At(r, pc) == req[r].pc = pc
Goes(r, next) == req' = [req EXCEPT ![r] = next]

-----------------------------------------------------------------------------
(* createMoodEnergyCheck: looked for by date and context ...                *)
CheckFind(r, key) ==
  /\ At(r, "idle")
  /\ \A i \in DOMAIN checks : checks[i].key # key
  /\ Goes(r, [Blank EXCEPT !.pc = "create", !.key = key])
  /\ UNCHANGED <<now, lastActive, checks, feedback, cached, visited>>

\* Fault: the table has no unique key.
TakenNever(key) == FALSE
(* The unique key of mood_energy_checks.                                    *)
Taken(key) == \E i \in DOMAIN checks : checks[i].key = key

(* ... and created, unless it was meanwhile (P2002, answered 409).          *)
CheckCreate(r, score) ==
  /\ At(r, "create")
  /\ IF Taken(req[r].key) THEN UNCHANGED checks
     ELSE /\ Len(checks) < MaxChecks
          /\ checks' = <<[key |-> req[r].key, score |-> score, at |-> now]>> \o checks
  /\ Goes(r, Blank)
  /\ UNCHANGED <<now, lastActive, feedback, cached, visited>>

(* recordFeedback.                                                          *)
RecordFeedback(s, action) ==
  /\ feedback' = [feedback EXCEPT ![s][action] = now]
  /\ UNCHANGED <<now, lastActive, checks, cached, req, visited>>

-----------------------------------------------------------------------------
(* selectEngagementNudge: isReturningAfterBreak.                            *)
Returns(inactive) == inactive >= 3

(* selectEngagementNudge: a return outranks an empty setup.                 *)
Nudge(inactive, empty) ==
  CASE Returns(inactive) -> "RETURNING_AFTER_BREAK"
    [] ~Returns(inactive) /\ empty -> "EMPTY_SETUP"
    [] OTHER -> "none"

(* getHome: the user is read; inactive days are counted from then.          *)
HomeRead(r) ==
  /\ At(r, "idle")
  /\ Goes(r, [Blank EXCEPT !.pc = "checks", !.inactive = now - lastActive,
                           !.visited = now - visited < 3,
                           !.dismissed = {s \in States : feedback[s]["DISMISSED"] >= now - 3}])
  /\ UNCHANGED <<now, lastActive, checks, feedback, cached, visited>>

-----------------------------------------------------------------------------
\* The rows a query with a lower bound on the day returns, the latest first.
Since(window) == SubSeq(checks, 1, Cardinality({i \in DOMAIN checks : checks[i].at >= now - window}))
Mood(c) == c.score[1]
Energy(c) == c.score[2]

(* detectState.                                                             *)
DetectState(rows, inactive) ==
  LET recent == rows # <<>> /\ now - rows[1].at <= RECENT_CHECK_WINDOW
      low == recent /\ Mood(rows[1]) <= LOW_MOOD_MAX_SCORE
      high == recent /\ Energy(rows[1]) >= OVERAROUSED_MIN_ENERGY
                     /\ Mood(rows[1]) >= OVERAROUSED_MIN_MOOD
  IN CASE low -> "LOW_MOOD"
       [] high -> "OVERAROUSED"
       [] ~low /\ ~high /\ inactive >= UNRESPONSIVE_INACTIVE_DAYS -> "UNRESPONSIVE"
       [] OTHER -> NoState

\* Fault: a single low check is persistent.
PersistentLowMoodAny(rows) == rows # <<>> /\ Mood(rows[1]) <= LOW_MOOD_MAX_SCORE
(* isPersistentLowMood.                                                     *)
PersistentLowMood(rows) ==
  /\ Len(rows) >= PERSISTENT_LOW_MOOD_CHECKS
  /\ \A i \in 1 .. PERSISTENT_LOW_MOOD_CHECKS : Mood(rows[i]) <= LOW_MOOD_MAX_SCORE

(* buildSuggestion: the checks of the last week, five at most.              *)
HomeChecks(r) ==
  /\ At(r, "checks")
  /\ LET week == Since(SUPPORT_CHECK_WINDOW)
         rows == SubSeq(week, 1, IF Len(week) > 5 THEN 5 ELSE Len(week))
         state == DetectState(rows, req[r].inactive)
     IN Goes(r, [req[r] EXCEPT !.pc = IF state = NoState THEN "answer" ELSE "feedback",
                               !.state = state,
                               !.notice = state = "LOW_MOOD" /\ PersistentLowMood(rows)])
  /\ UNCHANGED <<now, lastActive, checks, feedback, cached, visited>>

(* buildVideoSuggestion: without a type or its copy there is no video, and   *)
(* a read that fails does not fail the Home.                                *)
HomeWithoutVideo(r) ==
  /\ req[r].pc \in {"checks", "feedback"}
  /\ Goes(r, [req[r] EXCEPT !.pc = "answer", !.state = NoState, !.notice = FALSE])
  /\ UNCHANGED <<now, lastActive, checks, feedback, cached, visited>>

Cooldown(action) == IF action = "DISMISSED" THEN 3 ELSE 1
\* Fault: feedback counts on the day it was given.
SuppressedToday(s) == \E action \in Actions : feedback[s][action] = now
(* isSuppressed.                                                            *)
Suppressed(s) == \E action \in Actions : feedback[s][action] >= now - Cooldown(action)

HomeFeedback(r) ==
  /\ At(r, "feedback")
  /\ Goes(r, IF Suppressed(req[r].state)
             THEN [req[r] EXCEPT !.pc = "answer", !.state = NoState, !.notice = FALSE]
             ELSE [req[r] EXCEPT !.pc = "videos"])
  /\ UNCHANGED <<now, lastActive, checks, feedback, cached, visited>>

(* toCuratedVideos or searchYouTube: without curated videos or a cached     *)
(* result YouTube is asked; a search that found nothing or failed is not    *)
(* cached, and leaves the link alone.                                       *)
Searches(s) == s \notin Curated /\ HasKey /\ cached[s] <= now

HomeVideos(r, found) ==
  /\ At(r, "videos")
  /\ LET s == req[r].state
     IN cached' = IF Searches(s) /\ found THEN [cached EXCEPT ![s] = now + YOUTUBE_CACHE_TTL] ELSE cached
  /\ Goes(r, [req[r] EXCEPT !.pc = "answer"])
  /\ UNCHANGED <<now, lastActive, checks, feedback, visited>>

\* Fault: the visit is not recorded.
ActiveStays(r) == lastActive
(* getHome, its last write.                                                 *)
Active(r) == now

HomeAnswer(r) ==
  /\ At(r, "answer")
  /\ lastActive' = Active(r)
  /\ visited' = now
  /\ Goes(r, Blank)
  /\ UNCHANGED <<now, checks, feedback, cached>>

-----------------------------------------------------------------------------
(* Sign-in, onboarding and the calendar write the last activity, too.       *)
OtherActivity ==
  /\ lastActive # now /\ lastActive' = now
  /\ UNCHANGED <<now, checks, feedback, cached, req, visited>>

(* The day ends; no request is in flight.                                   *)
Tick ==
  /\ now < MaxDay /\ \A r \in Reqs : At(r, "idle")
  /\ now' = now + 1
  /\ UNCHANGED <<lastActive, checks, feedback, cached, req, visited>>

Init ==
  /\ now = 0 /\ lastActive = 0 /\ checks = <<>>
  /\ feedback = [s \in States |-> [action \in Actions |-> Never]]
  /\ cached = [s \in States |-> 0]
  /\ req = [r \in Reqs |-> Blank]
  /\ visited = Never

Next ==
  \/ \E r \in Reqs :
       \/ \E key \in Keys : CheckFind(r, key)
       \/ \E score \in Scores : CheckCreate(r, score)
       \/ HomeRead(r) \/ HomeChecks(r) \/ HomeFeedback(r) \/ HomeWithoutVideo(r)
       \/ \E found \in BOOLEAN : HomeVideos(r, found)
       \/ HomeAnswer(r)
  \/ \E reaction \in Reactions : RecordFeedback(reaction[1], reaction[2])
  \/ OtherActivity
  \/ Tick

Spec == Init /\ [][Next]_vars

-----------------------------------------------------------------------------
(* Every variable has the shape the services give it.                       *)
TypeOK ==
  /\ now \in Days /\ lastActive \in Days /\ visited \in Days \cup {Never}
  /\ checks \in Seq(Check)
  /\ feedback \in [States -> [Actions -> Days \cup {Never}]]
  /\ cached \in [States -> 0 .. MaxDay + YOUTUBE_CACHE_TTL]
  /\ req \in [Reqs -> Request]

(* A return is greeted once: a Home that greets one began three days or     *)
(* more after the last Home before it was answered (lastActiveAt).          *)
ReturnIsGreetedOnce ==
  \A r \in Reqs :
    At(r, "answer") /\ Nudge(req[r].inactive, FALSE) = "RETURNING_AFTER_BREAK" => ~req[r].visited

(* A video is not suggested for a state the user had dismissed within the   *)
(* three days before the request began (DISMISS_COOLDOWN_MS), whatever is   *)
(* recorded while it runs.                                                  *)
DismissalIsRespected ==
  \A r \in Reqs : At(r, "answer") => req[r].state \notin req[r].dismissed

(* The support notice goes to a user with three low checks in a row within  *)
(* a week, no other check between them, though checks are still coming in.  *)
NoticeNeedsThreeLowChecks ==
  \A r \in Reqs :
    req[r].notice =>
      \E i \in 0 .. Len(checks) - 3 : \A k \in 1 .. 3 :
        Mood(checks[i + k]) <= LOW_MOOD_MAX_SCORE /\ now - checks[i + k].at <= 7

(* One check per date and context, though two requests found none           *)
(* ("Mood-energy check already exists for this date and context.").         *)
OneCheckPerContext ==
  \A i, k \in DOMAIN checks : checks[i].key = checks[k].key => i = k
=============================================================================
