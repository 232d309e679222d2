# Verification of the MBTI self-CDM backend

The repository is a NestJS API (`src/src`) over PostgreSQL (Prisma), Redis
(ioredis) and BullMQ queues, whose workers run in the same process. Everything
runs on JavaScript event loops: code between two `await`s is atomic, and at every
`await` any other request, worker or replica may run. Nearly every operation is
"read a row or key, compute, write", so what can go wrong is an interleaving, a
crash between two writes, or a key that expires in between.

Paths below are relative to the repository; `session.service.ts:84` is a line of
`src/modules/session/session.service.ts`.

## 1. The system

| Component | State it keeps | Operations that change it | What is hard |
|---|---|---|---|
| Sessions (`modules/session`, `AuthService`) | Redis `auth:session:{sid}` (record, TTL), `auth:user-sessions:{uid}` (set, TTL) | login, refresh (token rotation), logout, logout-all, nightly cleanup | read-then-SET without a compare; three commands per store; crash between them; two TTLs |
| Ideas (`modules/ideas`) | `ideas` rows; `tasks` rows made by conversion | create, PATCH, convert, delete | writes computed from a stale read; a two-statement transaction; row locks; `updatedAt` as revision |
| Calendar (`modules/calendar`) | `calendar_connections`, `calendar_events`, Redis `oauth_state:*`, queue `calendar-sync`, `users.onboarding_status` | start and complete OAuth, sync, revoke, skip; the sync worker | concurrent jobs of one connection, revoke during a sync, crash between status and enqueue, one-time OAuth state |
| MBTI onboarding (`modules/mbti`, `AppService.getBootstrap`) | `mbti_profiles`, `mbti_finder_attempts`, `mbti_finder_answers`, `users.onboarding_status` | self-select, start/answer/complete an attempt, confirm | five operations write the onboarding status from stale reads; find-then-create of the attempt; answers that come in while an attempt is scored |
| Social login (`auth.service.ts`, `provider-verification.service.ts`) | `users`, `auth_identities`; discovery and key caches of the process | social login | two first logins race on a unique key; an identity read before it is written; key sets that arrive out of order |
| Tasks (`modules/tasks`), Routines (`modules/routines`) | `tasks`, `routines` | create, PATCH, complete, reschedule; generate today's tasks, check, skip, reserve | status and `completedAt` from a stale read; find-then-create without a unique key; one serializable transaction with retries between read-committed statements |
| Task reminders (`tasks-reminder.worker.ts`) | Redis marks per task and time | a job every minute | send, then mark; a snapshot of the list; two processes; a mark that expires |
| Home, video suggestions, mood checks (`modules/home`, `video-suggestions`, `reflect`) | `users.last_active_at`, `mood_energy_checks`, `video_suggestion_feedbacks`, a cache in Redis | GET /home (it writes), record a check, record feedback | the last activity is read at the start of a Home and written at its end |
| Goals, preferences (`modules/goals`, `modules/me`) | `goals`, `users.notification_prefs_json` | create, PATCH | merged documents and times computed from a stale read |
| Lists: ideas, tasks, the plan's backlog | none | read a page | cursors while rows change |
| Pure algorithms | none | finder scoring, streaks and weeks, pace, local dates | boundaries, ties, rounding, clock changes |
| Infrastructure | none of its own | Prisma, Redis and BullMQ clients, error filter | unique-key and missing-row errors become 409/404/400 |

How they interact: `AuthGuard` reads the session in front of every other request, and
social login ends by creating one; calendar completion, calendar skip, the choice of
a type, an attempt and its confirmation write the same `onboarding_status`; converting
an idea and generating routines insert tasks; the reminder worker and the routines
read and write the same tasks; every screen but Home writes the last activity that
Home reads; deleting a user row (no endpoint does) cascades in PostgreSQL and leaves
Redis to the cleanup.

### What makes each component correct

- Sessions: an answered logout ends the session; a superseded refresh token never
  works again; logout-all finds every session; nobody ends another user's session;
  sets do not leak.
- Ideas: at most one task per idea; a conversion is final and atomic; the task says
  what the idea says; `archivedAt`, `reviewOn` and `convertedTaskId` agree with the
  status.
- Calendar: an OAuth state completes one connection; a revoked connection stays
  revoked and keeps no credentials; a sync ends; one sync at a time; onboarding only
  advances.
- Onboarding: nobody passes the choice of a type without one; the status goes back only
  by a stale write; a confidence belongs to the type it is shown with; a prediction to
  the answers it is stored with; one attempt in progress.
- Login: users and identities are one to one; a session is of the verified subject;
  keys that the provider withdraws or adds take effect within an hour and one fetch.
- Routines and tasks: one task per routine and day; DONE exactly when `completedAt` is
  set; finished tasks are not reserved, done ones not skipped.
- Reminders: each that stays due is sent, and sent again only for a named reason.
- Home: a return is greeted once, a dismissal is respected, the support notice needs
  three low checks in a row.
- Goals and preferences: a PATCH changes what it names.
- Algorithms: equal to a reference definition; pages partition the list.

## 2. Plan

In the order of importance; all of it is done but for the last item, and described in
section 3.

1. **Sessions**: model, runs, inductive invariant, proofs.
2. **Ideas** and the abstract **IdeaLifecycle**: model, runs, refinement, proofs.
3. **Calendar** and the abstract **ConnectionLifecycle**: connections, the OAuth state,
   the queue and its workers as processes; runs, refinement, the liveness "a sync ends",
   proofs.
4. **Onboarding** and **Login**: requests over one user row; caches and unique keys;
   runs, proofs.
5. **Tasks** (with the routines, which own no tasks) and **Reminders**: overlapping
   generation, serializable retries, send-then-mark with crashes; runs, liveness,
   proofs.
6. **Engagement** and **Patches**: Home, checks and feedback; merged documents; a run,
   proofs.
7. **Answers** over **Finder**, **RoutineStats**, **Goals** and **LocalDates**, and
   **Paging**: algorithms against reference definitions, lists page by page; proofs for
   every input.
8. Left: the composition of `Sessions` with the removal of users of `Login`.

## 3. Modules

### Sessions.tla

One action per Redis command. A request slot `req[r]` is a request in flight: its
program counter names the command it will send next and its other fields are the
local variables of the code.

| Action | Code |
|---|---|
| `Login` | `createSession` up to `storeSession` |
| `RefreshRead` | `rotateRefreshToken`: GET, the device and hash comparisons, the new token |
| `StoreSet`, `StoreSadd`, `StoreExpire` | the three commands of `storeSession`, for both callers |
| `Admit` | `AuthGuard` and `validateAccessSession` in front of a logout, and the branch in `AuthService.logout` |
| `RevokeRead`, `RevokeDel`, `RevokeSrem` | `revokeSession` |
| `RevokeAllRead`, `RevokeAllDel`, `RevokeAllDelIndex` | `revokeAllSessions` |
| `CleanupSweep` | `SessionCleanupWorker.handleJob` |
| `Abort`, `Tick`, `DeleteUser` | death between two commands, Redis expiry, a user row removed outside the API |

Abstractions: a refresh token is a number, equal exactly when the hashes are; a
refused request writes nothing and is no step; access tokens are not modelled apart
from naming a session and its user, so an access token never expires here (more
behaviours than the code has). The cleanup is one step: with the pattern the code
scans it reads no session at all, and with the intended one only the user row is
read between the GET and the DEL. Devices are compared only when both sides name
one, as in the code; platform and timestamps are left out.

History variables (`owner`, `exchanged`, `ended`, `endedAll`, `disturbed`,
`orphans`) are never read by a step's guard, except that `owner` tells which ids
`randomUUID` has used up.

### Ideas.tla and IdeaLifecycle.tla

One action per SQL statement, except that the update of the idea and the COMMIT of a
conversion are one step (the row is locked in between and the old version is what
others read). A PATCH has three steps because it draws `archivedAt` and Prisma draws
`updatedAt` before the database gets to the UPDATE.

| Action | Code |
|---|---|
| `CreateIdea`, `DeleteIdea` | `createIdea`, `deleteIdea` |
| `PatchRead`, `PatchCall`, `PatchWrite` | `updateIdea`: the read and refusals; `resolveArchivedAt` and the timestamps; the conditional UPDATE or P2025 |
| `ConvertRead`, `ConvertInsert`, `ConvertCommit`, `ConvertRefuse` | `convertToTask`: the reads; BEGIN and `task.create`; `idea.update` and COMMIT; P2025 and ROLLBACK |
| `DeadlockVictim` | PostgreSQL's answer to two conversions that hold the idea FOR KEY SHARE (foreign key of the inserted task) and both want to set `converted_task_id`, a uniquely indexed column |
| `Abort`, `Tick` | death of the process or transaction timeout; the clock |

Abstractions: one user (every statement is restricted to the owner's rows); title,
note and tags are one content; the review date is one day or none; today's focus and
due date of a conversion do not touch the idea. Task ids of rolled-back inserts may
be used again, which nobody can observe.

`IdeaLifecycle` is what the ideas API promises: unborn, open, converted together
with exactly one new task, gone. `Ideas` implements it under the mapping `Life`,
which reads only committed rows (`ImplementsLifecycle`).

### Calendar.tla and ConnectionLifecycle.tla

The connections of one user, the OAuth flows, the queue `calendar-sync` and the
worker slots. A request slot `req[r]` and a worker slot `worker[w]` are a request and
a job at one of their awaits. One action per SQL statement or transaction, Redis
command or call to the provider; a trailing update of `lastActiveAt` changes nothing
the module keeps and is left out, as is a read that only shows that a row exists.

| Action | Code |
|---|---|
| `StartOAuth`, `ExpireState` | `startOAuthConnection`; the TTL of the state |
| `CallbackRead`, `CallbackCheck`, `CallbackExchange`, `CallbackSave`, `CallbackDrop` | `completeOAuthConnection`: GET of the state; the user and every refusal; `getToken`; the transaction; DEL |
| `SyncRead`, `SyncMark`, `SyncEnqueue` | `syncConnection`: the read and refusals; SYNCING; `queue.add` |
| `Revoke`, `SkipOnboarding` | `revokeConnection`, `skipCalendarOnboarding` |
| `MbtiWrites` | the other writers of the onboarding status, taken to write anything here; `Onboarding` has them all |
| `Load`, `LoadFails`, `Fetch`, `Store`, `Finish` | `handleJob`: the read and early returns; the read failing; `fetchEvents`; `upsertEvents`; the last update |
| `SyncFails`, `MarkError`, `MarkErrorFails` | its catch block and `markConnectionError` |
| `Abort`, `WorkerDies`, `Edit` | death of a request's or a worker's process (a stalled job is run once more, then failed); edits at the provider |

Abstractions: credentials are the number of the grant they come from, so tokens
refreshed within one grant are the same credentials; the events of a connection are
one event, as the number of its last edit, and an answer of the provider may leave it
out (an unmappable event, or a fall-back to the primary calendar). Rows the provider
no longer has are not deleted by the code and not modelled. The module is of the
production configuration, Google and no development bridge. A job whose worker lives
but loses its BullMQ lock is not modelled apart from a death.

`ConnectionLifecycle` is what the API promises of one connection: absent, connected,
revoked, with the credentials that go with it. A sync is asked for and taken up only
while the connection is connected; what was asked for or taken up before a revocation
may overrule it, and the credentials that then come back are ones a sync still holds.
`Calendar` implements it for each connection (`ImplementsLifecycle`) under the mapping
`Standing` (of the row's status), `Asking` (a request between its read and its mark)
and `Held` (the grants of the workers at it). `RevocationHoldsOnceQuiet` follows from
it: with nothing asking and nothing held only a callback connects again; it is proved
by itself too and has no run of its own.

History: `lost` are connections whose sync a fault dropped, `regranted` those
reconnected during a sync, `overlapped` those that had two syncs at once, `leaked`
the flows whose callback died before DEL. Each is the exception a property makes, no wider than the
steps that force it.

### Login.tla

`ProviderVerificationService` and `AuthService.socialLogin`, one action per await. The
provider is part of the module: it publishes and withdraws keys at any time.

| Action | Code |
|---|---|
| `Begin`, `KakaoAnswers` | the routes of `verify` up to the first await; `verifyKakaoAccessToken` |
| `Discover`, `UseCachedKeys`, `FetchKeys`, `CacheKeys` | `getOpenIdConfiguration`, `getSigningKey` and `getJsonWithCache`: a hit, the request, and its answer cached over whatever is there |
| `FindIdentity`, `UpdateIdentity`, `CreateIdentity`, `CreateSession` | `socialLogin`: the read, `updateExistingIdentity`, `createFirstIdentity`, the session |
| `Publish`, `Withdraw`, `DeleteUser`, `Tick` | the provider, a user row removed outside the API, time |

What a signature, an issuer or a nonce is made of is a boolean of the payload. One
provider, production configuration (the development bridge refuses to start there).
A tick is a stretch of time, and what happens in it happens at some moment of it. An
entry that expires in a tick may therefore in that tick still be used (`Hit`) or have
expired already (`Miss`); both are explored, in any order, which allows more than one clock
would. The entry's hour begins when the answer
arrives (provider-verification.service.ts:406), and the keys in it are as old as the
moment the provider sent them. An answer is on its way for `FetchTime` at most: the code
sets no timeout, and what limits it are `fetch`'s own 300 s to the headers and between
chunks of the body. So a key that was withdrawn or published just after a slow answer was
sent is accepted or hidden for `CacheTTL + FetchTime`, which is what the two key
properties say. One tick less is false: with it TLC finds a key withdrawn while the
answer is on its way and accepted from the cache in the entry's last tick, and likewise
a new key that is not found.

### Onboarding.tla

One user's status, profile and attempts. Every operation is a read and a transaction
(`SelectRead`/`SelectWrite`, `StartFind`/`StartCreate`, `SubmitRead`/`SubmitWrite`,
`CompleteRead`/`CompleteCheck`/`Complete`, `ConfirmRead`/`ConfirmWrite`, and the
calendar's `ConnectRead`/`ConnectWrite` and `SkipRead`/`SkipWrite`); `completeFinderAttempt`
has two reads because it sends both at once and either may be first. `Abort` is death or
rollback. The scoring is the constant operator `Predict`, of which only its range is
assumed; `Finder` defines it. History: `overtaken` attempts, whose answers changed
while they were being completed, and `doubled`, two starts that both found none.

### Tasks.tla

The tasks of one user. `Routines` are constants: what the routines do to tasks depends
only on their names and cadence, which no modelled operation changes. A routine's task
is found by title, source and date, as in the code, so a PATCH or POST by hand makes
and unmakes routine tasks.

| Action | Code |
|---|---|
| `CreateTask`, `UpdateRead`, `UpdateWrite`, `CompleteTask`, `RescheduleTask` | `TasksService` |
| `EnsureStart`, `EnsureFind`, `EnsureCreate` | `ensureTodayTasks`, one routine at a time |
| `SkipFind`, `SkipCreate`, `SkipWrite`; `CheckFind`, `CheckCreate`, `CheckWrite` | `skipTodayRoutine`; `checkTodayRoutine` |
| `ScheduleBegin`, `ScheduleRefused`, `ScheduleUpdate`, `ScheduleCreate`, `ScheduleAbort` | `scheduleRoutine`: snapshot, refusal, commit, P2034 and its retries |

PostgreSQL's serializable isolation is `Conflicts`: a transaction is doomed when a row
it updates was written since its snapshot, or when it read, before it writes, what
another serializable one has written; it may be aborted without cause, too. History:
`torn` tasks, written by a request whose read was overtaken, and `origin`, how a task
came to its title and date.

### Reminders.tla

`TasksReminderWorker` in several processes, each await of its loop an action (`List`,
`Pick`, `Check`, `Send`, `Mark`), with `Crash`, `RedisFails`, the iterations of the
repeatable job (`Cron`), expiring marks (`Tick`) and tasks that change (`Edit`).
History says why a reminder may be sent twice: `expired`, `unmarked`, `contended`.

### Engagement.tla

Home requests (`HomeRead`, `HomeChecks`, `HomeFeedback`, `HomeVideos`,
`HomeWithoutVideo`, `HomeAnswer`), checks (`CheckFind`, `CheckCreate`) and feedback of
one user. Days are the unit of time, and no request outlives its day: the windows are
whole days, so a request at midnight shifts them by less than the unit. Each request
keeps, as history, what was true when it began, which the properties compare with what
it does.

### Patches.tla

`updatePreferences` and `updateGoal`, which read a row and write what they computed
from it in a later statement, and `createGoal`. A request notes whether another one
wrote the row in between (`raced`).

### Finder, RoutineStats, Goals, LocalDates; Answers.tla

Operators: `scoreAttempt` with exact fractions; streaks, weeks and the day's state of a
routine; progress and pace of a goal in integers, the rounding of floating point being
`slip`; offsets, local dates and their ranges in zones with one clock change. `Answers`
chooses one input at a time and compares each result with a definition that does not
follow the algorithm. The score of an axis is a fraction, kept in 1680ths: exact for up
to eight questions on the axis, where the question set of the repository asks seven.
`RoutineStats` uses recursive functions and sets, no recursive operator, so that its
streaks can be proved about.

### Paging.tla

The lists of ideas (by the cursor the API gives out, and by an id, which the code still
accepts), tasks and the backlog, read page by page while rows change (`Touch`) and
leave (`Leave`).

### Composition

`Answers`, `Paging` and `Patches` share no state with the services' modules or with
each other, so `MCEngagement` explores them from the first state of `Engagement`, one
at a time, instead of in a product of independent parts. Their theorems are therefore of
their own specifications, `AnswersSpec`, `PagingSpec` and `PatchesSpec`. `Onboarding` takes in the two
steps of `Calendar` that touch the same row; `Ideas` and `Tasks` each own what the other
only inserts.

In every module, a definition with a comment "Fault:" is a plausible bug that no
behaviour uses; it comes just before the definition it would replace, and documents
which mistake each property catches.

## 4. What the runs show

Runs that pass:

| Configuration | Properties | Bounds | Shows |
|---|---|---|---|
| SessionsMixed | `UndisturbedSessionIsIndexed`, `OnlyItsUserEndsASession`, `SpentTokenStaysSpent`, `GoneSessionStaysGone` | 2 users, 2 sessions, 2 requests, 3 tokens, crashes | order and TTLs of the three commands keep every undisturbed session in its set; the sets never lead to another user's session; superseded tokens stay dead; an ended session returns only through a refresh that had already read it |
| SessionsReclaim | `IndexIsReclaimed` | `FairSpec`, 1 user, users deleted | sets do not leak when no process dies |
| IdeasMixed | `RowsAreConsistent`, `OneTaskPerIdea`, `TasksMatchUnlessClashed`, `ImplementsLifecycle` | 1 idea, 2 requests, 3 ms, crashes | the conditional updates are enough, but for two writes in one millisecond; the whole implements `IdeaLifecycle` |
| IdeasConvert | `ConversionSucceeds` | `FairSpec`, 2 ideas, 3 requests | deadlocked conversions do not all fail |
| CalendarMixed | `SyncingIsPending`, `FlowIsSpent`, `CredentialsAreTheLastSaved`, `ImplementsLifecycle` | 1 connection, 1 flow, 2 requests, 2 workers, 2 jobs, 2 grants, faults, onboarding steps | four unconditional writers of one status leave it consistent with what is running; each step is one of `ConnectionLifecycle`, so that a revocation holds once what had begun is over |
| CalendarSyncs | `SyncEnds`, `EventsGoBackOnlyByOverlap` | `FairSpec`, 1 edit, 2 jobs, 2 workers, faults | every way out of a job takes the connection out of SYNCING; retries and deaths alone never bring an older calendar back |
| LoginMixed | `UsersAreIdentities`, `SessionsAreOfTheSubject`, `WithdrawnKeyIsRefused`, `NewKeyIsFound` | 2 subjects, 2 users, 2 requests, 1 key, 6 payloads, 4 ticks, an entry and a fetch of one each | racing first logins, a user removed in between, and key sets that were slow to arrive or are cached out of order |
| OnboardingMixed | `StepsHaveTheirProfile`, `ConfidenceIsOfTheType`, `PredictionIsOfTheAnswers`, `OneAttemptUnlessDoubled`, `OnboardingGoesBackOnlyStale` | 2 types, 2 questions, 2 attempts, 2 requests | five stale writers of one status never run ahead of the profile; results stay true of their answers but for the overlaps that are named |
| TasksMixed | `DoneIffCompleted`, `OneTaskPerRoutineDay`, `FinishedIsNotScheduled`, `DoneIsNotSkipped` | 2 tasks, 2 routines of one name, 1 day, 2 requests, 3 attempts of a transaction | duplicates and torn rows need an overlap with a statement outside the serializable transaction |
| RemindersRun | `SentOnceUnlessExcused`, `DueReminderIsSent` | fair, 2 tasks, 2 processes, marks of one tick, 3 ticks, 2 edits, 1 crash or failure | every reminder that stays due is sent, and twice only for a reason |
| EngagementMixed | `ReturnIsGreetedOnce`, `DismissalIsRespected`, `NoticeNeedsThreeLowChecks`, `FinderFollowsTheAnswers`, `StreakIsUnbroken`, `PaceIsOfTheRate`, `DaysPartitionTime`, `ListsAreExact`, `PatchesChangeWhatTheyName` | 4 days, 3 checks, 2 requests; 4 questions on four axes or 3 on one; 3 weeks; 3 rows; 2 PATCHes | overlapping Homes and checks; every bounded input of the algorithms; every list of three rows; overlapping PATCHes |

A run that finds the code to differ from what the repository says:

| Configuration | Property | What happens |
|---|---|---|
| SessionsCleanup | `SweepLeavesNoOrphan` | the scan pattern matches no session key |

Every other exception is part of a property, as narrow as the steps that force it, and
documents how the code falls short of the plain statement:

- A refresh that read a session before a logout stores it again, and two refreshes
  with one token are both answered (`GoneSessionStaysGone` and `SpentTokenStaysSpent`
  say what is left; the plain statements `LogoutEndsTheSession` and
  `TokenIsExchangedOnce` are in `Sessions`). A logout of all sessions loses the ids
  added to the set between its SMEMBERS and its DEL.
- A stale PATCH of an idea undoes a second archive (`ArchiveIsNotUndone` in `Ideas`);
  two writes of an idea that carry one `updatedAt` are one revision to a conversion.
- Two requests queue two syncs of one connection and two workers run them
  (`OneSyncAtATime` in `Calendar`); a worker or a sync request at work when the user
  revokes sets the row again (`RevokedIsSkipped`; calendar.service.ts:398).
- Two starts leave two attempts in progress (mbti.service.ts:179); an answer that
  arrives during `completeFinderAttempt` is stored but not scored (:285); a stale
  choice or confirmation moves the onboarding status back (:119).
- A withdrawn signing key outlives the hour of its cache entry by the time its answer was
  on the way, and a new key is hidden as long (provider-verification.service.ts:404).
- Overlapping generations of one day's tasks, in any pair but two reservations,
  duplicate a routine's task (routines.service.ts:342).
- A PATCH of a task that read it before it was completed leaves DONE without
  `completedAt`, or the reverse (tasks.service.ts:172), as does skipping a task that was
  just checked (routines.service.ts:255).
- Two processes send one reminder twice (tasks-reminder.worker.ts:88); the mark expires
  after thirty days and a task still due is then reminded of again.
- The lists of tasks and of the backlog take an id as the cursor but sort by another
  column, so their pages agree with the order only by chance; an idea's id, still
  accepted as a cursor, skips or repeats ideas that change.
- Two PATCHes of the preferences write two whole documents: the later loses the
  earlier (me.service.ts:103); goals keep a completion time computed from the status
  they had (goals.service.ts:118).

Also seen, in reads no module has: `PlanService.getWeek` bounds the calendar items of
the week by UTC midnights (plan.service.ts:128), where Home uses the user's time zone.

Bounds. Two requests are enough for every race of a read-then-write with one other
operation; three are used where a race needs a bystander (IdeasConvert).
Two of a kind are used where a property compares two (attempts, routines of one name,
subjects, reminders). `TTL` is small but greater than the number of ticks a race needs, so both "expires
meanwhile" and "does not" happen. `MaxTokens` and `MaxTime` bound counters in the
guards; `FetchTime` bounds how long an answer of the login provider takes, and 4 ticks let
a key be used one tick past the entry and fetch of one tick that the properties allow. `Ops` restricts an instance to the operations its question is about. Four days cross the
three-day thresholds of Home from both sides; three checks are what the support notice
needs; three weeks cross two Mondays, and a routine is
asked about before and after the week it was created in; the clock change of a zone is tried at every hour
of a day.
Symmetry is used for model values, never with a liveness property.

Fairness. `FairSpec` of Sessions: Redis answers each command and the event loop
resumes the request (weak fairness per request), and time passes. `FairSpec` of
Ideas: the database answers each statement, including by deadlock detection. `FairSpec` of
Calendar: weak fairness of each request's next statement and of each worker slot,
which takes waiting jobs (BullMQ polls for them) and goes on with the one it has; the
provider may fail every time. `Spec` of Reminders: time passes, BullMQ repeats the job,
and a process that can go on does (weak fairness of `Tick`, `Cron` and each `Job`);
crashes and failing commands are bounded there, since without end they would keep any
reminder from being sent. Nothing
makes a client send a request, and no fairness is put on crashes.
`ConversionSucceeds` is stated for clients that do not start conversions for ever:
with endless new conversions the database may keep choosing the wrong victim.

## 5. What is proved

TLAPS checks these for every value of the constants: any number of users, sessions,
requests, ideas, tasks, connections, workers, attempts, keys, days, and every TTL; any
rows and pages of a list, and any input of the algorithms. Every safety property of every
run that passes is stated by a theorem. The
assumptions are the modules' own (`SessionsAssumption` and its like: null values are not
values, bounds are naturals, TTLs positive, enumerated inputs of their type), which TLC
evaluates in every run. Two of them are more than types: `PagingAssumption` has finitely
many rows, and `AnswersAssumption` at most eight questions on an axis, which is as far as
the model's unit of a score is exact. In each module an inductive invariant `IInv` says what a request
in flight still knows of the rows it read; `InitHolds` and `StepHolds` prove it, with
one lemma per group of actions, and the theorems follow from it. The type invariants
are proved and not listed in the runs, which keep to the properties of section 1.

- `SessionsProofs`: `InductiveInvariant` (`IInv`: types; a request carries a session
  and the user that session was created for, `RequestsAreWired`; Redis holds only
  sessions and set members of the user they were created for, `StoreIsOwned`). From
  it `OnlyItsUserEnds`, `SpentTokens` and `GoneSessions` by looking at each action.
  `Indexing` needs more: `UndisturbedSessionIsIndexed` is not inductive because a
  logout in flight may be about to remove an entry and a store may be about to set
  a TTL on one that is gone; `LogoutsDisturb` says that the former only concerns
  disturbed sessions and the latter does not happen to others (`IndexInv`).
- `IdeasProofs`: `InductiveInvariant` (`IInv`: what a request read was consistent and
  what it computed from it agrees with the status it will set, `RequestsAreSound`; an
  inserted and uncommitted task belongs to one request, `TasksAreReserved`; nothing
  exists that was not created, `NothingUnborn`; and `RowsAreConsistent`,
  `OneTaskPerIdea` themselves). `Finality` follows because both conditional updates
  find an open row (`PatchedRow`, `CommitFacts`). `Matching` adds
  `RevisionsTellContents`: unless two writes clash, equal `updatedAt` means equal
  content. `Implementation` maps each step to a step of `IdeaLifecycle` or a stutter.

- `CalendarProofs`: `InductiveInvariant` (`IInv`: a request holds the flow, connection
  and unused job id its stage needs, `RequestsAreSound`; an active job has one worker,
  at the connection the job names, `WorkersAreSound`; a worker holds the credentials
  last saved, unless the user reconnected, `WorkersHoldTheLastSaved`; where no syncs
  overlapped there is one worker and it fetched nothing older than what is stored,
  `EventsMoveForward`). `Syncing` needs the first two, since a job id taken twice or a
  job with two workers would end a sync that is still counted as pending;
  `Credentials` needs that workers write back what they loaded; `Freshness` needs that
  versions only grow at the provider. `Revocation` is an action property: with the
  requests and workers of the connection gone, only a callback names it.
  `Implementation` maps each step to one of `ConnectionLifecycle` or a stutter. It needs
  two facts more, each inductive over `IInv`: a request about to save a connection
  carries a grant (`GrantsAreHeld`), and what a sync is asked for, queued for or at has
  a row, since rows are never deleted (`SyncsHaveARow`). The hard steps are the blind
  writes: an update by id of a revoked row is a step of `Answer` or `Settle`, so it has
  to come from a request that was asking or a worker that holds the credentials it
  writes.

- `LoginProofs`: `LeadsTo` says that a user id read or made for a subject is gone or
  still that subject's, which survives every write because ids are made once (`born`);
  `OneUserPerSubject` and `SessionOfTheSubject` follow. For the keys, `ChangedSince(keys,
  t)` says that what the provider changed of a set it changed at `t` or later; it holds
  of an answer in flight since it was sent, and of the cached set since an entry's life
  and one fetch before it expires (`CacheIsRecent`). `WithdrawnKeyRefused` and `NewKeyFound`
  are action properties: a token is checked against one of the two
  (`CheckedAgainstRecentKeys`), for any life of an entry and any `FetchTime`.
- `OnboardingProofs`: a calendar request in flight means that a profile exists, whatever
  the status does (`RequestIsSound`); a profile's confidence fits its type (`Fits`) and so
  does the one a confirmation has read; a request that scores has the attempt's answers,
  or the attempt is `overtaken`. `BackOnlyStale` looks at each write of the status.
- `TasksProofs`: unless its read was overtaken (`raced`, `doomed`), a request that found
  no task of its routine and day still finds none (`HoldsNone`), one that found an open
  task still does, and a PATCH holds the status of the row. `RoutineHasOneTask`,
  `CompletionIsRecorded`, `SkipsAreOfOpenTasks` and `ReservationsAreOfOpenTasks` follow,
  for any routines and any number of requests and retries.
- `RemindersProofs`: what was sent has its mark, or a process about to set it, or an
  excuse (`SentIsMarked`); two processes past the check of one reminder were noted
  (`RivalsAreNoted`). `SentOnce` follows.
- `EngagementProofs`, of Home: the last activity is never before the last Home answered
  (`VisitsAreActivity`), and what a request found dismissed stays within its cooldown
  while the request runs. `GreetedOnce`, `DismissalRespected` and `OneCheck` follow.
  `NoticeIsEarned` needs in addition that checks are kept the latest first
  (`ChecksAreOrdered`), so that the rows of a window are the first ones, and that a
  request in flight keeps the day from ending (`NoticeInv`).
- `EngagementProofs`, of the patches: `PatchesInv` types the rows and says that a request
  which was not overtaken still holds the row as it is, and that a goal has a completion
  time exactly while it is completed. `PatchesAreExact` then looks at the two writes.
- `EngagementProofs`, of the lists: `PagingInv` says, while a list is read, that every row
  that did not change was shown or is ahead of the cursor, that none shown is ahead, and
  that the cursor is no later than the row it came from (`ListIsSound`). A page is the
  sorted selection of what is ahead, so `PageRead` is a statement about sorting: what is
  ahead of the new cursor is what was ahead and is not on the page. `PagesAreExact`
  follows for each kind of list under the condition the property names.
- `EngagementProofs`, of the answers: an input is one of the assumed ones (`InputIsGiven`),
  and each property is then a theorem about the operators. `FinderIsFaithful` relates the
  sum of points of an axis to the number of answers at or past each mark (`AxisScoreIs`,
  `LeanBounds`), the fraction to the sign and size of the sum (`NormalizedIs`, by the eight
  divisors), and the ranking to a sort of distinct codes (`RankedAreFirst`). `StreaksAreCounted` compares the
  recursion backward over weeks or due dates with the sets of the reference
  (`WeeklyStreak`, `DailyStreak`). `DatesPartitionTime` splits on the side of the clock
  change an instant is on, `PaceFollowsTheRate` on the rounding of each division.

Induction is written as a smallest counterexample: a set of naturals has a least member
(`NatMin`) and a set of finite sets a minimal one (`SubsetInduction`), which the library
states as a property of relations and so needs no operator as a parameter. A recursive
function or a fold is first shown to exist, by giving the function that solves its
equation, and then to be unique where it is used (`SumIsUnique`, `RunExists`,
`StreakExists`).

Only model-checked: the liveness properties `IndexIsReclaimed`, `SyncEnds`,
`ConversionSucceeds` and `DueReminderIsSent` (fairness and ENABLED are out of the
prover's reach), and the counterexample. That the scaled integers of the finder stand
for the code's floating point is an abstraction, not a theorem; the same holds of the
`slip` of `Goals`.

## 6. Not modelled

- Quick capture: routes one text to a task, an idea or a check by keywords, and keeps no
  state.
- Access tokens as such: signing, parsing and the time they live. The guard's
  check of the stored session is part of `Sessions`.
- Provider verification: what makes a signature valid; the development bridge.
- The adapter of Google Calendar: pages, mapping of events, the refresh of a token.
- Routines: creating one, and the recommended window, which no other operation reads. Today's focus and daily reflections, single upserts under a
  unique key.
- The catalog of types and the question sets, which are files validated at start.
- Reads that only present rows: today, the week, the texts of Home, the listings of
  connections, goals and attempts.
- HTTP and validation layers, the mapping of errors to statuses, clients of PostgreSQL,
  Redis and BullMQ but for what they do to the modules above; seed data and scripts.
