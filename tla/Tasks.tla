-------------------------------- MODULE Tasks --------------------------------
(***************************************************************************)
(* The tasks of one user, as TasksService and RoutinesService write them.  *)
(*                                                                         *)
(* A routine owns no task: the task of a routine on a local date is any    *)
(* row with the routine's name as title, source ROUTINE and that date, and *)
(* no unique key keeps it single.  Every operation finds the row first and *)
(* writes later; only scheduleRoutine runs in a transaction, a Serializable *)
(* one that is retried when PostgreSQL aborts it (P2034).                  *)
(*                                                                         *)
(* INBOX stands for the three open statuses, which no code here tells      *)
(* apart; completedAt is kept as whether it is set, dueAt as whether it is *)
(* the time a reservation chose.  Operations whose read only establishes   *)
(* that the row exists (rows are never deleted) are one action.            *)
(***************************************************************************)
EXTENDS Integers, FiniteSets

CONSTANTS
  Tasks,       \* the task ids the database will produce
  Titles,      \* of tasks; the names of routines are among them
  Days,        \* local dates
  Routines,    \* the routines of the user
  Cadence,     \* their rows: [name, active, perWeek, days]
  Creates,     \* inputs of POST /tasks
  Updates,     \* inputs of PATCH /tasks/:id
  Reqs,        \* request slots
  NoTask, NoTitle, NoDay, NoRoutine,
  Keep         \* a field the input leaves out

(* createRoutine: exactly one of daysOfWeek and timesPerWeek.               *)
Creatable(row) == row.perWeek <=> row.days = {}

Statuses == {"INBOX", "DONE", "ARCHIVED"}
Finished == {"DONE", "ARCHIVED"}
MaxAttempts == 3

ASSUME TasksAssumption ==
  /\ NoTask \notin Tasks /\ NoTitle \notin Titles /\ NoDay \notin Days
  /\ NoRoutine \notin Routines /\ Keep \notin Titles \cup Days \cup {NoDay}
  /\ Cadence \in [Routines -> [name : Titles, active : BOOLEAN, perWeek : BOOLEAN,
                               days : SUBSET Days]]
  /\ \A n \in Routines : Creatable(Cadence[n])
  /\ Creates \subseteq [title : Titles, routine : BOOLEAN, day : Days \cup {NoDay}]
  /\ Updates \subseteq [title : Titles \cup {Keep}, status : Statuses \cup {Keep},
                        day : Days \cup {NoDay, Keep}]

VARIABLES
  tasks, \* rows of the table tasks
  req    \* the requests in flight

\* History: tasks a request wrote after the row it had read was overtaken; how
\* the row came to its title and date: alone, raced or by hand.
VARIABLES torn, origin

vars == <<tasks, req, torn, origin>>

-----------------------------------------------------------------------------
Row == [title : Titles, routine : BOOLEAN, status : Statuses, day : Days \cup {NoDay},
        reserved : BOOLEAN, completed : BOOLEAN]
Unborn == [title |-> NoTitle, routine |-> FALSE, status |-> "INBOX", day |-> NoDay,
           reserved |-> FALSE, completed |-> FALSE]
Live == {t \in Tasks : tasks[t] # Unborn}

\* A request: the task it found and, for an update, its status; for which routine and date, the
\* routines it has left, and whether something it read was written since.
Blank == [op |-> "idle", task |-> NoTask, status |-> "INBOX",
          input |-> [title |-> Keep, status |-> Keep, day |-> Keep],
          routine |-> NoRoutine, day |-> NoDay, left |-> {}, attempt |-> 0,
          raced |-> FALSE, doomed |-> FALSE]
Request == [op : {"idle", "update", "ensure", "skip", "check", "schedule", "retry"},
            task : Tasks \cup {NoTask}, status : Statuses,
            input : [title : Titles \cup {Keep}, status : Statuses \cup {Keep},
                     day : Days \cup {NoDay, Keep}],
            routine : Routines \cup {NoRoutine}, day : Days \cup {NoDay},
            left : SUBSET Routines, attempt : 0 .. MaxAttempts - 1,
            raced : BOOLEAN, doomed : BOOLEAN]

At(r, op) == req[r].op = op

\* The row is a task of routine n on day d.
Matches(row, n, d) == row.routine /\ row.title = Cadence[n].name /\ row.day = d

\* Request q looked for a task like row.
Missed(q, row) == q.routine \in Routines /\ Matches(row, q.routine, q.day)
\* It has read what a write of row as task t makes stale: that row, or that
\* there is none.  Between two reservations this is left to PostgreSQL.
Touches(q, t, row, serial) ==
  /\ q.op # "idle" /\ ~(q.op = "schedule" /\ serial)
  /\ q.task = t \/ (q.task = NoTask /\ Missed(q, row))

\* Fault: Serializable is not asked for.
ConflictsNever(q, t, row, serial) == FALSE
(* PostgreSQL aborts a Serializable transaction that updates a row written  *)
(* since its snapshot, or that writes after another Serializable one wrote  *)
(* what it should have found.                                               *)
Conflicts(q, t, row, serial) ==
  /\ q.op = "schedule"
  /\ \/ q.task = t
     \/ serial /\ Missed(q, row) /\ (q.task = NoTask \/ t \notin Live)

\* The other requests, after r has written row as task t.
Overtaken(r, t, row, serial) ==
  [q \in Reqs |->
     IF q = r THEN req[q]
     ELSE [req[q] EXCEPT !.raced = @ \/ Touches(req[q], t, row, serial),
                         !.doomed = @ \/ Conflicts(req[q], t, row, serial)]]

\* Task t becomes row; the request that wrote it goes on as next.
Write(r, t, row, next, serial) ==
  /\ tasks' = [tasks EXCEPT ![t] = row]
  /\ req' = [Overtaken(r, t, row, serial) EXCEPT ![r] = next]

-----------------------------------------------------------------------------
(* createTask: any source type is accepted, ROUTINE included.               *)
CreateTask(r, t, input) ==
  /\ At(r, "idle") /\ t \notin Live
  /\ Write(r, t, [title |-> input.title, routine |-> input.routine, status |-> "INBOX",
                  day |-> input.day, reserved |-> FALSE, completed |-> FALSE], Blank, FALSE)
  /\ origin' = [origin EXCEPT ![t] = "byHand"]
  /\ UNCHANGED torn

(* updateTask, its read.                                                    *)
UpdateRead(r, t, input) ==
  /\ At(r, "idle") /\ t \in Live
  /\ req' = [req EXCEPT ![r] = [Blank EXCEPT !.op = "update", !.task = t,
                                             !.status = tasks[t].status, !.input = input]]
  /\ UNCHANGED <<tasks, torn, origin>>

\* Fault: an archived task counts as completed.
ResolveCompletedFinished(status) == status \in Finished
(* resolveCompletedAt; which time it keeps is abstracted.                   *)
ResolveCompletedAt(status) == status = "DONE"

\* Fault: a field that was left out is written all the same.
GivenAlways(value, old) == value
Given(value, old) == IF value = Keep THEN old ELSE value

(* updateTask, its write: completedAt follows the status of the input, or   *)
(* the one that was read.                                                   *)
UpdateWrite(r) ==
  /\ At(r, "update")
  /\ LET t == req[r].task
         input == req[r].input
         old == tasks[t]
     IN /\ Write(r, t,
             [old EXCEPT
                !.title = Given(input.title, @),
                !.status = Given(input.status, @),
                !.day = Given(input.day, @),
                !.reserved = @ /\ input.day = Keep,
                !.completed = ResolveCompletedAt(Given(input.status, req[r].status))],
             Blank, FALSE)
        /\ torn' = IF req[r].raced THEN torn \cup {t} ELSE torn
        /\ origin' = IF input.title = Keep /\ input.day = Keep THEN origin
                     ELSE [origin EXCEPT ![t] = "byHand"]

(* completeTask: whatever the row holds, it is DONE with a completion time. *)
CompleteTask(r, t) ==
  /\ At(r, "idle") /\ t \in Live
  /\ Write(r, t, [tasks[t] EXCEPT !.status = "DONE", !.completed = TRUE], Blank, FALSE)
  /\ UNCHANGED <<torn, origin>>

(* rescheduleTask: due_at sets both fields, local_due_date alone the date.  *)
RescheduleTask(r, t, d, dueAt) ==
  /\ At(r, "idle") /\ t \in Live
  /\ Write(r, t, [tasks[t] EXCEPT !.day = d, !.reserved = @ /\ ~dueAt], Blank, FALSE)
  /\ origin' = [origin EXCEPT ![t] = "byHand"]
  /\ UNCHANGED torn

-----------------------------------------------------------------------------
(* isRoutineDueOn, and the test of ensureTodayTasks; days stand for the     *)
(* dates whose weekday is in daysOfWeek.                                    *)
DueOn(n, d) == Cadence[n].active /\ d \in Cadence[n].days

(* findRoutineTaskForDate and the find of scheduleRoutine: findFirst without *)
(* an order returns any of them.                                            *)
FindRoutineTask(n, d) == {t \in Live : Matches(tasks[t], n, d)}
Found(n, d) == IF FindRoutineTask(n, d) = {} THEN {NoTask} ELSE FindRoutineTask(n, d)

(* createRoutineTask.                                                       *)
RoutineRow(n, d, status, reserved) ==
  [title |-> Cadence[n].name, routine |-> TRUE, status |-> status, day |-> d,
   reserved |-> reserved, completed |-> status = "DONE"]

\* Request r creates task t for its routine and date.
CreateRoutineTask(r, t, status, next, serial) ==
  /\ t \notin Live
  /\ Write(r, t, RoutineRow(req[r].routine, req[r].day, status, serial), next, serial)
  /\ origin' = [origin EXCEPT ![t] = IF req[r].raced THEN "raced" ELSE "alone"]
  /\ UNCHANGED torn

(* generateTodayTasks and getRoutines: the active routines due on the day.  *)
EnsureStart(r, d) ==
  /\ At(r, "idle")
  /\ LET due == {n \in Routines : DueOn(n, d)}
     IN due # {} /\ req' = [req EXCEPT ![r] = [Blank EXCEPT !.op = "ensure", !.day = d, !.left = due]]
  /\ UNCHANGED <<tasks, torn, origin>>

\* The loop goes on with the routines left, or ends.
After(r, left) ==
  IF left = {} THEN Blank
  ELSE [Blank EXCEPT !.op = "ensure", !.day = req[r].day, !.left = left]

(* ensureTodayTasks, one round: the find ...                                *)
EnsureFind(r, n) ==
  /\ At(r, "ensure") /\ req[r].routine = NoRoutine /\ n \in req[r].left
  /\ req' = [req EXCEPT ![r] =
       IF FindRoutineTask(n, @.day) # {} THEN After(r, @.left \ {n})
       ELSE [@ EXCEPT !.routine = n]]
  /\ UNCHANGED <<tasks, torn, origin>>

(* ... and the create.                                                      *)
EnsureCreate(r, t) ==
  /\ At(r, "ensure") /\ req[r].routine # NoRoutine
  /\ CreateRoutineTask(r, t, "INBOX", After(r, req[r].left \ {req[r].routine}), FALSE)

-----------------------------------------------------------------------------
\* Request r looks for the task of n on d; one it will not touch ends it.
Find(r, op, n, d, t) ==
  /\ t \in Found(n, d)
  /\ req' = [req EXCEPT ![r] =
       [Blank EXCEPT !.op = op, !.routine = n, !.day = d, !.task = t,
                     !.attempt = req[r].attempt]]
  /\ UNCHANGED <<tasks, torn, origin>>

\* Fault: the status found is not looked at.
OpenAlways(t) == TRUE
Open(t) == t # NoTask => tasks[t].status # "DONE"

(* skipTodayRoutine: a routine that is not due, or done, is left alone.     *)
SkipFind(r, n, d, t) ==
  /\ At(r, "idle") /\ DueOn(n, d)
  /\ Open(t)
  /\ Find(r, "skip", n, d, t)

SkipCreate(r, t) ==
  /\ At(r, "skip") /\ req[r].task = NoTask
  /\ CreateRoutineTask(r, t, "INBOX",
       [req[r] EXCEPT !.task = t, !.raced = FALSE], FALSE)

SkipWrite(r) ==
  /\ At(r, "skip") /\ req[r].task # NoTask
  /\ LET t == req[r].task
     IN /\ Write(r, t, [tasks[t] EXCEPT !.status = "ARCHIVED", !.day = req[r].day], Blank, FALSE)
        /\ torn' = IF req[r].raced THEN torn \cup {t} ELSE torn
        /\ origin' = IF req[r].raced THEN [origin EXCEPT ![t] = "raced"] ELSE origin

(* checkTodayRoutine: only for routines counted per week.                   *)
CheckFind(r, n, d, t) ==
  /\ At(r, "idle") /\ Cadence[n].perWeek
  /\ Open(t)
  /\ Find(r, "check", n, d, t)

CheckCreate(r, t) ==
  /\ At(r, "check") /\ req[r].task = NoTask
  /\ CreateRoutineTask(r, t, "DONE", Blank, FALSE)

CheckWrite(r) ==
  /\ At(r, "check") /\ req[r].task # NoTask
  /\ Write(r, req[r].task, [tasks[req[r].task] EXCEPT !.status = "DONE", !.completed = TRUE],
           Blank, FALSE)
  /\ UNCHANGED <<torn, origin>>

-----------------------------------------------------------------------------
(* scheduleRoutine: inactive routines and dates a weekly one is not due on  *)
(* are refused.                                                             *)
Schedulable(n, d) == Cadence[n].active /\ (Cadence[n].perWeek \/ DueOn(n, d))

\* Fault: a finished task is scheduled again.
RefusesNever(status) == FALSE
Refuses(status) == status \in Finished

(* scheduleRoutine, the snapshot of an attempt; a finished task is refused. *)
ScheduleBegin(r, n, d, t) ==
  /\ \/ At(r, "idle") /\ Schedulable(n, d)
     \/ At(r, "retry") /\ req[r].routine = n /\ req[r].day = d
  /\ t # NoTask => ~Refuses(tasks[t].status)
  /\ Find(r, "schedule", n, d, t)

ScheduleRefused(r, t) ==
  /\ At(r, "retry") /\ t \in FindRoutineTask(req[r].routine, req[r].day)
  /\ Refuses(tasks[t].status)
  /\ req' = [req EXCEPT ![r] = Blank]
  /\ UNCHANGED <<tasks, torn, origin>>

(* Its commit, for a transaction with no conflict.                          *)
ScheduleUpdate(r) ==
  /\ At(r, "schedule") /\ ~req[r].doomed /\ req[r].task # NoTask
  /\ Write(r, req[r].task, [tasks[req[r].task] EXCEPT !.reserved = TRUE], Blank, TRUE)
  /\ UNCHANGED <<torn, origin>>

ScheduleCreate(r, t) ==
  /\ At(r, "schedule") /\ ~req[r].doomed /\ req[r].task = NoTask
  /\ CreateRoutineTask(r, t, "INBOX", Blank, TRUE)

(* P2034: retried twice, then answered with the error.  PostgreSQL may      *)
(* abort a Serializable transaction that has no conflict, too.              *)
ScheduleAbort(r) ==
  /\ At(r, "schedule")
  /\ req' = [req EXCEPT ![r] =
       IF @.attempt >= MaxAttempts - 1 THEN Blank
       ELSE [Blank EXCEPT !.op = "retry", !.routine = req[r].routine,
                          !.day = req[r].day, !.attempt = req[r].attempt + 1]]
  /\ UNCHANGED <<tasks, torn, origin>>

-----------------------------------------------------------------------------
Init ==
  /\ tasks = [t \in Tasks |-> Unborn]
  /\ req = [r \in Reqs |-> Blank]
  /\ torn = {} /\ origin = [t \in Tasks |-> "alone"]

TaskRequest(r) ==
  \/ \E t \in Tasks, input \in Creates : CreateTask(r, t, input)
  \/ \E t \in Tasks, input \in Updates : UpdateRead(r, t, input)
  \/ UpdateWrite(r)
  \/ \E t \in Tasks : CompleteTask(r, t)
  \/ \E t \in Tasks, d \in Days \cup {NoDay}, dueAt \in BOOLEAN : RescheduleTask(r, t, d, dueAt)

RoutineRequest(r) ==
  \/ \E d \in Days : EnsureStart(r, d)
  \/ \E n \in Routines : EnsureFind(r, n)
  \/ \E t \in Tasks : EnsureCreate(r, t) \/ SkipCreate(r, t) \/ CheckCreate(r, t)
  \/ \E n \in Routines, d \in Days, t \in Tasks \cup {NoTask} :
        SkipFind(r, n, d, t) \/ CheckFind(r, n, d, t)
  \/ SkipWrite(r)
  \/ CheckWrite(r)

ScheduleRequest(r) ==
  \/ \E n \in Routines, d \in Days, t \in Tasks \cup {NoTask} : ScheduleBegin(r, n, d, t)
  \/ \E t \in Tasks : ScheduleRefused(r, t) \/ ScheduleCreate(r, t)
  \/ ScheduleUpdate(r)
  \/ ScheduleAbort(r)

Next == \E r \in Reqs : TaskRequest(r) \/ RoutineRequest(r) \/ ScheduleRequest(r)

Spec == Init /\ [][Next]_vars

-----------------------------------------------------------------------------
(* Every row and request has the shape the services give it.                *)
TypeOK ==
  /\ tasks \in [Tasks -> Row \cup {Unborn}]
  /\ req \in [Reqs -> Request]
  /\ torn \subseteq Tasks
  /\ origin \in [Tasks -> {"alone", "raced", "byHand"}]

(* A task has a completion time exactly while it is DONE (resolveCompletedAt, *)
(* completeTask, checkTodayRoutine), unless a request wrote it after the row *)
(* it had read was overtaken: updateTask derives the time from the status it *)
(* read, and skipTodayRoutine archives without clearing the time.           *)
DoneIffCompleted ==
  \A t \in Live \ torn : tasks[t].status = "DONE" <=> tasks[t].completed

(* At most one task of a routine on a date ("중복 생성 방지", ensureTodayTasks):  *)
(* two need a request that created one while another request did, and two   *)
(* reservations never double; or a client that moved or made one by hand.   *)
OneTaskPerRoutineDay ==
  \A t, u \in Live :
    /\ t # u /\ tasks[t].routine /\ tasks[u].routine
    /\ tasks[t].title = tasks[u].title /\ tasks[t].day = tasks[u].day
    => origin[t] # "alone" \/ origin[u] # "alone"

(* A reservation never touches a task that is done or skipped by the time   *)
(* it commits ("Completed or skipped routine tasks cannot be scheduled").   *)
FinishedIsNotScheduled ==
  [][\A t \in Tasks :
       tasks[t].status \in Finished /\ tasks'[t].reserved => tasks[t].reserved]_vars

(* Skipping archives a done task only when it was done after the skip had   *)
(* read it (already_done).                                                  *)
DoneIsNotSkipped ==
  [][\A r \in Reqs : At(r, "skip") /\ req[r].task # NoTask /\ req'[r] = Blank
       => req[r].raced \/ tasks[req[r].task].status # "DONE"]_vars
=============================================================================
