----------------------------- MODULE TasksProofs -----------------------------
(***************************************************************************)
(* Tasks, for any routines, cadences, dates and inputs and any number of   *)
(* tasks and requests.                                                     *)
(*                                                                         *)
(* What a request read is true until the row is written by another: then   *)
(* the request is raced, or, in a transaction, doomed.  The invariant says *)
(* so of each kind of request, and of a row that was not found: none       *)
(* matches until one is written.                                           *)
(***************************************************************************)
EXTENDS Tasks, TLAPS

\* Request x holds that its routine has no task on its date, and will create it.
HoldsNone(x) ==
  /\ x.op \in {"ensure", "skip", "check", "schedule"} /\ x.routine \in Routines
  /\ x.task = NoTask /\ ~x.raced /\ (x.op = "schedule" => ~x.doomed)

RequestIsSound(r) ==
  /\ req[r].op \in {"skip", "check", "schedule", "retry"} =>
       req[r].routine \in Routines /\ req[r].day \in Days
  /\ At(r, "ensure") => req[r].day \in Days /\ req[r].task = NoTask
  /\ At(r, "update") \/ (req[r].op \in {"skip", "check", "schedule"} /\ req[r].task # NoTask) =>
       req[r].task \in Live
  /\ At(r, "update") /\ ~req[r].raced => req[r].status = tasks[req[r].task].status
  /\ At(r, "skip") /\ req[r].task # NoTask /\ ~req[r].raced =>
       /\ tasks[req[r].task].status # "DONE"
       /\ Matches(tasks[req[r].task], req[r].routine, req[r].day)
  /\ At(r, "schedule") /\ req[r].task # NoTask /\ ~req[r].doomed =>
       tasks[req[r].task].status \notin Finished
  /\ HoldsNone(req[r]) => \A u \in Live : ~Matches(tasks[u], req[r].routine, req[r].day)

Origins == {"alone", "raced", "byHand"}

\* If row came by its routine and date alone, no other task did.
Single(t, row, o) ==
  \A u \in Live \ {t} :
    /\ o = "alone" /\ origin[u] = "alone" /\ row.routine /\ tasks[u].routine
    => ~(tasks[u].title = row.title /\ tasks[u].day = row.day)

RequestsAreSound == \A r \in Reqs : RequestIsSound(r)

IInv == TypeOK /\ RequestsAreSound /\ DoneIffCompleted /\ OneTaskPerRoutineDay

LEMMA EmptyRecords ==
  /\ Blank \in Request /\ Blank.op = "idle" /\ Unborn.status = "INBOX" /\ Unborn.reserved = FALSE
  /\ \A row \in Row : row # Unborn
<1>1. Blank \in Request /\ Blank.op = "idle"
  BY DEF Blank, Request, Statuses, MaxAttempts
<1>2. \A row \in Row : row # Unborn
  BY TasksAssumption DEF Row, Unborn
<1> QED BY <1>1, <1>2 DEF Unborn

LEMMA LiveRows == ASSUME TypeOK, NEW t \in Live PROVE t \in Tasks /\ tasks[t] \in Row
BY DEF Live, TypeOK

(* What Write does to the rows and to the requests.                         *)
LEMMA WriteEffect ==
  ASSUME TypeOK, NEW r \in Reqs, NEW t \in Tasks, NEW row \in Row, NEW next \in Request,
         NEW serial \in BOOLEAN, Write(r, t, row, next, serial)
  PROVE  /\ tasks' \in [Tasks -> Row \cup {Unborn}] /\ tasks'[t] = row
         /\ \A u \in Tasks \ {t} : tasks'[u] = tasks[u]
         /\ Live' = Live \cup {t}
         /\ req' \in [Reqs -> Request] /\ req'[r] = next
         /\ \A q \in Reqs \ {r} :
              /\ req'[q].op = req[q].op /\ req'[q].task = req[q].task
              /\ req'[q].status = req[q].status /\ req'[q].routine = req[q].routine
              /\ req'[q].day = req[q].day
              /\ req'[q].raced <=> req[q].raced \/ Touches(req[q], t, row, serial)
              /\ req'[q].doomed <=> req[q].doomed \/ Conflicts(req[q], t, row, serial)
<1>1. tasks' = [tasks EXCEPT ![t] = row]
  BY DEF Write
<1>2. tasks' \in [Tasks -> Row \cup {Unborn}] /\ tasks'[t] = row
      /\ \A u \in Tasks \ {t} : tasks'[u] = tasks[u]
  BY <1>1 DEF TypeOK
<1>3. Live' = Live \cup {t}
  BY <1>2, EmptyRecords DEF Live
<1>4. req \in [Reqs -> Request]
  BY DEF TypeOK
<1> DEFINE over == Overtaken(r, t, row, serial)
<1>5. ASSUME NEW q \in Reqs \ {r}
      PROVE  /\ over[q] \in Request
             /\ over[q].op = req[q].op /\ over[q].task = req[q].task
             /\ over[q].status = req[q].status /\ over[q].routine = req[q].routine
             /\ over[q].day = req[q].day
             /\ over[q].raced <=> req[q].raced \/ Touches(req[q], t, row, serial)
             /\ over[q].doomed <=> req[q].doomed \/ Conflicts(req[q], t, row, serial)
  <2> DEFINE x == req[q]
             raced == x.raced \/ Touches(x, t, row, serial)
             doomed == x.doomed \/ Conflicts(x, t, row, serial)
  <2>1. over[q] = [x EXCEPT !.raced = raced, !.doomed = doomed]
    BY DEF Overtaken
  <2>2. raced \in BOOLEAN /\ doomed \in BOOLEAN
    OBVIOUS
  <2>3. x \in Request
    BY <1>4
  <2> HIDE DEF x, raced, doomed, over
  <2>4. /\ over[q] \in Request
        /\ over[q].op = x.op /\ over[q].task = x.task /\ over[q].status = x.status
        /\ over[q].routine = x.routine /\ over[q].day = x.day
        /\ over[q].raced = raced /\ over[q].doomed = doomed
    BY <2>1, <2>2, <2>3 DEF Request
  <2> QED BY <2>4 DEF x, raced, doomed
<1>6. over[r] = req[r] /\ over \in [Reqs -> Request]
  <2>1. over[r] = req[r] /\ DOMAIN over = Reqs /\ over = [q \in Reqs |-> over[q]]
    BY DEF Overtaken
  <2> HIDE DEF over
  <2> QED BY <1>4, <1>5, <2>1
<1>7. req' = [over EXCEPT ![r] = next]
  BY DEF Write
<1> HIDE DEF over
<1>8. req' \in [Reqs -> Request] /\ req'[r] = next /\ \A q \in Reqs \ {r} : req'[q] = over[q]
  BY <1>6, <1>7
<1> QED BY <1>2, <1>3, <1>5, <1>8

(* The other requests remain sound.                                         *)
LEMMA OthersStaySound ==
  ASSUME TypeOK, RequestsAreSound, NEW r \in Reqs, NEW t \in Tasks, NEW row \in Row,
         NEW next \in Request, NEW serial \in BOOLEAN, Write(r, t, row, next, serial),
         NEW q \in Reqs \ {r}
  PROVE  RequestIsSound(q)'
<1> DEFINE x == req[q]
           y == req'[q]
<1>1. /\ \A u \in Tasks \ {t} : tasks'[u] = tasks[u]
      /\ Live' = Live \cup {t} /\ tasks'[t] = row
      /\ y.op = x.op /\ y.task = x.task /\ y.status = x.status /\ y.routine = x.routine
      /\ y.day = x.day
      /\ y.raced <=> x.raced \/ Touches(x, t, row, serial)
      /\ y.doomed <=> x.doomed \/ Conflicts(x, t, row, serial)
  BY WriteEffect
<1>2. RequestIsSound(q) /\ Live \subseteq Tasks
  BY DEF RequestsAreSound, Live
<1>3. y.op \in {"skip", "check", "schedule", "retry"} => y.routine \in Routines /\ y.day \in Days
  BY <1>1, <1>2 DEF RequestIsSound
<1>4. y.op = "ensure" => y.day \in Days /\ y.task = NoTask
  BY <1>1, <1>2 DEF RequestIsSound, At
<1>5. y.op = "update" \/ (y.op \in {"skip", "check", "schedule"} /\ y.task # NoTask) =>
        x.task \in Live /\ y.task \in Live'
  BY <1>1, <1>2 DEF RequestIsSound, At
<1>6. y.op = "update" /\ ~y.raced => y.status = tasks'[y.task].status
  <2> SUFFICES ASSUME y.op = "update", ~y.raced PROVE y.status = tasks'[y.task].status
    OBVIOUS
  <2>1. x.task # t
    BY <1>1 DEF Touches
  <2>2. tasks'[x.task] = tasks[x.task]
    BY <1>1, <1>2, <1>5, <2>1
  <2> QED BY <1>1, <1>2, <2>2 DEF RequestIsSound, At
<1>7. y.op = "skip" /\ y.task # NoTask /\ ~y.raced =>
        tasks'[y.task].status # "DONE" /\ Matches(tasks'[y.task], y.routine, y.day)
  <2> SUFFICES ASSUME y.op = "skip", y.task # NoTask, ~y.raced
               PROVE  tasks'[y.task].status # "DONE" /\ Matches(tasks'[y.task], y.routine, y.day)
    OBVIOUS
  <2>1. x.task # t
    BY <1>1 DEF Touches
  <2>2. tasks'[x.task] = tasks[x.task]
    BY <1>1, <1>2, <1>5, <2>1
  <2> QED BY <1>1, <1>2, <2>2 DEF RequestIsSound, At
<1>8. y.op = "schedule" /\ y.task # NoTask /\ ~y.doomed => tasks'[y.task].status \notin Finished
  <2> SUFFICES ASSUME y.op = "schedule", y.task # NoTask, ~y.doomed
               PROVE  tasks'[y.task].status \notin Finished
    OBVIOUS
  <2>1. x.task # t
    BY <1>1 DEF Conflicts
  <2>2. tasks'[x.task] = tasks[x.task]
    BY <1>1, <1>2, <1>5, <2>1
  <2> QED BY <1>1, <1>2, <2>2 DEF RequestIsSound, At
<1>9. ASSUME HoldsNone(y), NEW u \in Live' PROVE ~Matches(tasks'[u], y.routine, y.day)
  <2>1. HoldsNone(x)
    BY <1>1, <1>9 DEF HoldsNone
  <2>2. CASE u # t
    BY <1>1, <1>2, <2>1, <2>2 DEF RequestIsSound
  <2>3. ~Missed(x, row)
    BY <1>1, <1>9, <2>1 DEF HoldsNone, Touches, Conflicts
  <2>4. ~Matches(row, x.routine, x.day)
    BY <2>1, <2>3 DEF Missed, HoldsNone
  <2> QED BY <1>1, <2>2, <2>4
<1> QED
  BY <1>3, <1>4, <1>5, <1>6, <1>7, <1>8, <1>9 DEF RequestIsSound, At

(* A request that only reads, or ends.                                      *)
LEMMA ReadStep ==
  ASSUME IInv, NEW r \in Reqs, NEW next \in Request, req' = [req EXCEPT ![r] = next],
         UNCHANGED <<tasks, torn, origin>>, req'[r] = next => RequestIsSound(r)'
  PROVE  IInv'
<1>1. req' \in [Reqs -> Request] /\ req'[r] = next /\ \A q \in Reqs \ {r} : req'[q] = req[q]
  BY DEF IInv, TypeOK
<1>2. TypeOK'
  BY <1>1 DEF IInv, TypeOK
<1>3. ASSUME NEW q \in Reqs \ {r} PROVE RequestIsSound(q)'
  <2>1. RequestIsSound(q) /\ req'[q] = req[q] /\ tasks' = tasks /\ Live' = Live
    BY <1>1 DEF IInv, RequestsAreSound, Live
  <2> QED BY <2>1 DEF RequestIsSound, At
<1>4. DoneIffCompleted' /\ OneTaskPerRoutineDay'
  BY DEF IInv, DoneIffCompleted, OneTaskPerRoutineDay, Live
<1> QED BY <1>1, <1>2, <1>3, <1>4 DEF IInv, RequestsAreSound

(* A request that writes row as task t.                                     *)
LEMMA WriteStep ==
  ASSUME IInv, NEW r \in Reqs, NEW t \in Tasks, NEW row \in Row, NEW next \in Request,
         NEW serial \in BOOLEAN, Write(r, t, row, next, serial),
         NEW o \in Origins, origin' = [origin EXCEPT ![t] = o],
         torn' \in {torn, torn \cup {t}},
         t \in torn' \/ (row.status = "DONE" <=> row.completed),
         Single(t, row, o),
         req'[r] = next /\ tasks'[t] = row /\ t \in Live' => RequestIsSound(r)'
  PROVE  IInv'
<1>1. TypeOK /\ RequestsAreSound
  BY DEF IInv
<1>2. /\ tasks' \in [Tasks -> Row \cup {Unborn}] /\ tasks'[t] = row
      /\ \A u \in Tasks \ {t} : tasks'[u] = tasks[u]
      /\ Live' = Live \cup {t}
      /\ req' \in [Reqs -> Request] /\ req'[r] = next
  BY <1>1, WriteEffect
<1>3. origin' \in [Tasks -> {"alone", "raced", "byHand"}] /\ origin'[t] = o
      /\ \A u \in Tasks \ {t} : origin'[u] = origin[u]
  BY <1>1 DEF TypeOK, Origins
<1>4. TypeOK'
  BY <1>1, <1>2, <1>3 DEF TypeOK
<1>5. RequestsAreSound'
  BY <1>1, <1>2, OthersStaySound DEF RequestsAreSound
<1>6. DoneIffCompleted'
  BY <1>2 DEF IInv, DoneIffCompleted, Live
<1>7. OneTaskPerRoutineDay'
  BY <1>2, <1>3 DEF IInv, OneTaskPerRoutineDay, Live, Single
<1> QED BY <1>4, <1>5, <1>6, <1>7 DEF IInv

(* A request that changes a row and ends; only a client's own change makes   *)
(* the row one of another routine or date.                                   *)
LEMMA ChangeStep ==
  ASSUME IInv, NEW r \in Reqs, NEW t \in Live, NEW row \in Row, NEW serial \in BOOLEAN,
         Write(r, t, row, Blank, serial), torn' \in {torn, torn \cup {t}},
         NEW o \in Origins, origin' = [origin EXCEPT ![t] = o],
         t \in torn' \/ (row.status = "DONE" <=> row.completed),
         o = "alone" => /\ origin[t] = "alone" /\ row.routine = tasks[t].routine
                        /\ row.title = tasks[t].title /\ row.day = tasks[t].day
  PROVE  IInv'
<1>1. t \in Tasks
  BY DEF Live
<1>2. ASSUME req'[r] = Blank PROVE RequestIsSound(r)'
  BY <1>2, EmptyRecords DEF RequestIsSound, At, HoldsNone
<1>3. Single(t, row, o)
  BY DEF IInv, OneTaskPerRoutineDay, Single
<1>4. Blank \in Request
  BY EmptyRecords
<1>5. req'[r] = Blank /\ tasks'[t] = row /\ t \in Live' => RequestIsSound(r)'
  BY <1>2
<1> HIDE <1>2
<1> QED BY <1>1, <1>3, <1>4, <1>5, WriteStep

(* A request that creates a routine's task, having found none.              *)
LEMMA CreateRoutineStep ==
  ASSUME IInv, NEW r \in Reqs, NEW t \in Tasks, NEW status \in Statuses, NEW next \in Request,
         NEW serial \in BOOLEAN, CreateRoutineTask(r, t, status, next, serial),
         req[r].op \in {"ensure", "skip", "check", "schedule"}, req[r].task = NoTask,
         req[r].routine \in Routines, At(r, "schedule") => ~req[r].doomed,
         req'[r] = next /\ tasks'[t] = RoutineRow(req[r].routine, req[r].day, status, serial)
           /\ t \in Live' => RequestIsSound(r)'
  PROVE  IInv'
<1> DEFINE n == req[r].routine
           d == req[r].day
           row == RoutineRow(n, d, status, serial)
           o == IF req[r].raced THEN "raced" ELSE "alone"
<1>1. RequestIsSound(r) /\ n \in Routines /\ d \in Days
  BY DEF IInv, RequestsAreSound, RequestIsSound, At
<1>2. /\ row \in Row /\ row.routine = TRUE /\ row.title = Cadence[n].name /\ row.day = d
      /\ row.status = "DONE" <=> row.completed
  BY <1>1, TasksAssumption DEF RoutineRow, Row
<1>3. /\ t \notin Live /\ Write(r, t, row, next, serial) /\ origin' = [origin EXCEPT ![t] = o]
      /\ torn' = torn
  BY DEF CreateRoutineTask
<1>4. o \in Origins
  BY DEF Origins
<1>5. ASSUME NEW u \in Live, o = "alone", tasks[u].routine
      PROVE  ~(tasks[u].title = row.title /\ tasks[u].day = row.day)
  <2>1. HoldsNone(req[r])
    BY <1>1, <1>5 DEF HoldsNone, At
  <2> QED BY <1>1, <1>2, <1>5, <2>1 DEF RequestIsSound, Matches
<1>6. Single(t, row, o)
  BY <1>5 DEF Single
<1>7. req'[r] = next /\ tasks'[t] = row /\ t \in Live' => RequestIsSound(r)'
  OBVIOUS
<1> HIDE DEF row, o
<1> QED BY <1>2, <1>3, <1>4, <1>6, <1>7, WriteStep

(* TasksService.                                                            *)
LEMMA TaskSteps ==
  ASSUME IInv, NEW r \in Reqs, TaskRequest(r)
  PROVE  IInv'
<1>t. TypeOK /\ RequestIsSound(r) /\ req[r] \in Request
  BY DEF IInv, RequestsAreSound, TypeOK
<1>1. ASSUME NEW t \in Tasks, NEW input \in Creates, CreateTask(r, t, input) PROVE IInv'
  <2> DEFINE row == [title |-> input.title, routine |-> input.routine, status |-> "INBOX",
                     day |-> input.day, reserved |-> FALSE, completed |-> FALSE]
  <2>1. row \in Row /\ row.status = "INBOX" /\ row.completed = FALSE
    BY TasksAssumption DEF Row, Statuses
  <2>2. /\ Write(r, t, row, Blank, FALSE) /\ origin' = [origin EXCEPT ![t] = "byHand"]
        /\ torn' = torn
    BY <1>1 DEF CreateTask
  <2> HIDE DEF row
  <2>3. ASSUME req'[r] = Blank PROVE RequestIsSound(r)'
    BY <2>3, EmptyRecords DEF RequestIsSound, At, HoldsNone
  <2>4. Blank \in Request /\ Single(t, row, "byHand") /\ "byHand" \in Origins
    BY EmptyRecords DEF Single, Origins
  <2> QED BY <2>1, <2>2, <2>3, <2>4, WriteStep
<1>2. ASSUME NEW t \in Tasks, NEW input \in Updates, UpdateRead(r, t, input) PROVE IInv'
  <2> DEFINE next == [Blank EXCEPT !.op = "update", !.task = t, !.status = tasks[t].status,
                                   !.input = input]
  <2>1. t \in Live /\ tasks[t] \in Row
    BY <1>t, <1>2, LiveRows DEF UpdateRead
  <2>2. input \in [title : Titles \cup {Keep}, status : Statuses \cup {Keep},
                   day : Days \cup {NoDay, Keep}]
    BY TasksAssumption
  <2>3. /\ next \in Request /\ next.op = "update" /\ next.task = t
        /\ next.status = tasks[t].status
    BY <2>1, <2>2, EmptyRecords DEF Request, Row
  <2>4. req' = [req EXCEPT ![r] = next] /\ UNCHANGED <<tasks, torn, origin>>
    BY <1>2 DEF UpdateRead
  <2> HIDE DEF next
  <2>5. ASSUME req'[r] = next PROVE RequestIsSound(r)'
    BY <2>1, <2>3, <2>4, <2>5 DEF RequestIsSound, At, HoldsNone, Live
  <2> QED BY <2>3, <2>4, <2>5, ReadStep
<1>3. CASE UpdateWrite(r)
  <2> DEFINE t == req[r].task
             input == req[r].input
             old == tasks[t]
             row == [old EXCEPT
                       !.title = Given(input.title, old.title),
                       !.status = Given(input.status, old.status),
                       !.day = Given(input.day, old.day),
                       !.reserved = old.reserved /\ input.day = Keep,
                       !.completed = ResolveCompletedAt(Given(input.status, req[r].status))]
             kept == input.title = Keep /\ input.day = Keep
             o == IF kept THEN origin[t] ELSE "byHand"
  <2>1. t \in Live /\ t \in Tasks /\ old \in Row /\ At(r, "update")
    BY <1>t, <1>3, LiveRows DEF UpdateWrite, RequestIsSound
  <2>2. input \in [title : Titles \cup {Keep}, status : Statuses \cup {Keep},
                   day : Days \cup {NoDay, Keep}]
    BY <1>t DEF Request
  <2>3. /\ Write(r, t, row, Blank, FALSE)
        /\ torn' = IF req[r].raced THEN torn \cup {t} ELSE torn
        /\ origin' = IF kept THEN origin ELSE [origin EXCEPT ![t] = "byHand"]
    BY <1>3 DEF UpdateWrite
  <2>4. origin' = [origin EXCEPT ![t] = o] /\ o \in Origins
    BY <1>t, <2>1, <2>3 DEF TypeOK, Origins
  <2>5. /\ Given(input.title, old.title) \in Titles
        /\ Given(input.status, old.status) \in Statuses
        /\ Given(input.day, old.day) \in Days \cup {NoDay}
        /\ old.reserved \in BOOLEAN
    BY <2>1, <2>2 DEF Given, Row
  <2>6. /\ row \in Row /\ row.routine = old.routine
        /\ row.title = Given(input.title, old.title) /\ row.day = Given(input.day, old.day)
        /\ row.status = Given(input.status, old.status)
        /\ row.completed = ResolveCompletedAt(Given(input.status, req[r].status))
    <3> HIDE DEF input, old
    <3> QED BY <2>1, <2>5 DEF Row, ResolveCompletedAt
  <2>7. t \in torn' \/ (row.status = "DONE" <=> row.completed)
    <3>1. CASE req[r].raced
      BY <2>3, <3>1
    <3>2. CASE ~req[r].raced
      <4>1. req[r].status = old.status
        BY <1>t, <2>1, <3>2 DEF RequestIsSound
      <4> QED BY <2>6, <4>1 DEF ResolveCompletedAt
    <3> QED BY <3>1, <3>2
  <2>8. o = "alone" => /\ origin[t] = "alone" /\ row.routine = old.routine
                       /\ row.title = old.title /\ row.day = old.day
    BY <2>6 DEF Given
  <2>9. torn' \in {torn, torn \cup {t}}
    BY <2>3
  <2> HIDE DEF row, o, t
  <2> QED BY <2>1, <2>3, <2>4, <2>6, <2>7, <2>8, <2>9, ChangeStep
<1>4. ASSUME NEW t \in Tasks, CompleteTask(r, t) PROVE IInv'
  <2> DEFINE row == [tasks[t] EXCEPT !.status = "DONE", !.completed = TRUE]
  <2>1. t \in Live /\ tasks[t] \in Row
    BY <1>t, <1>4, LiveRows DEF CompleteTask
  <2>2. /\ row \in Row /\ row.status = "DONE" /\ row.completed = TRUE
        /\ row.routine = tasks[t].routine /\ row.title = tasks[t].title
        /\ row.day = tasks[t].day
    BY <2>1 DEF Row, Statuses
  <2>3. Write(r, t, row, Blank, FALSE) /\ torn' = torn /\ origin' = origin
    BY <1>4 DEF CompleteTask
  <2> HIDE DEF row
  <2>4. origin' = [origin EXCEPT ![t] = origin[t]] /\ origin[t] \in Origins
    BY <1>t, <2>3 DEF TypeOK, Origins
  <2> QED BY <2>1, <2>2, <2>3, <2>4, ChangeStep
<1>5. ASSUME NEW t \in Tasks, NEW d \in Days \cup {NoDay}, NEW dueAt \in BOOLEAN,
             RescheduleTask(r, t, d, dueAt)
      PROVE  IInv'
  <2> DEFINE row == [tasks[t] EXCEPT !.day = d, !.reserved = tasks[t].reserved /\ ~dueAt]
  <2>1. t \in Live /\ tasks[t] \in Row
    BY <1>t, <1>5, LiveRows DEF RescheduleTask
  <2>2. /\ row \in Row /\ row.status = tasks[t].status /\ row.completed = tasks[t].completed
    BY <2>1 DEF Row
  <2>3. /\ Write(r, t, row, Blank, FALSE) /\ torn' = torn
        /\ origin' = [origin EXCEPT ![t] = "byHand"] /\ "byHand" \in Origins
    BY <1>5 DEF RescheduleTask, Origins
  <2>4. t \in torn' \/ (row.status = "DONE" <=> row.completed)
    BY <2>1, <2>2, <2>3 DEF IInv, DoneIffCompleted
  <2> HIDE DEF row
  <2> QED BY <2>1, <2>2, <2>3, <2>4, ChangeStep
<1> QED BY <1>1, <1>2, <1>3, <1>4, <1>5 DEF TaskRequest

(* A request that has found a task of n on d, or none.                      *)
LEMMA FindStep ==
  ASSUME IInv, NEW r \in Reqs, NEW op \in {"skip", "check", "schedule"}, NEW n \in Routines,
         NEW d \in Days, NEW t \in Tasks \cup {NoTask}, Find(r, op, n, d, t),
         op = "skip" => Open(t), op = "schedule" /\ t # NoTask => tasks[t].status \notin Finished
  PROVE  IInv'
<1> DEFINE next == [Blank EXCEPT !.op = op, !.routine = n, !.day = d, !.task = t,
                                 !.attempt = req[r].attempt]
<1>1. /\ t \in Found(n, d) /\ req' = [req EXCEPT ![r] = next]
      /\ UNCHANGED <<tasks, torn, origin>>
  BY DEF Find
<1>2. req[r].attempt \in 0 .. MaxAttempts - 1
  BY DEF IInv, TypeOK, Request
<1>3. /\ next \in Request /\ next.op = op /\ next.routine = n /\ next.day = d /\ next.task = t
  BY <1>2, EmptyRecords DEF Request
<1>4. t # NoTask => t \in Live /\ Matches(tasks[t], n, d)
  BY <1>1 DEF Found, FindRoutineTask
<1>5. t = NoTask => \A u \in Live : ~Matches(tasks[u], n, d)
  BY <1>1, TasksAssumption DEF Found, FindRoutineTask, Live
<1> HIDE DEF next
<1>6. ASSUME req'[r] = next PROVE RequestIsSound(r)'
  <2>1. tasks' = tasks /\ Live' = Live
    BY <1>1 DEF Live
  <2> QED BY <1>3, <1>4, <1>5, <1>6, <2>1 DEF RequestIsSound, At, HoldsNone, Open
<1> QED BY <1>1, <1>3, <1>6, ReadStep

(* The loop over the routines of a day.                                     *)
LEMMA EnsureSteps ==
  ASSUME IInv, NEW r \in Reqs,
         \/ \E d \in Days : EnsureStart(r, d)
         \/ \E n \in Routines : EnsureFind(r, n)
         \/ \E t \in Tasks : EnsureCreate(r, t)
  PROVE  IInv'
<1>t. TypeOK /\ RequestIsSound(r) /\ req[r] \in Request
  BY DEF IInv, RequestsAreSound, TypeOK
<1>1. ASSUME NEW d \in Days, NEW left \in SUBSET Routines
      PROVE  LET x == [Blank EXCEPT !.op = "ensure", !.day = d, !.left = left]
             IN x \in Request /\ x.op = "ensure" /\ x.day = d /\ x.routine = NoRoutine
                /\ x.task = NoTask
  BY EmptyRecords DEF Request, Blank
<1>2. ASSUME NEW d \in Days, EnsureStart(r, d) PROVE IInv'
  <2> DEFINE due == {n \in Routines : DueOn(n, d)}
             next == [Blank EXCEPT !.op = "ensure", !.day = d, !.left = due]
  <2>1. next \in Request /\ next.op = "ensure" /\ next.day = d /\ next.routine = NoRoutine
        /\ next.task = NoTask
    BY <1>1
  <2>2. req' = [req EXCEPT ![r] = next] /\ UNCHANGED <<tasks, torn, origin>>
    BY <1>2 DEF EnsureStart
  <2> HIDE DEF next
  <2>3. ASSUME req'[r] = next PROVE RequestIsSound(r)'
    BY <2>1, <2>3, TasksAssumption DEF RequestIsSound, At, HoldsNone
  <2> QED BY <2>1, <2>2, <2>3, ReadStep
<1>3. ASSUME NEW left \in SUBSET Routines, At(r, "ensure"), NEW next, next = After(r, left)
      PROVE  /\ next \in Request
             /\ req'[r] = next => RequestIsSound(r)'
  <2>1. req[r].day \in Days
    BY <1>t, <1>3 DEF RequestIsSound
  <2>2. /\ next \in Request /\ next.op \in {"idle", "ensure"}
        /\ next.op = "ensure" => next.day \in Days /\ next.routine = NoRoutine
                                  /\ next.task = NoTask
    BY <1>1, <1>3, <2>1, EmptyRecords DEF After
  <2> QED BY <2>2, TasksAssumption DEF RequestIsSound, At, HoldsNone
<1>4. ASSUME NEW n \in Routines, EnsureFind(r, n) PROVE IInv'
  <2>1. /\ At(r, "ensure") /\ req[r].routine = NoRoutine
        /\ UNCHANGED <<tasks, torn, origin>> /\ req[r].left \in SUBSET Routines
        /\ req' = [req EXCEPT ![r] =
             IF FindRoutineTask(n, req[r].day) # {} THEN After(r, req[r].left \ {n})
             ELSE [req[r] EXCEPT !.routine = n]]
    BY <1>t, <1>4 DEF EnsureFind, Request
  <2>2. CASE FindRoutineTask(n, req[r].day) # {}
    <3> DEFINE next == After(r, req[r].left \ {n})
    <3>1. next \in Request /\ (req'[r] = next => RequestIsSound(r)')
      BY <1>3, <2>1
    <3>2. req' = [req EXCEPT ![r] = next]
      BY <2>1, <2>2
    <3> HIDE DEF next
    <3> QED BY <2>1, <3>1, <3>2, ReadStep
  <2>3. CASE FindRoutineTask(n, req[r].day) = {}
    <3> DEFINE next == [req[r] EXCEPT !.routine = n]
    <3>1. /\ next \in Request /\ next.op = "ensure" /\ next.routine = n
          /\ next.day = req[r].day /\ next.task = req[r].task
      BY <1>t, <2>1 DEF Request, At
    <3>2. req' = [req EXCEPT ![r] = next]
      BY <2>1, <2>3
    <3>3. req[r].day \in Days /\ req[r].task = NoTask
      BY <1>t, <2>1 DEF RequestIsSound
    <3> HIDE DEF next
    <3>4. ASSUME req'[r] = next PROVE RequestIsSound(r)'
      <4>1. tasks' = tasks /\ Live' = Live
        BY <2>1 DEF Live
      <4> QED BY <2>3, <3>1, <3>3, <3>4, <4>1
             DEF RequestIsSound, At, HoldsNone, FindRoutineTask
    <3> QED BY <2>1, <3>1, <3>2, <3>4, ReadStep
  <2> QED BY <2>2, <2>3
<1>5. ASSUME NEW t \in Tasks, EnsureCreate(r, t) PROVE IInv'
  <2> DEFINE next == After(r, req[r].left \ {req[r].routine})
  <2>1. At(r, "ensure") /\ req[r].routine \in Routines /\ CreateRoutineTask(r, t, "INBOX", next, FALSE)
    BY <1>t, <1>5 DEF EnsureCreate, Request
  <2>2. next \in Request /\ (req'[r] = next => RequestIsSound(r)')
    <3>1. req[r].left \ {req[r].routine} \in SUBSET Routines
      BY <1>t DEF Request
    <3> QED BY <1>3, <2>1, <3>1
  <2> HIDE DEF next
  <2>3. "INBOX" \in Statuses /\ req[r].op = "ensure"
    BY <2>1 DEF Statuses, At
  <2>4. req[r].task = NoTask
    BY <1>t, <2>1 DEF RequestIsSound
  <2> QED BY <2>1, <2>2, <2>3, <2>4, CreateRoutineStep DEF At
<1> QED BY <1>2, <1>4, <1>5

(* Skipping and checking.                                                   *)
LEMMA SkipAndCheckSteps ==
  ASSUME IInv, NEW r \in Reqs,
         \/ \E t \in Tasks : SkipCreate(r, t) \/ CheckCreate(r, t)
         \/ \E n \in Routines, d \in Days, t \in Tasks \cup {NoTask} :
               SkipFind(r, n, d, t) \/ CheckFind(r, n, d, t)
         \/ SkipWrite(r) \/ CheckWrite(r)
  PROVE  IInv'
<1>t. TypeOK /\ RequestIsSound(r) /\ req[r] \in Request
  BY DEF IInv, RequestsAreSound, TypeOK
<1>1. ASSUME NEW n \in Routines, NEW d \in Days, NEW t \in Tasks \cup {NoTask},
             SkipFind(r, n, d, t) \/ CheckFind(r, n, d, t)
      PROVE  IInv'
  BY <1>1, FindStep DEF SkipFind, CheckFind
<1>2. ASSUME NEW t \in Tasks, SkipCreate(r, t) PROVE IInv'
  <2> DEFINE next == [req[r] EXCEPT !.task = t, !.raced = FALSE]
             row == RoutineRow(req[r].routine, req[r].day, "INBOX", FALSE)
  <2>1. /\ req[r].op = "skip" /\ req[r].task = NoTask
        /\ CreateRoutineTask(r, t, "INBOX", next, FALSE)
    BY <1>2 DEF SkipCreate, At
  <2>2. req[r].routine \in Routines /\ req[r].day \in Days
    BY <1>t, <2>1 DEF RequestIsSound
  <2>3. /\ next \in Request /\ next.op = "skip" /\ next.task = t
        /\ next.routine = req[r].routine /\ next.day = req[r].day
    BY <1>t, <2>1 DEF Request
  <2>4. row.status = "INBOX" /\ Matches(row, req[r].routine, req[r].day)
    BY DEF RoutineRow, Matches
  <2> HIDE DEF next
  <2>5. ASSUME req'[r] = next, tasks'[t] = row, t \in Live'
        PROVE  RequestIsSound(r)'
    <3>1. t # NoTask
      BY TasksAssumption
    <3> HIDE DEF row
    <3> QED BY <2>2, <2>3, <2>4, <2>5, <3>1 DEF RequestIsSound, At, HoldsNone
  <2>6. "INBOX" \in Statuses
    BY DEF Statuses
  <2> QED BY <2>1, <2>2, <2>3, <2>5, <2>6, CreateRoutineStep DEF At
<1>3. ASSUME NEW t \in Tasks, CheckCreate(r, t) PROVE IInv'
  <2>1. /\ req[r].op = "check" /\ req[r].task = NoTask
        /\ CreateRoutineTask(r, t, "DONE", Blank, FALSE)
    BY <1>3 DEF CheckCreate, At
  <2>2. req[r].routine \in Routines
    BY <1>t, <2>1 DEF RequestIsSound
  <2>3. ASSUME req'[r] = Blank PROVE RequestIsSound(r)'
    BY <2>3, EmptyRecords DEF RequestIsSound, At, HoldsNone
  <2>4. "DONE" \in Statuses /\ Blank \in Request
    BY EmptyRecords DEF Statuses
  <2> QED BY <2>1, <2>2, <2>3, <2>4, CreateRoutineStep DEF At
<1>4. CASE SkipWrite(r)
  <2> DEFINE t == req[r].task
             row == [tasks[t] EXCEPT !.status = "ARCHIVED", !.day = req[r].day]
             o == IF req[r].raced THEN "raced" ELSE origin[t]
  <2>1. /\ At(r, "skip") /\ t # NoTask /\ Write(r, t, row, Blank, FALSE)
        /\ torn' = IF req[r].raced THEN torn \cup {t} ELSE torn
        /\ origin' = IF req[r].raced THEN [origin EXCEPT ![t] = "raced"] ELSE origin
    BY <1>4 DEF SkipWrite
  <2>2. t \in Live /\ t \in Tasks /\ tasks[t] \in Row /\ req[r].day \in Days
    BY <1>t, <2>1, LiveRows DEF RequestIsSound, At
  <2>3. /\ row \in Row /\ row.status = "ARCHIVED" /\ row.completed = tasks[t].completed
        /\ row.routine = tasks[t].routine /\ row.title = tasks[t].title
        /\ row.day = req[r].day
    BY <2>2 DEF Row, Statuses
  <2>4. origin' = [origin EXCEPT ![t] = o] /\ o \in Origins
    BY <1>t, <2>1, <2>2 DEF TypeOK, Origins
  <2>5. torn' \in {torn, torn \cup {t}}
    BY <2>1
  <2>6. ~req[r].raced => tasks[t].status # "DONE" /\ tasks[t].day = req[r].day
    BY <1>t, <2>1 DEF RequestIsSound, Matches
  <2> HIDE DEF row
  <2>7. t \in torn' \/ (row.status = "DONE" <=> row.completed)
    BY <2>1, <2>2, <2>3, <2>6 DEF IInv, DoneIffCompleted
  <2>8. o = "alone" => /\ origin[t] = "alone" /\ row.routine = tasks[t].routine
                       /\ row.title = tasks[t].title /\ row.day = tasks[t].day
    BY <2>3, <2>6
  <2> HIDE DEF t, o
  <2> QED BY <2>1, <2>2, <2>3, <2>4, <2>5, <2>7, <2>8, ChangeStep
<1>5. CASE CheckWrite(r)
  <2> DEFINE t == req[r].task
             row == [tasks[t] EXCEPT !.status = "DONE", !.completed = TRUE]
  <2>1. /\ At(r, "check") /\ t # NoTask /\ Write(r, t, row, Blank, FALSE)
        /\ torn' = torn /\ origin' = origin
    BY <1>5 DEF CheckWrite
  <2>2. t \in Live /\ t \in Tasks /\ tasks[t] \in Row
    BY <1>t, <2>1, LiveRows DEF RequestIsSound, At
  <2>3. /\ row \in Row /\ row.status = "DONE" /\ row.completed = TRUE
        /\ row.routine = tasks[t].routine /\ row.title = tasks[t].title
        /\ row.day = tasks[t].day
    BY <2>2 DEF Row, Statuses
  <2> HIDE DEF row, t
  <2>4. origin' = [origin EXCEPT ![t] = origin[t]] /\ origin[t] \in Origins
    BY <1>t, <2>1, <2>2 DEF TypeOK, Origins
  <2> QED BY <2>1, <2>2, <2>3, <2>4, ChangeStep
<1> QED BY <1>1, <1>2, <1>3, <1>4, <1>5

(* Reservations.                                                            *)
LEMMA ScheduleSteps ==
  ASSUME IInv, NEW r \in Reqs, ScheduleRequest(r)
  PROVE  IInv'
<1>t. TypeOK /\ RequestIsSound(r) /\ req[r] \in Request
  BY DEF IInv, RequestsAreSound, TypeOK
<1>1. ASSUME NEW n \in Routines, NEW d \in Days, NEW t \in Tasks \cup {NoTask},
             ScheduleBegin(r, n, d, t)
      PROVE  IInv'
  BY <1>1, FindStep DEF ScheduleBegin, Refuses
<1>2. ASSUME NEW t \in Tasks, ScheduleRefused(r, t) PROVE IInv'
  <2>1. req' = [req EXCEPT ![r] = Blank] /\ UNCHANGED <<tasks, torn, origin>>
    BY <1>2 DEF ScheduleRefused
  <2>2. req'[r] = Blank => RequestIsSound(r)'
    BY EmptyRecords DEF RequestIsSound, At, HoldsNone
  <2> QED BY <2>1, <2>2, EmptyRecords, ReadStep
<1>3. ASSUME NEW t \in Tasks, ScheduleCreate(r, t) PROVE IInv'
  <2>1. /\ req[r].op = "schedule" /\ ~req[r].doomed /\ req[r].task = NoTask
        /\ CreateRoutineTask(r, t, "INBOX", Blank, TRUE)
    BY <1>3 DEF ScheduleCreate, At
  <2>2. req[r].routine \in Routines
    BY <1>t, <2>1 DEF RequestIsSound
  <2>3. ASSUME req'[r] = Blank PROVE RequestIsSound(r)'
    BY <2>3, EmptyRecords DEF RequestIsSound, At, HoldsNone
  <2>4. "INBOX" \in Statuses /\ Blank \in Request
    BY EmptyRecords DEF Statuses
  <2> QED BY <2>1, <2>2, <2>3, <2>4, CreateRoutineStep DEF At
<1>4. CASE ScheduleUpdate(r)
  <2> DEFINE t == req[r].task
             row == [tasks[t] EXCEPT !.reserved = TRUE]
  <2>1. /\ At(r, "schedule") /\ t # NoTask /\ Write(r, t, row, Blank, TRUE)
        /\ torn' = torn /\ origin' = origin
    BY <1>4 DEF ScheduleUpdate
  <2>2. t \in Live /\ t \in Tasks /\ tasks[t] \in Row
    BY <1>t, <2>1, LiveRows DEF RequestIsSound, At
  <2>3. /\ row \in Row /\ row.status = tasks[t].status /\ row.completed = tasks[t].completed
        /\ row.routine = tasks[t].routine /\ row.title = tasks[t].title
        /\ row.day = tasks[t].day
    BY <2>2 DEF Row
  <2> HIDE DEF row, t
  <2>4. origin' = [origin EXCEPT ![t] = origin[t]] /\ origin[t] \in Origins
    BY <1>t, <2>1, <2>2 DEF TypeOK, Origins
  <2>5. t \in torn' \/ (row.status = "DONE" <=> row.completed)
    BY <2>1, <2>2, <2>3 DEF IInv, DoneIffCompleted
  <2> QED BY <2>1, <2>2, <2>3, <2>4, <2>5, ChangeStep
<1>5. CASE ScheduleAbort(r)
  <2> DEFINE again == [Blank EXCEPT !.op = "retry", !.routine = req[r].routine,
                                    !.day = req[r].day, !.attempt = req[r].attempt + 1]
             next == IF req[r].attempt >= MaxAttempts - 1 THEN Blank ELSE again
  <2>1. req[r].op = "schedule" /\ req' = [req EXCEPT ![r] = next]
        /\ UNCHANGED <<tasks, torn, origin>>
    BY <1>5 DEF ScheduleAbort, At
  <2>2. req[r].routine \in Routines /\ req[r].day \in Days /\ req[r].attempt \in 0 .. MaxAttempts - 1
    BY <1>t, <2>1 DEF RequestIsSound, Request
  <2>3. req[r].attempt < MaxAttempts - 1 =>
          /\ again \in Request /\ again.op = "retry" /\ again.routine = req[r].routine
          /\ again.day = req[r].day
    <3>1. req[r].attempt < MaxAttempts - 1 => req[r].attempt + 1 \in 0 .. MaxAttempts - 1
      BY <2>2 DEF MaxAttempts
    <3> QED BY <2>2, <3>1, EmptyRecords DEF Request
  <2> HIDE DEF again
  <2>4. /\ next \in Request /\ next.op \in {"idle", "retry"}
        /\ next.op = "retry" => next.routine \in Routines /\ next.day \in Days
    BY <2>2, <2>3, EmptyRecords DEF MaxAttempts
  <2> HIDE DEF next
  <2>5. ASSUME req'[r] = next PROVE RequestIsSound(r)'
    BY <2>4, <2>5 DEF RequestIsSound, At, HoldsNone
  <2> QED BY <2>1, <2>4, <2>5, ReadStep
<1> QED BY <1>1, <1>2, <1>3, <1>4, <1>5 DEF ScheduleRequest

(* The invariant is inductive.                                              *)
LEMMA InitHolds == Init => IInv
<1> SUFFICES ASSUME Init PROVE IInv
  OBVIOUS
<1> USE DEF Init
<1>1. TypeOK
  BY EmptyRecords DEF TypeOK
<1>2. Live = {}
  BY DEF Live
<1>3. RequestsAreSound
  BY EmptyRecords DEF RequestsAreSound, RequestIsSound, At, HoldsNone
<1> QED BY <1>1, <1>2, <1>3 DEF IInv, DoneIffCompleted, OneTaskPerRoutineDay

LEMMA StepHolds == IInv /\ [Next]_vars => IInv'
<1> SUFFICES ASSUME IInv, [Next]_vars PROVE IInv'
  OBVIOUS
<1>1. CASE UNCHANGED vars
  BY <1>1 DEF vars, IInv, TypeOK, RequestsAreSound, RequestIsSound, At, HoldsNone, Live,
     DoneIffCompleted, OneTaskPerRoutineDay
<1>2. ASSUME NEW r \in Reqs, RoutineRequest(r) PROVE IInv'
  BY <1>2, EnsureSteps, SkipAndCheckSteps DEF RoutineRequest
<1> QED BY <1>1, <1>2, TaskSteps, ScheduleSteps DEF Next

LEMMA Invariance == Spec => []IInv
<1> QED BY InitHolds, StepHolds, PTL DEF Spec

(* Every row and request keeps its shape.                                   *)
THEOREM TypeCorrect == Spec => []TypeOK
<1>1. IInv => TypeOK
  BY DEF IInv
<1> QED BY Invariance, <1>1, PTL

(* A task has a completion time exactly while it is DONE, unless it was      *)
(* written by a request whose read was overtaken.                            *)
THEOREM CompletionIsRecorded == Spec => []DoneIffCompleted
<1>1. IInv => DoneIffCompleted
  BY DEF IInv
<1> QED BY Invariance, <1>1, PTL

(* Only overlapping requests, or a client, give a routine two tasks of one   *)
(* date; two reservations never do.                                          *)
THEOREM RoutineHasOneTask == Spec => []OneTaskPerRoutineDay
<1>1. IInv => OneTaskPerRoutineDay
  BY DEF IInv
<1> QED BY Invariance, <1>1, PTL

(* Skipping archives a done task only if it was done after the skip's read.  *)
THEOREM SkipsAreOfOpenTasks == Spec => DoneIsNotSkipped
<1>1. IInv /\ [Next]_vars =>
        [\A r \in Reqs : At(r, "skip") /\ req[r].task # NoTask /\ req'[r] = Blank
           => req[r].raced \/ tasks[req[r].task].status # "DONE"]_vars
  BY DEF IInv, RequestsAreSound, RequestIsSound
<1> QED BY Invariance, <1>1, PTL DEF Spec, DoneIsNotSkipped

LEMMA ReservedRow ==
  ASSUME TypeOK, NEW r, NEW t \in Tasks, NEW row, NEW next, NEW serial,
         Write(r, t, row, next, serial),
         tasks[t].status \in Finished /\ row.reserved => tasks[t].reserved,
         NEW u \in Tasks, tasks[u].status \in Finished, tasks'[u].reserved
  PROVE  tasks[u].reserved
BY DEF TypeOK, Write

LEMMA UnbornIsOpen ==
  ASSUME NEW t \in Tasks, t \notin Live PROVE tasks[t].status \notin Finished
BY EmptyRecords DEF Live, Finished

LEMMA StepReservesOpenTasks ==
  ASSUME IInv, Next, NEW u \in Tasks, tasks[u].status \in Finished, tasks'[u].reserved
  PROVE  tasks[u].reserved
<1>t. TypeOK /\ RequestsAreSound /\ req \in [Reqs -> Request]
  BY DEF IInv, TypeOK
<1>1. CASE tasks' = tasks
  BY <1>1
<1>2. PICK r \in Reqs : TaskRequest(r) \/ RoutineRequest(r) \/ ScheduleRequest(r)
  BY DEF Next
<1>r. RequestIsSound(r) /\ req[r] \in Request
  BY <1>t DEF RequestsAreSound
<1>3. ASSUME NEW t \in Tasks, NEW input \in Creates, CreateTask(r, t, input)
      PROVE  tasks[u].reserved
  BY <1>t, <1>3, UnbornIsOpen, ReservedRow DEF CreateTask
<1>4. ASSUME NEW t \in Tasks, NEW status, NEW next, NEW serial,
             CreateRoutineTask(r, t, status, next, serial)
      PROVE  tasks[u].reserved
  BY <1>t, <1>4, UnbornIsOpen, ReservedRow DEF CreateRoutineTask
<1>5. ASSUME NEW t \in Live, NEW row, NEW next, NEW serial, Write(r, t, row, next, serial),
             row.reserved => tasks[t].reserved
      PROVE  tasks[u].reserved
  <2>1. t \in Tasks
    BY DEF Live
  <2> QED BY <1>t, <1>5, <2>1, ReservedRow
<1>6. CASE UpdateWrite(r)
  <2> DEFINE t == req[r].task
             input == req[r].input
             row == [tasks[t] EXCEPT
                       !.title = Given(input.title, tasks[t].title),
                       !.status = Given(input.status, tasks[t].status),
                       !.day = Given(input.day, tasks[t].day),
                       !.reserved = tasks[t].reserved /\ input.day = Keep,
                       !.completed = ResolveCompletedAt(Given(input.status, req[r].status))]
  <2>1. t \in Live /\ tasks[t] \in Row /\ Write(r, t, row, Blank, FALSE)
    BY <1>t, <1>r, <1>6, LiveRows DEF UpdateWrite, RequestIsSound
  <2>2. row.reserved => tasks[t].reserved
    BY <2>1 DEF Row
  <2> HIDE DEF row
  <2> QED BY <1>5, <2>1, <2>2
<1>7. ASSUME NEW t \in Tasks, CompleteTask(r, t) PROVE tasks[u].reserved
  <2> DEFINE row == [tasks[t] EXCEPT !.status = "DONE", !.completed = TRUE]
  <2>1. t \in Live /\ tasks[t] \in Row /\ Write(r, t, row, Blank, FALSE)
    BY <1>t, <1>7, LiveRows DEF CompleteTask
  <2>2. row.reserved => tasks[t].reserved
    BY <2>1 DEF Row
  <2> HIDE DEF row
  <2> QED BY <1>5, <2>1, <2>2
<1>8. ASSUME NEW t \in Tasks, NEW d \in Days \cup {NoDay}, NEW dueAt \in BOOLEAN,
             RescheduleTask(r, t, d, dueAt)
      PROVE  tasks[u].reserved
  <2> DEFINE row == [tasks[t] EXCEPT !.day = d, !.reserved = tasks[t].reserved /\ ~dueAt]
  <2>1. t \in Live /\ tasks[t] \in Row /\ Write(r, t, row, Blank, FALSE)
    BY <1>t, <1>8, LiveRows DEF RescheduleTask
  <2>2. row.reserved => tasks[t].reserved
    BY <2>1 DEF Row
  <2> HIDE DEF row
  <2> QED BY <1>5, <2>1, <2>2
<1>9. CASE SkipWrite(r)
  <2> DEFINE t == req[r].task
             row == [tasks[t] EXCEPT !.status = "ARCHIVED", !.day = req[r].day]
  <2>1. t \in Live /\ tasks[t] \in Row /\ Write(r, t, row, Blank, FALSE)
    BY <1>t, <1>r, <1>9, LiveRows DEF SkipWrite, RequestIsSound, At
  <2>2. row.reserved => tasks[t].reserved
    BY <2>1 DEF Row
  <2> HIDE DEF row
  <2> QED BY <1>5, <2>1, <2>2
<1>10. CASE CheckWrite(r)
  <2> DEFINE t == req[r].task
             row == [tasks[t] EXCEPT !.status = "DONE", !.completed = TRUE]
  <2>1. t \in Live /\ tasks[t] \in Row /\ Write(r, t, row, Blank, FALSE)
    BY <1>t, <1>r, <1>10, LiveRows DEF CheckWrite, RequestIsSound, At
  <2>2. row.reserved => tasks[t].reserved
    BY <2>1 DEF Row
  <2> HIDE DEF row
  <2> QED BY <1>5, <2>1, <2>2
<1>11. CASE ScheduleUpdate(r)
  <2> DEFINE t == req[r].task
             row == [tasks[t] EXCEPT !.reserved = TRUE]
  <2>1. t \in Live /\ Write(r, t, row, Blank, TRUE) /\ tasks[t].status \notin Finished
    BY <1>r, <1>11 DEF ScheduleUpdate, RequestIsSound, At
  <2>2. t \in Tasks
    BY <2>1 DEF Live
  <2> HIDE DEF row
  <2> QED BY <1>t, <2>1, <2>2, ReservedRow
<1>12. CASE TaskRequest(r)
  BY <1>1, <1>3, <1>6, <1>7, <1>8, <1>12 DEF TaskRequest, UpdateRead
<1>13. CASE RoutineRequest(r)
  BY <1>1, <1>4, <1>9, <1>10, <1>13
     DEF RoutineRequest, EnsureStart, EnsureFind, EnsureCreate, SkipCreate, CheckCreate, SkipFind,
         CheckFind, Find
<1>14. CASE ScheduleRequest(r)
  BY <1>1, <1>4, <1>11, <1>14
     DEF ScheduleRequest, ScheduleBegin, ScheduleRefused, ScheduleCreate, ScheduleAbort, Find
<1> QED BY <1>2, <1>12, <1>13, <1>14

(* A reservation that commits is of a task that is neither done nor skipped. *)
THEOREM ReservationsAreOfOpenTasks == Spec => FinishedIsNotScheduled
<1>1. IInv /\ [Next]_vars =>
        [\A t \in Tasks :
           tasks[t].status \in Finished /\ tasks'[t].reserved => tasks[t].reserved]_vars
  BY StepReservesOpenTasks
<1> QED BY Invariance, <1>1, PTL DEF Spec, FinishedIsNotScheduled
=============================================================================
