------------------------------ MODULE Reminders ------------------------------
(***************************************************************************)
(* TasksReminderWorker: a repeatable job looks every minute for the tasks  *)
(* whose reminder is due, sends each one and marks it sent in Redis under  *)
(* the task and its time, for thirty days.                                 *)
(*                                                                         *)
(* Each process runs one job at a time (concurrency 1) and every await of  *)
(* the loop is a step of its own: the list of tasks is a snapshot, and the *)
(* check, the sending and the mark are apart.  The next iteration of the   *)
(* job is queued when the last one was taken; a job whose process died is  *)
(* handed out again.  TasksService, which writes the rows, is reduced to   *)
(* the two fields the worker reads.                                        *)
(***************************************************************************)
EXTENDS Integers, FiniteSets

CONSTANTS
  Tasks, Workers,
  TTL,        \* of a mark, EX 60 * 60 * 24 * 30
  MaxTime,    \* bound: the clock
  MaxEdits,   \* bound: writes of the tasks
  MaxCrashes  \* bound: processes that die and jobs that fail

Times == 1 .. MaxTime
NoTime == 0
NoTask == "none"

ASSUME RemindersAssumption ==
  /\ NoTask \notin Tasks
  /\ TTL \in Nat \ {0} /\ MaxTime \in Nat /\ MaxEdits \in Nat /\ MaxCrashes \in Nat

VARIABLES
  now,     \* the clock
  tasks,   \* task -> its reminderAt and whether it is open
  marks,   \* Redis: the marks, each with the time it expires
  waiting, \* an iteration of the job is ready
  worker,  \* the processes
  edits, crashes

\* History: reminders sent, sent again, and what excuses a second time: a mark
\* that expired or was never set, and two processes at one reminder.
VARIABLES sent, again, expired, unmarked, contended

history == <<sent, again, expired, unmarked, contended>>
vars == <<now, tasks, marks, waiting, worker, edits, crashes, history>>

-----------------------------------------------------------------------------
Row == [at : Times \cup {NoTime}, open : BOOLEAN]
Reminder == Tasks \X Times
Blank == [pc |-> "idle", rows |-> [t \in Tasks |-> [at |-> NoTime, open |-> FALSE]],
          todo |-> {}, task |-> NoTask]

\* The reminder that process w is at, of the row in its snapshot.
Current(w) == <<worker[w].task, worker[w].rows[worker[w].task].at>>
At(w, pc) == worker[w].pc = pc

\* The loop of w goes on with the tasks it has left, or ends.
Continue(w) ==
  worker' = [worker EXCEPT ![w] =
    IF worker[w].todo = {} THEN Blank
    ELSE [worker[w] EXCEPT !.pc = "loop", !.task = NoTask]]

-----------------------------------------------------------------------------
(* Writes of TasksService.                                                  *)
Edit(t, row) ==
  /\ edits < MaxEdits /\ tasks[t] # row
  /\ tasks' = [tasks EXCEPT ![t] = row]
  /\ edits' = edits + 1
  /\ UNCHANGED <<now, marks, waiting, worker, crashes, history>>

(* Time; Redis drops the marks that expire.                                 *)
Tick ==
  /\ now < MaxTime
  /\ now' = now + 1
  /\ LET gone == {m \in marks : m[2] <= now + 1}
     IN marks' = marks \ gone /\ expired' = expired \cup {m[1] : m \in gone}
  /\ UNCHANGED <<tasks, waiting, worker, edits, crashes, sent, again, unmarked, contended>>

(* onModuleInit: the repeatable job, under one id for all processes.        *)
Cron ==
  /\ ~waiting /\ waiting' = TRUE
  /\ UNCHANGED <<now, tasks, marks, worker, edits, crashes, history>>

-----------------------------------------------------------------------------
\* Fault: tasks of the last minute alone.
DueExact(row) == row.at = now
(* handleJob: reminderAt lte now; the status is not part of the query.      *)
Due(row) == row.at # NoTime /\ row.at <= now

(* handleJob: the list.                                                     *)
List(w) ==
  /\ At(w, "idle") /\ waiting /\ waiting' = FALSE
  /\ LET due == {t \in Tasks : Due(tasks[t])}
     IN worker' = [worker EXCEPT ![w] =
          IF due = {} THEN Blank
          ELSE [pc |-> "loop", todo |-> due, task |-> NoTask,
                rows |-> [t \in Tasks |-> IF t \in due THEN tasks[t] ELSE Blank.rows[t]]]]
  /\ UNCHANGED <<now, tasks, marks, edits, crashes, history>>

(* The next task of the list; one that was done or archived is passed over. *)
Pick(w, t) ==
  /\ At(w, "loop") /\ t \in worker[w].todo
  /\ LET todo == worker[w].todo \ {t}
     IN worker' = [worker EXCEPT ![w] =
          IF worker[w].rows[t].open THEN [@ EXCEPT !.pc = "check", !.task = t, !.todo = todo]
          ELSE IF todo = {} THEN Blank
          ELSE [@ EXCEPT !.todo = todo]]
  /\ UNCHANGED <<now, tasks, marks, waiting, edits, crashes, history>>

(* redisKey.                                                                *)
Key(reminder) == reminder

Marked(reminder) == \E m \in marks : m[1] = Key(reminder)

\* Other processes between the check and the mark of a reminder.
Rivals(w, reminder) ==
  \E v \in Workers \ {w} : worker[v].pc \in {"send", "mark"} /\ Current(v) = reminder

(* The mark is looked up ...                                                *)
Check(w) ==
  /\ At(w, "check")
  /\ IF Marked(Current(w))
     THEN Continue(w) /\ UNCHANGED contended
     ELSE /\ worker' = [worker EXCEPT ![w].pc = "send"]
          /\ contended' = IF Rivals(w, Current(w)) THEN contended \cup {Current(w)} ELSE contended
  /\ UNCHANGED <<now, tasks, marks, waiting, edits, crashes, sent, again, expired, unmarked>>

(* ... the reminder sent ...                                                *)
Send(w) ==
  /\ At(w, "send")
  /\ worker' = [worker EXCEPT ![w].pc = "mark"]
  /\ sent' = sent \cup {Current(w)}
  /\ again' = again \cup ({Current(w)} \cap sent)
  /\ UNCHANGED <<now, tasks, marks, waiting, edits, crashes, expired, unmarked, contended>>

\* Fault: the mark is not set.
MarkingNever(w) == marks
(* ... and marked.                                                          *)
Marking(w) ==
  {m \in marks : m[1] # Key(Current(w))} \cup {<<Key(Current(w)), now + TTL>>}

Mark(w) ==
  /\ At(w, "mark")
  /\ marks' = Marking(w)
  /\ Continue(w)
  /\ UNCHANGED <<now, tasks, waiting, edits, crashes, history>>

(* A process dies and starts again; what it had sent stays unmarked, and    *)
(* BullMQ hands the job out once more.                                      *)
Crash(w) ==
  /\ crashes < MaxCrashes /\ ~At(w, "idle")
  /\ worker' = [worker EXCEPT ![w] = Blank]
  /\ waiting' = TRUE
  /\ crashes' = crashes + 1
  /\ unmarked' = IF At(w, "mark") THEN unmarked \cup {Current(w)} ELSE unmarked
  /\ UNCHANGED <<now, tasks, marks, edits, sent, again, expired, contended>>

(* Redis refuses a command: the job fails, and the rest of its list waits   *)
(* for the next one.                                                        *)
RedisFails(w) ==
  /\ crashes < MaxCrashes /\ worker[w].pc \in {"check", "mark"}
  /\ worker' = [worker EXCEPT ![w] = Blank]
  /\ crashes' = crashes + 1
  /\ unmarked' = IF At(w, "mark") THEN unmarked \cup {Current(w)} ELSE unmarked
  /\ UNCHANGED <<now, tasks, marks, waiting, edits, sent, again, expired, contended>>

-----------------------------------------------------------------------------
Init ==
  /\ now = 0
  /\ tasks = [t \in Tasks |-> [at |-> NoTime, open |-> TRUE]]
  /\ marks = {} /\ waiting = FALSE
  /\ worker = [w \in Workers |-> Blank]
  /\ edits = 0 /\ crashes = 0
  /\ sent = {} /\ again = {} /\ expired = {} /\ unmarked = {} /\ contended = {}

Job(w) == List(w) \/ (\E t \in Tasks : Pick(w, t)) \/ Check(w) \/ Send(w) \/ Mark(w)

Next ==
  \/ \E t \in Tasks, row \in Row : Edit(t, row)
  \/ Tick \/ Cron
  \/ \E w \in Workers : Job(w) \/ Crash(w) \/ RedisFails(w)

(* Time passes, the queue repeats the job and a process that can go on does; *)
(* clients owe nothing and no process has to die.                           *)
Spec == Init /\ [][Next]_vars /\ WF_vars(Tick) /\ WF_vars(Cron) /\ \A w \in Workers : WF_vars(Job(w))

-----------------------------------------------------------------------------
(* Every variable has the shape the worker, Redis and the queue give it.    *)
TypeOK ==
  /\ now \in 0 .. MaxTime /\ waiting \in BOOLEAN
  /\ tasks \in [Tasks -> Row]
  /\ marks \in SUBSET (Reminder \X Nat)
  /\ worker \in [Workers -> [pc : {"idle", "loop", "check", "send", "mark"},
                             rows : [Tasks -> Row], todo : SUBSET Tasks,
                             task : Tasks \cup {NoTask}]]
  /\ edits \in 0 .. MaxEdits /\ crashes \in 0 .. MaxCrashes
  /\ sent \subseteq Reminder /\ again \subseteq sent
  /\ expired \subseteq Reminder /\ unmarked \subseteq Reminder /\ contended \subseteq Reminder

(* A reminder is sent a second time only when its mark had expired, when a  *)
(* process or its job died between sending and marking it, or when two were *)
(* at it at once ("순차 처리가 안전합니다" holds within one process).                *)
SentOnceUnlessExcused == again \subseteq expired \cup unmarked \cup contended

(* The reminder of a task that is due and stays open at that time is sent,  *)
(* whatever happened before to the task, its other reminders or a process.  *)
DueReminderIsSent ==
  \A t \in Tasks, at \in Times :
    <>[](tasks[t] = [at |-> at, open |-> TRUE]) => <>(<<t, at>> \in sent)
=============================================================================
