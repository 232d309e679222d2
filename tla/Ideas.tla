-------------------------------- MODULE Ideas --------------------------------
(***************************************************************************)
(* Ideas and their conversion to tasks: IdeasService over PostgreSQL.       *)
(*                                                                         *)
(* Every SQL statement is atomic; a request awaits between two of them, and *)
(* other requests run.  A PATCH reads the row, draws its timestamps, and    *)
(* updates the row where the status is still the one read.  A conversion    *)
(* reads the row, then, in one transaction, inserts the task and updates    *)
(* the row where status and updatedAt are still the ones read; when they    *)
(* are not, the transaction rolls back.                                     *)
(*                                                                         *)
(* Row locks, from the migration: the insert of the task locks the idea it  *)
(* references FOR KEY SHARE until its transaction ends.  That holds up a    *)
(* DELETE and an update of convertedTaskId, which has a unique index, but   *)
(* not a PATCH.  Two conversions of one idea can thus wait for each other,  *)
(* and PostgreSQL then aborts one.  An uncommitted insert is part of the    *)
(* request; the update of the idea and the commit are one step, because the *)
(* updated row is locked in between.                                        *)
(*                                                                         *)
(* Times are milliseconds of the application's clock, the resolution of     *)
(* Prisma's @updatedAt.  Title, note and tags are one content.  One user.   *)
(***************************************************************************)
EXTENDS Integers, FiniteSets

CONSTANTS
  IdeaIds,    \* ids of the ideas that will be created
  Tasks,      \* ids of the tasks that conversions will insert
  Contents,   \* what a title and a note can say
  Patches,    \* the bodies clients PATCH with
  Reqs,       \* request slots: how many requests are in flight at once
  Ops,        \* the operations clients of this instance use
  MaxTime,    \* bound: the last millisecond of a behaviour
  NoIdea, NoTask, NoContent,
  Keep        \* a field the body leaves out

VARIABLES
  idea,       \* rows of the idea table; Absent when there is none
  task,       \* rows of the task table that conversions inserted
  req,        \* the requests in flight
  now         \* the application's clock

\* History, read by no step but to extend it.
VARIABLES
  born,       \* ideas that have been created
  made,       \* the idea each task was made from, which outlives linkedIdeaId
  stamps,     \* every updatedAt an idea had before its conversion
  clashed     \* ideas of which two such writes carried the same updatedAt

history == <<born, made, stamps, clashed>>
vars == <<idea, task, req, now, history>>

-----------------------------------------------------------------------------
Never == 0
Times == 1..MaxTime
Day == "day"
NoDay == "noDay"

Open == {"ACTIVE", "ARCHIVED"}
IdeaStatus == Open \cup {"CONVERTED"}

Row == [status : IdeaStatus \cup {"absent"}, content : Contents \cup {NoContent},
        updatedAt : 0..MaxTime, archivedAt : 0..MaxTime, reviewOn : {Day, NoDay},
        task : Tasks \cup {NoTask}]
Absent == [status |-> "absent", content |-> NoContent, updatedAt |-> Never,
           archivedAt |-> Never, reviewOn |-> NoDay, task |-> NoTask]

Task == [content : Contents \cup {NoContent}, linkedIdea : IdeaIds \cup {NoIdea}]
NotInserted == [content |-> NoContent, linkedIdea |-> NoIdea]

\* UpdateIdeaDto: no body asks for CONVERTED.
Patch == [content : Contents \cup {Keep}, status : Open \cup {Keep},
          reviewOn : {Day, NoDay, Keep}]
NoPatch == [content |-> Keep, status |-> Keep, reviewOn |-> Keep]

Stages == {"idle", "patchRead", "patchCalled", "convertRead", "inserted"}
Request == [pc : Stages, idea : IdeaIds \cup {NoIdea}, seen : Row, patch : Patch,
            updatedAt : 0..MaxTime, archivedAt : 0..MaxTime, task : Tasks \cup {NoTask}]
Idle == [pc |-> "idle", idea |-> NoIdea, seen |-> Absent, patch |-> NoPatch,
         updatedAt |-> Never, archivedAt |-> Never, task |-> NoTask]

ASSUME IdeasAssumption ==
  /\ MaxTime \in Nat \ {0}
  /\ NoIdea \notin IdeaIds /\ NoTask \notin Tasks /\ NoContent \notin Contents
  /\ Keep \notin Contents \cup Open \cup {Day, NoDay}
  /\ Patches \subseteq Patch

Exists(i) == idea[i].status # "absent"
At(r, pc) == req[r].pc = pc
Done(r) == req' = [req EXCEPT ![r] = Idle]

\* Fault: a field left out is written as it came.
Raw(value, current) == value
(* Prisma leaves a column alone when its value is undefined. *)
Given(value, current) == IF value = Keep THEN current ELSE value

\* An idea's row is written with the timestamp at.
Stamp(i, at) ==
  /\ stamps' = [stamps EXCEPT ![i] = @ \cup {at}]
  /\ clashed' = IF at \in stamps[i] THEN clashed \cup {i} ELSE clashed

-----------------------------------------------------------------------------
(* createIdea, one INSERT. *)
CreateIdea(i, c) ==
  /\ i \notin born
  /\ idea' = [idea EXCEPT ![i] = [Absent EXCEPT !.status = "ACTIVE", !.content = c,
                                                !.updatedAt = now]]
  /\ born' = born \cup {i}
  /\ Stamp(i, now)
  /\ UNCHANGED <<task, req, now, made>>

(* updateIdea, the read: a missing or converted idea is refused. *)
PatchRead(r, i, p) ==
  /\ "patch" \in Ops /\ At(r, "idle")
  /\ idea[i].status \in Open
  /\ req' = [req EXCEPT ![r] = [Idle EXCEPT !.pc = "patchRead", !.idea = i,
                                            !.seen = idea[i], !.patch = p]]
  /\ UNCHANGED <<idea, task, now, history>>

NextStatus(r) == Given(req[r].patch.status, req[r].seen.status)

(* resolveArchivedAt on what was read; Prisma draws updatedAt as it sends    *)
(* the statement, before the database gets to it.                            *)
PatchCall(r) ==
  /\ At(r, "patchRead")
  /\ req' = [req EXCEPT ![r] = [@ EXCEPT !.pc = "patchCalled", !.updatedAt = now,
       !.archivedAt = IF NextStatus(r) # "ARCHIVED" THEN Never
                      ELSE IF req[r].seen.archivedAt = Never THEN now
                      ELSE req[r].seen.archivedAt]]
  /\ UNCHANGED <<idea, task, now, history>>

\* Fault: the update names the id alone.
RowExists(r) == Exists(req[r].idea)
(* The where clause of updateIdea. *)
StatusAsRead(r) == idea[req[r].idea].status = req[r].seen.status

\* Fault: the review date is kept whatever the status.
PatchedKeepsDate(r) ==
  LET row == idea[req[r].idea]
      p == req[r].patch
  IN [row EXCEPT !.status = Given(p.status, @), !.content = Given(p.content, @),
                 !.updatedAt = req[r].updatedAt, !.archivedAt = req[r].archivedAt,
                 !.reviewOn = Given(p.reviewOn, @)]
(* The data of updateIdea: a field left out keeps what the row holds now,    *)
(* archivedAt and the effect of archiving follow from the row as read.       *)
Patched(r) ==
  LET row == idea[req[r].idea]
      p == req[r].patch
  IN [row EXCEPT !.status = Given(p.status, @), !.content = Given(p.content, @),
                 !.updatedAt = req[r].updatedAt, !.archivedAt = req[r].archivedAt,
                 !.reviewOn = IF NextStatus(r) = "ARCHIVED" THEN NoDay
                              ELSE Given(p.reviewOn, @)]

(* updateIdea, the UPDATE; P2025 becomes a 400 and writes nothing. *)
PatchWrite(r) ==
  /\ At(r, "patchCalled")
  /\ \/ /\ StatusAsRead(r)
        /\ idea' = [idea EXCEPT ![req[r].idea] = Patched(r)]
        /\ Stamp(req[r].idea, req[r].updatedAt)
     \/ ~StatusAsRead(r) /\ UNCHANGED <<idea, stamps, clashed>>
  /\ Done(r)
  /\ UNCHANGED <<task, now, born, made>>

-----------------------------------------------------------------------------
(* convertToTask, the reads: a missing or converted idea is refused. *)
ConvertRead(r, i) ==
  /\ "convert" \in Ops /\ At(r, "idle")
  /\ idea[i].status \in Open
  /\ req' = [req EXCEPT ![r] = [Idle EXCEPT !.pc = "convertRead", !.idea = i,
                                            !.seen = idea[i]]]
  /\ UNCHANGED <<idea, task, now, history>>

\* The conversions that hold the row of i FOR KEY SHARE.
Holders(i) == {r \in Reqs : At(r, "inserted") /\ req[r].idea = i}
NewTask(t) == made[t] = NoIdea /\ \A r \in Reqs : req[r].task # t

\* Fault: the task is inserted outside the transaction.
ConvertInsertAtOnce(r, t) ==
  /\ At(r, "convertRead") /\ NewTask(t) /\ Exists(req[r].idea)
  /\ req' = [req EXCEPT ![r] = [@ EXCEPT !.pc = "inserted", !.task = t]]
  /\ task' = [task EXCEPT ![t] = [content |-> req[r].seen.content,
                                  linkedIdea |-> req[r].idea]]
  /\ made' = [made EXCEPT ![t] = req[r].idea]
  /\ UNCHANGED <<idea, now, born, stamps, clashed>>
(* The transaction begins and inserts the task; without the idea the foreign *)
(* key refuses it.                                                           *)
ConvertInsert(r, t) ==
  /\ At(r, "convertRead") /\ NewTask(t)
  /\ \/ /\ Exists(req[r].idea)
        /\ req' = [req EXCEPT ![r] = [@ EXCEPT !.pc = "inserted", !.task = t]]
     \/ ~Exists(req[r].idea) /\ Done(r)
  /\ UNCHANGED <<idea, task, now, history>>

\* Faults: the revision is not compared; it must be older than the one read.
SameStatus(r) == idea[req[r].idea].status = req[r].seen.status
OlderThanRead(r) == idea[req[r].idea].updatedAt < req[r].seen.updatedAt
(* The where clause of the update in convertToTask. *)
AsRead(r) ==
  LET row == idea[req[r].idea]
  IN row.status = req[r].seen.status /\ row.updatedAt = req[r].seen.updatedAt

(* The update of the idea and the commit, once no other transaction holds    *)
(* the row: the task appears and the idea is converted.                      *)
ConvertCommit(r) ==
  LET i == req[r].idea
      t == req[r].task
  IN /\ At(r, "inserted") /\ AsRead(r) /\ Holders(i) = {r}
     /\ idea' = [idea EXCEPT ![i] = [@ EXCEPT !.status = "CONVERTED", !.task = t,
                    !.reviewOn = NoDay, !.archivedAt = Never, !.updatedAt = now]]
     /\ task' = [task EXCEPT ![t] = [content |-> req[r].seen.content, linkedIdea |-> i]]
     /\ made' = [made EXCEPT ![t] = i]
     /\ Done(r)
     /\ UNCHANGED <<now, born, stamps, clashed>>

(* The update matches no row: P2025, the transaction rolls back, 400. *)
ConvertRefuse(r) ==
  /\ At(r, "inserted") /\ ~AsRead(r)
  /\ Done(r)
  /\ UNCHANGED <<idea, task, now, history>>

(* Two conversions each wait for the other's lock: PostgreSQL aborts one,    *)
(* and the client gets a 500.                                                *)
DeadlockVictim(r) ==
  /\ At(r, "inserted") /\ AsRead(r)
  /\ \E q \in Holders(req[r].idea) \ {r} : AsRead(q)
  /\ Done(r)
  /\ UNCHANGED <<idea, task, now, history>>

-----------------------------------------------------------------------------
(* deleteIdea, one DELETE, which waits for conversions that hold the row;    *)
(* linkedIdeaId of its task becomes null.                                    *)
DeleteIdea(i) ==
  /\ "delete" \in Ops /\ Exists(i) /\ Holders(i) = {}
  /\ idea' = [idea EXCEPT ![i] = Absent]
  /\ task' = [t \in Tasks |-> IF task[t].linkedIdea = i
                              THEN [task[t] EXCEPT !.linkedIdea = NoIdea] ELSE task[t]]
  /\ UNCHANGED <<req, now, history>>

(* The process dies, or a transaction exceeds Prisma's timeout: what was not *)
(* committed is rolled back.                                                 *)
Abort(r) ==
  /\ "abort" \in Ops /\ ~At(r, "idle")
  /\ Done(r)
  /\ UNCHANGED <<idea, task, now, history>>

Tick == now < MaxTime /\ now' = now + 1 /\ UNCHANGED <<idea, task, req, history>>

-----------------------------------------------------------------------------
Init ==
  /\ idea = [i \in IdeaIds |-> Absent]
  /\ task = [t \in Tasks |-> NotInserted]
  /\ req = [r \in Reqs |-> Idle]
  /\ now = 1
  /\ born = {}
  /\ made = [t \in Tasks |-> NoIdea]
  /\ stamps = [i \in IdeaIds |-> {}]
  /\ clashed = {}

\* The next statement of a request already in flight.
Continue(r) ==
  \/ PatchCall(r) \/ PatchWrite(r)
  \/ \E t \in Tasks : ConvertInsert(r, t)
  \/ ConvertCommit(r) \/ ConvertRefuse(r) \/ DeadlockVictim(r)

Next ==
  \/ \E i \in IdeaIds, c \in Contents : CreateIdea(i, c)
  \/ \E r \in Reqs :
       \/ \E i \in IdeaIds, p \in Patches : PatchRead(r, i, p)
       \/ \E i \in IdeaIds : ConvertRead(r, i)
       \/ Continue(r)
       \/ Abort(r)
  \/ \E i \in IdeaIds : DeleteIdea(i)
  \/ Tick

Spec == Init /\ [][Next]_vars

\* The database answers every statement and the event loop resumes every
\* request.
FairSpec == Spec /\ \A r \in Reqs : WF_vars(Continue(r))

-----------------------------------------------------------------------------
TypeOK ==
  /\ idea \in [IdeaIds -> Row]
  /\ task \in [Tasks -> Task]
  /\ req \in [Reqs -> Request]
  /\ now \in Times
  /\ born \subseteq IdeaIds
  /\ made \in [Tasks -> IdeaIds \cup {NoIdea}]
  /\ stamps \in [IdeaIds -> SUBSET Times]
  /\ clashed \subseteq IdeaIds

(* The columns of a row agree with its status, although archivedAt and       *)
(* reviewOn are computed from a row read earlier: only an archived idea has  *)
(* archivedAt, only an active one a review date, and exactly a converted one *)
(* names a task, the one that was made from it.                              *)
Consistent(i) ==
  LET row == idea[i]
  IN /\ row.archivedAt # Never <=> row.status = "ARCHIVED"
     /\ row.reviewOn = Day => row.status = "ACTIVE"
     /\ row.task # NoTask <=> row.status = "CONVERTED"
     /\ row.status = "CONVERTED" =>
          made[row.task] = i /\ task[row.task].linkedIdea = i
RowsAreConsistent == \A i \in IdeaIds : Consistent(i)

(* However conversions, PATCHes, deletions and crashes overlap, an idea      *)
(* yields at most one task, and none unless its conversion was committed.    *)
OneTaskPerIdea ==
  /\ \A t, u \in Tasks : made[t] = made[u] /\ made[t] # NoIdea => t = u
  /\ \A t \in Tasks : LET i == made[t]
                      IN i # NoIdea /\ Exists(i) => idea[i].task = t

(* A converted idea changes no more: a PATCH or a conversion that read it    *)
(* before is refused.  The service's comment at updateIdea's where clause.   *)
ConvertedIsFinal ==
  [][\A i \in IdeaIds : idea[i].status = "CONVERTED" =>
       idea'[i] \in {idea[i], Absent}]_vars

(* The task of a converted idea says what the idea says, however stale the   *)
(* conversion's snapshot was, unless two writes of the idea fell in one      *)
(* millisecond and so carry one updatedAt.                                   *)
Diverges(i) == idea[i].status = "CONVERTED"
               /\ task[idea[i].task].content # idea[i].content
TasksMatchUnlessClashed == \A i \in IdeaIds : Diverges(i) => i \in clashed

(* Whatever deadlocks, an idea that some request set out to convert is       *)
(* converted, when no one edits it, no process dies, and clients do not      *)
(* start conversions for ever: the database never aborts all of them.        *)
ConvertingOf(i) == \E r \in Reqs : At(r, "convertRead") /\ req[r].idea = i
ConversionSucceeds ==
  <>[](\A i \in IdeaIds : ~ConvertingOf(i))
    => \A i \in IdeaIds : ConvertingOf(i) ~> idea[i].status = "CONVERTED"

-----------------------------------------------------------------------------
(* The inductive invariant behind the safety properties.                     *)

\* A request in flight works on an idea it saw open; what it saw was a
\* consistent row; the times and the task it will write are set.
RequestsAreSound ==
  \A r \in Reqs :
    LET q == req[r]
    IN /\ q.pc # "idle" =>
            /\ q.idea \in born /\ q.seen.status \in Open
            /\ q.seen.archivedAt # Never <=> q.seen.status = "ARCHIVED"
       /\ q.pc = "patchCalled" =>
            /\ q.updatedAt \in Times
            /\ q.archivedAt # Never <=> NextStatus(r) = "ARCHIVED"
       /\ q.pc = "inserted" => q.task \in Tasks /\ made[q.task] = NoIdea

\* A task that is inserted and not yet committed belongs to one request.
TasksAreReserved ==
  \A r \in Reqs : At(r, "inserted") => \A q \in Reqs \ {r} : req[q].task # req[r].task

\* A revision stands for one content, of rows and of what conversions read.
RevisionsTellContents ==
  /\ \A i \in IdeaIds : idea[i].status \in Open => idea[i].updatedAt \in stamps[i]
  /\ \A r \in Reqs : req[r].pc \in {"convertRead", "inserted"} =>
       LET i == req[r].idea
       IN /\ req[r].seen.updatedAt \in stamps[i]
          /\ /\ idea[i].status \in Open /\ i \notin clashed
             /\ idea[i].updatedAt = req[r].seen.updatedAt
             => idea[i].content = req[r].seen.content

\* Rows and tasks exist only for ideas that were created.
NothingUnborn ==
  /\ \A i \in IdeaIds : Exists(i) => i \in born
  /\ \A t \in Tasks : made[t] \in born \cup {NoIdea}

IInv == /\ TypeOK /\ RequestsAreSound /\ TasksAreReserved /\ NothingUnborn
        /\ RowsAreConsistent /\ OneTaskPerIdea
MatchInv == IInv /\ RevisionsTellContents /\ TasksMatchUnlessClashed

-----------------------------------------------------------------------------
(* What the repository says and the code does not keep.                      *)

(* A PATCH that read the idea before it was last archived does not undo that *)
(* archive.  The comment at ideas.service.ts:143.                            *)
ArchiveIsNotUndone ==
  [][\A r \in Reqs : LET i == req[r].idea IN
       At(r, "patchCalled") /\ req'[r] = Idle /\ idea[i].status = "ARCHIVED"
         /\ idea[i].archivedAt # req[r].seen.archivedAt
       => idea'[i].status = "ARCHIVED"]_vars

-----------------------------------------------------------------------------
(* The promise of IdeaLifecycle, over the committed rows.                    *)
Life(i) ==
  IF i \notin born THEN "unborn"
  ELSE IF ~Exists(i) THEN "gone"
  ELSE IF idea[i].status = "CONVERTED" THEN "converted" ELSE "open"

Lifecycle == INSTANCE IdeaLifecycle
  WITH Ideas <- IdeaIds, life <- [i \in IdeaIds |-> Life(i)]

ImplementsLifecycle == Lifecycle!LifecycleSpec
=============================================================================
