----------------------------- MODULE IdeasProofs -----------------------------
(***************************************************************************)
(* Ideas, for every number of ideas, tasks, requests and milliseconds.      *)
(***************************************************************************)
EXTENDS Ideas, TLAPS

(* The records that stand for nothing have the types of those that do.      *)
LEMMA EmptyRecords ==
  /\ Absent \in Row /\ Absent.status = "absent" /\ Absent.task = NoTask
  /\ Absent.archivedAt = Never /\ Absent.reviewOn = NoDay
  /\ NotInserted \in Task
  /\ Idle \in Request /\ Idle.pc = "idle" /\ Idle.task = NoTask
<1>1. 0 \in 0..MaxTime
  BY IdeasAssumption
<1>2. Absent \in Row
  BY <1>1 DEF Absent, Row, Never, Day, NoDay
<1>3. NoPatch \in Patch
  BY DEF NoPatch, Patch
<1>4. Idle \in Request
  BY <1>1, <1>2, <1>3 DEF Idle, Request, Never, Stages
<1>5. NotInserted \in Task
  BY DEF NotInserted, Task
<1> QED
  BY <1>2, <1>4, <1>5 DEF Absent, Idle

(* What a PATCH leaves in a row whose status is still the one it read: the   *)
(* status it means to set, and columns that agree with that status.          *)
LEMMA PatchedRow ==
  ASSUME TypeOK, RequestsAreSound, NEW r \in Reqs, At(r, "patchCalled"), StatusAsRead(r)
  PROVE  /\ req[r].idea \in IdeaIds /\ req[r].idea \in born
         /\ req[r].updatedAt \in Times
         /\ idea[req[r].idea] \in Row
         /\ idea[req[r].idea].status \in Open
         /\ Patched(r) \in Row
         /\ Patched(r).status = NextStatus(r) /\ NextStatus(r) \in Open
         /\ Patched(r).updatedAt = req[r].updatedAt
         /\ Patched(r).archivedAt # Never <=> Patched(r).status = "ARCHIVED"
         /\ Patched(r).reviewOn = Day => Patched(r).status = "ACTIVE"
         /\ Patched(r).task = idea[req[r].idea].task
<1> DEFINE i == req[r].idea
           p == req[r].patch
           row == idea[i]
<1>1. /\ req[r] \in Request /\ req[r].pc = "patchCalled" /\ i \in born
      /\ req[r].seen.status \in Open /\ req[r].updatedAt \in Times
      /\ (req[r].archivedAt # Never <=> NextStatus(r) = "ARCHIVED")
  BY DEF TypeOK, RequestsAreSound, At
<1>2. i \in IdeaIds /\ row \in Row /\ p \in Patch /\ req[r].archivedAt \in 0..MaxTime
  BY <1>1 DEF TypeOK, Request
<1>3. row.status = req[r].seen.status
  BY DEF StatusAsRead
<1>4. NextStatus(r) \in Open /\ NextStatus(r) = Given(p.status, row.status)
  BY <1>1, <1>2, <1>3 DEF NextStatus, Given, Patch
<1>5. /\ Given(p.content, row.content) \in Contents \cup {NoContent}
      /\ Given(p.reviewOn, row.reviewOn) \in {Day, NoDay}
  BY <1>2 DEF Given, Patch, Row
<1>6. req[r].updatedAt \in 0..MaxTime
  BY <1>1 DEF Times
<1>7. Patched(r) \in Row
  BY <1>2, <1>4, <1>5, <1>6 DEF Patched, Row, IdeaStatus, NoDay
<1>8. /\ Patched(r).status = NextStatus(r)
      /\ Patched(r).updatedAt = req[r].updatedAt
      /\ Patched(r).archivedAt = req[r].archivedAt
      /\ Patched(r).task = row.task
      /\ Patched(r).reviewOn = IF NextStatus(r) = "ARCHIVED" THEN NoDay
                               ELSE Given(p.reviewOn, row.reviewOn)
  BY <1>2, <1>4 DEF Patched, Row
<1>9. Patched(r).reviewOn = Day => Patched(r).status = "ACTIVE"
  BY <1>4, <1>8 DEF Open, Day, NoDay
<1> QED
  BY <1>1, <1>2, <1>3, <1>4, <1>7, <1>8, <1>9

(* A request that has inserted its task and finds the row as it read it.     *)
LEMMA CommitFacts ==
  ASSUME TypeOK, RequestsAreSound, NEW r \in Reqs, At(r, "inserted"), AsRead(r)
  PROVE  /\ req[r].idea \in IdeaIds /\ req[r].task \in Tasks
         /\ req[r].idea \in born
         /\ made[req[r].task] = NoIdea
         /\ idea[req[r].idea].status \in Open
         /\ idea[req[r].idea].updatedAt = req[r].seen.updatedAt
         /\ req[r].seen.content \in Contents \cup {NoContent}
<1>1. req[r] \in Request /\ req[r].pc = "inserted" /\ req[r].seen \in Row
  BY DEF TypeOK, At, Request
<1>2. /\ req[r].idea \in born /\ req[r].seen.status \in Open
      /\ req[r].task \in Tasks /\ made[req[r].task] = NoIdea
  BY <1>1 DEF RequestsAreSound
<1>3. req[r].idea \in IdeaIds
  BY <1>2 DEF TypeOK
<1> QED
  BY <1>1, <1>2, <1>3 DEF AsRead, Row

(* Every step keeps the types. *)
LEMMA TypeStep ==
  ASSUME IInv, [Next]_vars
  PROVE  TypeOK'
<1> USE IdeasAssumption DEF IInv
<1>0. CASE UNCHANGED vars
  BY <1>0 DEF TypeOK, vars, history
<1>1. ASSUME NEW i \in IdeaIds, NEW c \in Contents, CreateIdea(i, c) PROVE TypeOK'
  <2>1. [Absent EXCEPT !.status = "ACTIVE", !.content = c, !.updatedAt = now] \in Row
    <3>1. now \in 0..MaxTime /\ "ACTIVE" \in IdeaStatus \cup {"absent"}
      BY DEF TypeOK, Times, IdeaStatus, Open
    <3> QED BY <3>1, EmptyRecords DEF Row
  <2> QED BY <1>1, <2>1 DEF CreateIdea, Stamp, TypeOK, Times
<1>2. ASSUME NEW r \in Reqs, NEW i \in IdeaIds, NEW p \in Patches, PatchRead(r, i, p)
      PROVE  TypeOK'
  <2>1. [Idle EXCEPT !.pc = "patchRead", !.idea = i, !.seen = idea[i], !.patch = p] \in Request
    BY EmptyRecords DEF TypeOK, Request, Stages
  <2> QED BY <1>2, <2>1 DEF PatchRead, TypeOK, history
<1>3. ASSUME NEW r \in Reqs, PatchCall(r) PROVE TypeOK'
  <2> DEFINE at == IF NextStatus(r) # "ARCHIVED" THEN Never
                   ELSE IF req[r].seen.archivedAt = Never THEN now
                   ELSE req[r].seen.archivedAt
  <2>1. req[r] \in Request /\ req[r].seen \in Row
    BY DEF TypeOK, Request
  <2>2. at \in 0..MaxTime /\ now \in 0..MaxTime
    BY <2>1 DEF TypeOK, Row, Times, Never
  <2> HIDE DEF at
  <2>3. [req[r] EXCEPT !.pc = "patchCalled", !.updatedAt = now, !.archivedAt = at] \in Request
    BY <2>1, <2>2 DEF Request, Stages
  <2>4. req' = [req EXCEPT ![r] = [req[r] EXCEPT !.pc = "patchCalled", !.updatedAt = now,
                                                 !.archivedAt = at]]
    BY <1>3 DEF PatchCall, at
  <2> QED BY <1>3, <2>3, <2>4 DEF PatchCall, TypeOK, history
<1>4. ASSUME NEW r \in Reqs, PatchWrite(r) PROVE TypeOK'
  <2>1. StatusAsRead(r) => Patched(r) \in Row /\ req[r].updatedAt \in Times
    BY <1>4, PatchedRow DEF PatchWrite
  <2>2. req' \in [Reqs -> Request]
    BY <1>4, EmptyRecords DEF PatchWrite, Done, TypeOK
  <2>3. idea' \in [IdeaIds -> Row]
    BY <1>4, <2>1 DEF PatchWrite, TypeOK
  <2>4. stamps' \in [IdeaIds -> SUBSET Times] /\ clashed' \subseteq IdeaIds
    <3>1. CASE StatusAsRead(r)
      BY <1>4, <2>1, <3>1, PatchedRow DEF PatchWrite, Stamp, TypeOK
    <3>2. CASE ~StatusAsRead(r)
      BY <1>4, <3>2 DEF PatchWrite, TypeOK
    <3> QED BY <3>1, <3>2
  <2> QED BY <1>4, <2>2, <2>3, <2>4 DEF PatchWrite, TypeOK
<1>5. ASSUME NEW r \in Reqs, NEW i \in IdeaIds, ConvertRead(r, i) PROVE TypeOK'
  <2>1. [Idle EXCEPT !.pc = "convertRead", !.idea = i, !.seen = idea[i]] \in Request
    BY EmptyRecords DEF TypeOK, Request, Stages
  <2> QED BY <1>5, <2>1 DEF ConvertRead, TypeOK, history
<1>6. ASSUME NEW r \in Reqs, NEW t \in Tasks, ConvertInsert(r, t) PROVE TypeOK'
  <2>1. [req[r] EXCEPT !.pc = "inserted", !.task = t] \in Request
    BY DEF TypeOK, Request, Stages
  <2> QED BY <1>6, <2>1, EmptyRecords DEF ConvertInsert, Done, TypeOK, history
<1>7. ASSUME NEW r \in Reqs, ConvertCommit(r) PROVE TypeOK'
  <2>1. /\ req[r].idea \in IdeaIds /\ req[r].task \in Tasks
        /\ req[r].seen.content \in Contents \cup {NoContent}
    BY <1>7, CommitFacts DEF ConvertCommit
  <2>2. [idea[req[r].idea] EXCEPT !.status = "CONVERTED", !.task = req[r].task,
           !.reviewOn = NoDay, !.archivedAt = Never, !.updatedAt = now] \in Row
    <3>1. /\ now \in 0..MaxTime /\ Never \in 0..MaxTime
          /\ "CONVERTED" \in IdeaStatus \cup {"absent"}
      BY DEF TypeOK, Times, Never, IdeaStatus
    <3>2. idea[req[r].idea] \in Row
      BY <2>1 DEF TypeOK
    <3> QED BY <2>1, <3>1, <3>2 DEF Row
  <2>3. [content |-> req[r].seen.content, linkedIdea |-> req[r].idea] \in Task
    BY <2>1 DEF Task
  <2> QED BY <1>7, <2>1, <2>2, <2>3, EmptyRecords DEF ConvertCommit, Done, TypeOK
<1>8. ASSUME NEW r \in Reqs, ConvertRefuse(r) \/ DeadlockVictim(r) \/ Abort(r) PROVE TypeOK'
  BY <1>8, EmptyRecords DEF ConvertRefuse, DeadlockVictim, Abort, Done, TypeOK, history
<1>9. ASSUME NEW i \in IdeaIds, DeleteIdea(i) PROVE TypeOK'
  <2>1. \A t \in Tasks : [task[t] EXCEPT !.linkedIdea = NoIdea] \in Task /\ task[t] \in Task
    BY DEF TypeOK, Task
  <2> QED BY <1>9, <2>1, EmptyRecords DEF DeleteIdea, TypeOK, history
<1>10. CASE Tick
  BY <1>10 DEF Tick, TypeOK, Times, history
<1> QED
  BY <1>0, <1>1, <1>2, <1>3, <1>4, <1>5, <1>6, <1>7, <1>8, <1>9, <1>10 DEF Next, Continue

(* The requests of a step: those it leaves alone keep what makes them sound, *)
(* and the one it advances gains it.                                         *)
LEMMA SoundStep ==
  ASSUME IInv, [Next]_vars
  PROVE  RequestsAreSound' /\ TasksAreReserved'
<1> USE DEF IInv
<1> DEFINE S(q, b, m) ==
       /\ q.pc # "idle" =>
            /\ q.idea \in b /\ q.seen.status \in Open
            /\ q.seen.archivedAt # Never <=> q.seen.status = "ARCHIVED"
       /\ q.pc = "patchCalled" =>
            /\ q.updatedAt \in Times
            /\ q.archivedAt # Never <=> Given(q.patch.status, q.seen.status) = "ARCHIVED"
       /\ q.pc = "inserted" => q.task \in Tasks /\ m[q.task] = NoIdea
<1>a. \A r \in Reqs : S(req[r], born, made)
  BY DEF RequestsAreSound, NextStatus
<1>b. ASSUME \A r \in Reqs : S(req'[r], born', made') PROVE RequestsAreSound'
  BY <1>b DEF RequestsAreSound, NextStatus
<1>c. \A b, m : S(Idle, b, m)
  BY EmptyRecords
<1>d. ASSUME NEW q, NEW b, NEW c, b \subseteq c, NEW m, S(q, b, m) PROVE S(q, c, m)
  BY <1>d
<1>e. /\ req \in [Reqs -> Request] /\ idea \in [IdeaIds -> Row]
      /\ NoTask \notin Tasks /\ Idle.task = NoTask
  BY IdeasAssumption, EmptyRecords DEF TypeOK
<1> HIDE DEF S
<1>0. CASE UNCHANGED vars
  BY <1>0, <1>a, <1>b DEF vars, history, TasksAreReserved, At
<1>1. ASSUME NEW i \in IdeaIds, NEW c \in Contents, CreateIdea(i, c)
      PROVE  RequestsAreSound' /\ TasksAreReserved'
  BY <1>1, <1>a, <1>b, <1>d DEF CreateIdea, TasksAreReserved, At
<1>2. ASSUME NEW r \in Reqs, NEW i \in IdeaIds, NEW p \in Patches, PatchRead(r, i, p)
      PROVE  RequestsAreSound' /\ TasksAreReserved'
  <2> DEFINE new == [Idle EXCEPT !.pc = "patchRead", !.idea = i, !.seen = idea[i],
                                 !.patch = p]
  <2>1. new.pc = "patchRead" /\ new.idea = i /\ new.seen = idea[i] /\ new.task = NoTask
    BY <1>e DEF Idle
  <2>2. i \in born /\ Consistent(i) /\ idea[i].status \in Open
    BY <1>2 DEF PatchRead, NothingUnborn, RowsAreConsistent, Exists, Open
  <2>3. S(new, born, made)
    BY <2>1, <2>2 DEF S, Consistent
  <2> HIDE DEF new
  <2>4. req' = [req EXCEPT ![r] = new] /\ UNCHANGED <<born, made>>
    BY <1>2 DEF PatchRead, new, history
  <2>5. \A q \in Reqs : S(req'[q], born', made')
    BY <1>a, <1>e, <2>3, <2>4
  <2> QED BY <1>b, <1>e, <2>1, <2>4, <2>5, <1>a DEF TasksAreReserved, At, S
<1>3. ASSUME NEW r \in Reqs, PatchCall(r) PROVE RequestsAreSound' /\ TasksAreReserved'
  <2> DEFINE old == req[r]
             at == IF NextStatus(r) # "ARCHIVED" THEN Never
                   ELSE IF old.seen.archivedAt = Never THEN now
                   ELSE old.seen.archivedAt
             new == [old EXCEPT !.pc = "patchCalled", !.updatedAt = now, !.archivedAt = at]
  <2>1. old \in Request /\ now \in Times /\ now # Never
    BY DEF TypeOK, Times, Never
  <2>2. /\ new.pc = "patchCalled" /\ new.updatedAt = now /\ new.archivedAt = at
        /\ new.idea = old.idea /\ new.seen = old.seen /\ new.patch = old.patch
        /\ new.task = old.task
    BY <2>1 DEF Request
  <2>3. at # Never <=> NextStatus(r) = "ARCHIVED"
    BY <2>1
  <2>4. old.pc = "patchRead"
    BY <1>3 DEF PatchCall, At
  <2>5. S(new, born, made)
    <3> HIDE DEF at, new
    <3> QED BY <1>a, <2>1, <2>2, <2>3, <2>4 DEF S, NextStatus
  <2> HIDE DEF new
  <2>6. req' = [req EXCEPT ![r] = new] /\ UNCHANGED <<born, made>>
    BY <1>3 DEF PatchCall, new, history
  <2>7. \A q \in Reqs : S(req'[q], born', made')
    BY <1>a, <1>e, <2>5, <2>6
  <2> QED BY <1>b, <1>e, <2>2, <2>6, <2>7 DEF TasksAreReserved, At
<1>4. ASSUME NEW r \in Reqs, Done(r), UNCHANGED <<born, made>>
      PROVE  RequestsAreSound' /\ TasksAreReserved'
  <2>1. \A q \in Reqs : S(req'[q], born', made')
    BY <1>4, <1>a, <1>c, <1>e DEF Done
  <2> QED BY <1>4, <1>b, <1>e, <1>a, <2>1, EmptyRecords DEF Done, TasksAreReserved, At, S
<1>5. ASSUME NEW r \in Reqs, NEW i \in IdeaIds, ConvertRead(r, i)
      PROVE  RequestsAreSound' /\ TasksAreReserved'
  <2> DEFINE new == [Idle EXCEPT !.pc = "convertRead", !.idea = i, !.seen = idea[i]]
  <2>1. new.pc = "convertRead" /\ new.idea = i /\ new.seen = idea[i] /\ new.task = NoTask
    BY <1>e DEF Idle
  <2>2. i \in born /\ Consistent(i) /\ idea[i].status \in Open
    BY <1>5 DEF ConvertRead, NothingUnborn, RowsAreConsistent, Exists, Open
  <2>3. S(new, born, made)
    BY <2>1, <2>2 DEF S, Consistent
  <2> HIDE DEF new
  <2>4. req' = [req EXCEPT ![r] = new] /\ UNCHANGED <<born, made>>
    BY <1>5 DEF ConvertRead, new, history
  <2>5. \A q \in Reqs : S(req'[q], born', made')
    BY <1>a, <1>e, <2>3, <2>4
  <2> QED BY <1>b, <1>e, <2>1, <2>4, <2>5, <1>a DEF TasksAreReserved, At, S
<1>6. ASSUME NEW r \in Reqs, NEW t \in Tasks, ConvertInsert(r, t)
      PROVE  RequestsAreSound' /\ TasksAreReserved'
  <2>1. CASE ~Exists(req[r].idea)
    BY <1>4, <1>6, <2>1 DEF ConvertInsert, history
  <2>2. CASE Exists(req[r].idea)
    <3> DEFINE new == [req[r] EXCEPT !.pc = "inserted", !.task = t]
    <3>1. /\ new.pc = "inserted" /\ new.task = t
          /\ new.idea = req[r].idea /\ new.seen = req[r].seen
      BY <1>e DEF Request
    <3>2. req[r].pc = "convertRead" /\ made[t] = NoIdea /\ \A q \in Reqs : req[q].task # t
      BY <1>6 DEF ConvertInsert, At, NewTask
    <3>3. S(new, born, made)
      <4> HIDE DEF new
      <4> QED BY <1>a, <3>1, <3>2 DEF S
    <3> HIDE DEF new
    <3>4. req' = [req EXCEPT ![r] = new] /\ UNCHANGED <<born, made>>
      BY <1>6, <2>2 DEF ConvertInsert, new, history
    <3>5. \A q \in Reqs : S(req'[q], born', made')
      BY <1>a, <1>e, <3>3, <3>4
    <3> QED BY <1>b, <1>e, <3>1, <3>2, <3>4, <3>5 DEF TasksAreReserved, At
  <2> QED BY <2>1, <2>2
<1>7. ASSUME NEW r \in Reqs, ConvertCommit(r) PROVE RequestsAreSound' /\ TasksAreReserved'
  <2> DEFINE t == req[r].task
  <2>1. /\ req' = [req EXCEPT ![r] = Idle] /\ born' = born
        /\ made' = [made EXCEPT ![t] = req[r].idea]
    BY <1>7 DEF ConvertCommit, Done
  <2>2. \A q \in Reqs \ {r} : req[q].pc = "inserted" => req[q].task # t
    BY <1>7 DEF ConvertCommit, TasksAreReserved, At
  <2>3. ASSUME NEW q \in Reqs PROVE S(req'[q], born', made')
    <3>1. CASE q = r
      BY <1>c, <1>e, <2>1, <3>1
    <3>2. CASE q # r
      BY <1>a, <1>e, <2>1, <2>2, <3>2 DEF S, TypeOK
    <3> QED BY <3>1, <3>2
  <2> QED BY <1>b, <1>e, <1>a, <2>1, <2>3, EmptyRecords DEF TasksAreReserved, At, S
<1>8. ASSUME NEW i \in IdeaIds, DeleteIdea(i) PROVE RequestsAreSound' /\ TasksAreReserved'
  BY <1>8, <1>a, <1>b DEF DeleteIdea, history, TasksAreReserved, At
<1>9. CASE Tick
  BY <1>9, <1>a, <1>b DEF Tick, history, TasksAreReserved, At
<1>10. ASSUME NEW r \in Reqs,
              PatchWrite(r) \/ ConvertRefuse(r) \/ DeadlockVictim(r) \/ Abort(r)
       PROVE  RequestsAreSound' /\ TasksAreReserved'
  BY <1>4, <1>10 DEF PatchWrite, ConvertRefuse, DeadlockVictim, Abort, history
<1> QED
  BY <1>0, <1>1, <1>2, <1>3, <1>5, <1>6, <1>7, <1>8, <1>9, <1>10 DEF Next, Continue

(* The rows of a step: a row changes by its creation, a PATCH that found the *)
(* status it had read, a commit that found the revision it had read, or its  *)
(* deletion, and each leaves it consistent and the sole owner of its task.   *)
LEMMA RowsStep ==
  ASSUME IInv, [Next]_vars
  PROVE  NothingUnborn' /\ RowsAreConsistent' /\ OneTaskPerIdea'
<1> USE DEF IInv
<1> DEFINE Goal == NothingUnborn' /\ RowsAreConsistent' /\ OneTaskPerIdea'
<1>a. /\ idea \in [IdeaIds -> Row] /\ task \in [Tasks -> Task]
      /\ made \in [Tasks -> IdeaIds \cup {NoIdea}] /\ born \subseteq IdeaIds
      /\ NoIdea \notin IdeaIds /\ NoTask \notin Tasks
  BY IdeasAssumption DEF TypeOK
<1>b. ASSUME UNCHANGED <<idea, task, born, made>> PROVE Goal
  BY <1>b DEF NothingUnborn, RowsAreConsistent, Consistent, OneTaskPerIdea, Exists
<1>1. ASSUME NEW i \in IdeaIds, NEW c \in Contents, CreateIdea(i, c) PROVE Goal
  <2> DEFINE new == [Absent EXCEPT !.status = "ACTIVE", !.content = c, !.updatedAt = now]
  <2>1. /\ new.status = "ACTIVE" /\ new.archivedAt = Never /\ new.task = NoTask
        /\ new.reviewOn = NoDay
    BY DEF Absent, Row, Never
  <2> HIDE DEF new
  <2>2. /\ idea' = [idea EXCEPT ![i] = new] /\ born' = born \cup {i} /\ i \notin born
        /\ UNCHANGED <<task, made>>
    BY <1>1 DEF CreateIdea, new
  <2>3. \A t \in Tasks : made[t] # i
    BY <1>a, <2>2 DEF NothingUnborn
  <2>4. NothingUnborn'
    BY <1>a, <2>2 DEF NothingUnborn, Exists
  <2>5. RowsAreConsistent'
    BY <1>a, <2>1, <2>2 DEF RowsAreConsistent, Consistent
  <2>6. OneTaskPerIdea'
    BY <1>a, <2>2, <2>3 DEF OneTaskPerIdea, Exists
  <2> QED BY <2>4, <2>5, <2>6
<1>2. ASSUME NEW r \in Reqs, PatchWrite(r), StatusAsRead(r) PROVE Goal
  <2> DEFINE i == req[r].idea
  <2>1. /\ i \in IdeaIds /\ idea[i].status \in Open /\ i \in born
        /\ Patched(r).status \in Open
        /\ Patched(r).archivedAt # Never <=> Patched(r).status = "ARCHIVED"
        /\ Patched(r).reviewOn = Day => Patched(r).status = "ACTIVE"
        /\ Patched(r).task = idea[i].task
    BY <1>2, PatchedRow DEF PatchWrite
  <2>2. idea' = [idea EXCEPT ![i] = Patched(r)] /\ UNCHANGED <<task, born, made>>
    BY <1>2 DEF PatchWrite
  <2>3. idea[i].task = NoTask /\ \A t \in Tasks : made[t] # i
    BY <1>a, <2>1 DEF RowsAreConsistent, Consistent, OneTaskPerIdea, Exists, Open
  <2>4. NothingUnborn'
    BY <1>a, <2>1, <2>2 DEF NothingUnborn, Exists
  <2>5. RowsAreConsistent'
    BY <1>a, <2>1, <2>2, <2>3 DEF RowsAreConsistent, Consistent, Open
  <2>6. OneTaskPerIdea'
    BY <1>a, <2>2, <2>3 DEF OneTaskPerIdea, Exists
  <2> QED BY <2>4, <2>5, <2>6
<1>3. ASSUME NEW r \in Reqs, PatchWrite(r), ~StatusAsRead(r) PROVE Goal
  BY <1>3, <1>b DEF PatchWrite
<1>4. ASSUME NEW r \in Reqs, ConvertCommit(r) PROVE Goal
  <2> DEFINE i == req[r].idea
             t == req[r].task
             new == [idea[i] EXCEPT !.status = "CONVERTED", !.task = t, !.reviewOn = NoDay,
                                    !.archivedAt = Never, !.updatedAt = now]
             row == [content |-> req[r].seen.content, linkedIdea |-> i]
  <2>1. /\ i \in IdeaIds /\ i \in born /\ t \in Tasks /\ made[t] = NoIdea
        /\ idea[i].status \in Open
    BY <1>4, CommitFacts DEF ConvertCommit
  <2>2. /\ new.status = "CONVERTED" /\ new.task = t /\ new.reviewOn = NoDay
        /\ new.archivedAt = Never
    BY <1>a, <2>1 DEF Row
  <2>3. row.linkedIdea = i
    OBVIOUS
  <2> HIDE DEF new, row
  <2>4. /\ idea' = [idea EXCEPT ![i] = new] /\ task' = [task EXCEPT ![t] = row]
        /\ made' = [made EXCEPT ![t] = i] /\ born' = born
    BY <1>4 DEF ConvertCommit, new, row
  <2>5. \A u \in Tasks : made[u] # i
    BY <1>a, <2>1 DEF OneTaskPerIdea, RowsAreConsistent, Consistent, Exists, Open
  <2> HIDE DEF i, t
  <2>6. NothingUnborn'
    BY <1>a, <2>1, <2>4 DEF NothingUnborn, Exists, Open
  <2>7. ASSUME NEW j \in IdeaIds PROVE Consistent(j)'
    <3>1. CASE j = i
      BY <1>a, <2>1, <2>2, <2>3, <2>4, <3>1 DEF Consistent, Day, NoDay
    <3>2. CASE j # i
      <4>1. idea'[j] = idea[j] /\ Consistent(j)
        BY <1>a, <2>4, <3>2 DEF RowsAreConsistent
      <4>2. idea[j].status = "CONVERTED" => idea[j].task \in Tasks /\ idea[j].task # t
        BY <1>a, <2>1, <4>1 DEF Consistent, Row
      <4> QED BY <1>a, <2>4, <4>1, <4>2 DEF Consistent
    <3> QED BY <3>1, <3>2
  <2>8. OneTaskPerIdea'
    BY <1>a, <2>1, <2>2, <2>4, <2>5 DEF OneTaskPerIdea, Exists
  <2> QED BY <2>6, <2>7, <2>8 DEF RowsAreConsistent
<1>5. ASSUME NEW i \in IdeaIds, DeleteIdea(i) PROVE Goal
  <2>1. /\ idea' = [idea EXCEPT ![i] = Absent] /\ UNCHANGED <<born, made>>
        /\ \A t \in Tasks : task[t].linkedIdea # i => task'[t] = task[t]
    BY <1>5 DEF DeleteIdea, history
  <2>2. NothingUnborn'
    BY <1>a, <2>1, EmptyRecords DEF NothingUnborn, Exists
  <2>3. ASSUME NEW j \in IdeaIds PROVE Consistent(j)'
    <3>1. CASE j = i
      BY <1>a, <2>1, <3>1, EmptyRecords DEF Consistent, Day, NoDay
    <3>2. CASE j # i
      <4>1. idea'[j] = idea[j] /\ Consistent(j) /\ idea[j].task \in Tasks \cup {NoTask}
        BY <1>a, <2>1, <3>2 DEF RowsAreConsistent, Row
      <4> QED BY <1>a, <2>1, <3>2, <4>1 DEF Consistent
    <3> QED BY <3>1, <3>2
  <2>4. OneTaskPerIdea'
    BY <1>a, <2>1, EmptyRecords DEF OneTaskPerIdea, Exists
  <2> QED BY <2>2, <2>3, <2>4 DEF RowsAreConsistent
<1>6. CASE UNCHANGED vars
  BY <1>b, <1>6 DEF vars, history
<1>7. ASSUME NEW r \in Reqs,
             \/ \E i \in IdeaIds, p \in Patches : PatchRead(r, i, p)
             \/ \E i \in IdeaIds : ConvertRead(r, i)
             \/ PatchCall(r)
             \/ \E t \in Tasks : ConvertInsert(r, t)
             \/ ConvertRefuse(r) \/ DeadlockVictim(r) \/ Abort(r)
      PROVE  Goal
  BY <1>b, <1>7 DEF PatchRead, ConvertRead, PatchCall, ConvertInsert, ConvertRefuse,
                    DeadlockVictim, Abort, history
<1>8. CASE Tick
  BY <1>b, <1>8 DEF Tick, history
<1> QED
  BY <1>1, <1>2, <1>3, <1>4, <1>5, <1>6, <1>7, <1>8 DEF Next, Continue

-----------------------------------------------------------------------------
(* The inductive invariant holds of every behaviour.                         *)
THEOREM InductiveInvariant == Spec => []IInv
<1>1. Init => IInv
  <2> SUFFICES ASSUME Init PROVE IInv
    OBVIOUS
  <2> USE IdeasAssumption, EmptyRecords
  <2>1. TypeOK
    BY DEF Init, TypeOK, Times
  <2>2. RequestsAreSound /\ TasksAreReserved /\ NothingUnborn
    BY DEF Init, RequestsAreSound, TasksAreReserved, NothingUnborn, At, Exists
  <2>3. RowsAreConsistent /\ OneTaskPerIdea
    BY DEF Init, RowsAreConsistent, Consistent, OneTaskPerIdea, Exists, Day, NoDay
  <2> QED BY <2>1, <2>2, <2>3 DEF IInv
<1>2. IInv /\ [Next]_vars => IInv'
  BY TypeStep, SoundStep, RowsStep DEF IInv
<1> QED BY <1>1, <1>2, PTL DEF Spec

(* Every variable stays within its type. *)
THEOREM Typing == Spec => []TypeOK
BY InductiveInvariant, PTL DEF IInv

(* The columns of a row always agree with its status, whatever PATCHes,      *)
(* conversions and deletions overlapped (updateIdea, convertToTask).         *)
THEOREM Consistency == Spec => []RowsAreConsistent
BY InductiveInvariant, PTL DEF IInv

(* Overlapping conversions of an idea never make a second task, and no       *)
(* rolled-back conversion leaves one (convertToTask's transaction).          *)
THEOREM OneTask == Spec => []OneTaskPerIdea
BY InductiveInvariant, PTL DEF IInv

(* A converted idea is never written again: each of the two writes that find *)
(* a row at all finds one that is still open.                                *)
THEOREM Finality == Spec => ConvertedIsFinal
<1>1. ASSUME IInv, [Next]_vars, NEW i \in IdeaIds, idea[i].status = "CONVERTED"
      PROVE  idea'[i] \in {idea[i], Absent}
  <2> USE <1>1 DEF IInv
  <2>0. idea \in [IdeaIds -> Row] /\ i \in born
    BY DEF TypeOK, NothingUnborn, Exists
  <2>1. ASSUME NEW j \in IdeaIds, NEW c \in Contents, CreateIdea(j, c)
        PROVE  idea'[i] = idea[i]
    BY <2>0, <2>1 DEF CreateIdea
  <2>2. ASSUME NEW r \in Reqs, PatchWrite(r) PROVE idea'[i] = idea[i]
    BY <2>0, <2>2, PatchedRow DEF PatchWrite, Open
  <2>3. ASSUME NEW r \in Reqs, ConvertCommit(r) PROVE idea'[i] = idea[i]
    BY <2>0, <2>3, CommitFacts DEF ConvertCommit, Open
  <2>4. ASSUME NEW j \in IdeaIds, DeleteIdea(j) PROVE idea'[i] \in {idea[i], Absent}
    BY <2>0, <2>4 DEF DeleteIdea
  <2>5. ASSUME NEW r \in Reqs,
               \/ \E j \in IdeaIds, p \in Patches : PatchRead(r, j, p)
               \/ \E j \in IdeaIds : ConvertRead(r, j)
               \/ PatchCall(r)
               \/ \E t \in Tasks : ConvertInsert(r, t)
               \/ ConvertRefuse(r) \/ DeadlockVictim(r) \/ Abort(r)
        PROVE  idea' = idea
    BY <2>5 DEF PatchRead, ConvertRead, PatchCall, ConvertInsert, ConvertRefuse,
                DeadlockVictim, Abort
  <2>6. CASE UNCHANGED vars \/ Tick
    BY <2>6 DEF vars, Tick
  <2> QED BY <2>1, <2>2, <2>3, <2>4, <2>5, <2>6 DEF Next, Continue
<1>2. IInv /\ [Next]_vars =>
        [\A i \in IdeaIds : idea[i].status = "CONVERTED" => idea'[i] \in {idea[i], Absent}]_vars
  BY <1>1
<1> QED BY <1>2, InductiveInvariant, PTL DEF Spec, ConvertedIsFinal

-----------------------------------------------------------------------------
(* A revision goes on standing for one content: a write that repeats the     *)
(* timestamp of an earlier one is a clash.                                   *)
LEMMA MatchStep ==
  ASSUME MatchInv, [Next]_vars
  PROVE  RevisionsTellContents' /\ TasksMatchUnlessClashed'
<1> USE DEF MatchInv, IInv
<1> DEFINE Goal == RevisionsTellContents' /\ TasksMatchUnlessClashed'
           Conv == {"convertRead", "inserted"}
           R(q, d, s, c) ==
             q.pc \in Conv =>
               /\ q.seen.updatedAt \in s[q.idea]
               /\ /\ d[q.idea].status \in Open /\ q.idea \notin c
                  /\ d[q.idea].updatedAt = q.seen.updatedAt
                  => d[q.idea].content = q.seen.content
<1>a. /\ \A r \in Reqs : R(req[r], idea, stamps, clashed)
      /\ \A i \in IdeaIds : idea[i].status \in Open => idea[i].updatedAt \in stamps[i]
      /\ \A i \in IdeaIds : Diverges(i) => i \in clashed
  BY DEF RevisionsTellContents, TasksMatchUnlessClashed
<1>b. ASSUME \A r \in Reqs : R(req'[r], idea', stamps', clashed'),
             \A i \in IdeaIds : idea'[i].status \in Open => idea'[i].updatedAt \in stamps'[i],
             \A i \in IdeaIds : Diverges(i)' => i \in clashed'
      PROVE  Goal
  BY <1>b DEF RevisionsTellContents, TasksMatchUnlessClashed
<1>c. /\ idea \in [IdeaIds -> Row] /\ task \in [Tasks -> Task] /\ req \in [Reqs -> Request]
      /\ stamps \in [IdeaIds -> SUBSET Times]
      /\ \A r \in Reqs : req[r].pc \in Conv => req[r].idea \in born
      /\ born \subseteq IdeaIds
  BY DEF TypeOK, RequestsAreSound
<1>d. \A d, s, c : R(Idle, d, s, c)
  BY EmptyRecords
<1> HIDE DEF R
<1>e. ASSUME UNCHANGED <<idea, task, stamps, clashed>>,
             \A r \in Reqs : R(req'[r], idea, stamps, clashed)
      PROVE  Goal
  BY <1>a, <1>b, <1>e DEF Diverges
<1>f. ASSUME NEW r \in Reqs, NEW q, req' = [req EXCEPT ![r] = q],
             R(q, idea, stamps, clashed), UNCHANGED <<idea, task, history>>
      PROVE  Goal
  BY <1>a, <1>c, <1>e, <1>f DEF history
<1>1. ASSUME NEW i \in IdeaIds, NEW c \in Contents, CreateIdea(i, c) PROVE Goal
  <2> DEFINE new == [Absent EXCEPT !.status = "ACTIVE", !.content = c, !.updatedAt = now]
  <2>1. new.status = "ACTIVE" /\ new.updatedAt = now
    BY DEF Absent
  <2> HIDE DEF new
  <2>2. /\ idea' = [idea EXCEPT ![i] = new] /\ UNCHANGED <<task, req>> /\ i \notin born
        /\ stamps' = [stamps EXCEPT ![i] = @ \cup {now}] /\ clashed \subseteq clashed'
    BY <1>1 DEF CreateIdea, Stamp, new
  <2>3. \A r \in Reqs : R(req'[r], idea', stamps', clashed')
    BY <1>a, <1>c, <2>2 DEF R
  <2>4. \A j \in IdeaIds : idea'[j].status \in Open => idea'[j].updatedAt \in stamps'[j]
    BY <1>a, <1>c, <2>1, <2>2
  <2>5. \A j \in IdeaIds : Diverges(j)' => j \in clashed'
    BY <1>a, <1>c, <2>1, <2>2 DEF Diverges
  <2> QED BY <1>b, <2>3, <2>4, <2>5
<1>2. ASSUME NEW r \in Reqs, NEW i \in IdeaIds, NEW p \in Patches, PatchRead(r, i, p)
      PROVE  Goal
  <2> DEFINE new == [Idle EXCEPT !.pc = "patchRead", !.idea = i, !.seen = idea[i], !.patch = p]
  <2>1. R(new, idea, stamps, clashed)
    BY DEF R, Idle
  <2> QED BY <1>2, <1>f, <2>1 DEF PatchRead
<1>3. ASSUME NEW r \in Reqs, PatchCall(r) PROVE Goal
  <2> DEFINE at == IF NextStatus(r) # "ARCHIVED" THEN Never
                   ELSE IF req[r].seen.archivedAt = Never THEN now
                   ELSE req[r].seen.archivedAt
             new == [req[r] EXCEPT !.pc = "patchCalled", !.updatedAt = now, !.archivedAt = at]
  <2>1. R(new, idea, stamps, clashed)
    BY <1>c DEF R, Request
  <2>2. req' = [req EXCEPT ![r] = new]
    BY <1>3 DEF PatchCall
  <2> QED BY <1>3, <1>f, <2>1, <2>2 DEF PatchCall
<1>4. ASSUME NEW r \in Reqs, PatchWrite(r), StatusAsRead(r) PROVE Goal
  <2> DEFINE i == req[r].idea
             u == req[r].updatedAt
  <2>1. /\ i \in IdeaIds /\ Patched(r).status \in Open /\ Patched(r).updatedAt = u
    BY <1>4, PatchedRow DEF PatchWrite
  <2>2. /\ idea' = [idea EXCEPT ![i] = Patched(r)] /\ UNCHANGED task
        /\ req' = [req EXCEPT ![r] = Idle]
        /\ stamps' = [stamps EXCEPT ![i] = @ \cup {u}]
        /\ clashed' = IF u \in stamps[i] THEN clashed \cup {i} ELSE clashed
    BY <1>4 DEF PatchWrite, Stamp, Done
  <2> HIDE DEF i, u
  <2>3. ASSUME NEW q \in Reqs, q # r PROVE R(req[q], idea', stamps', clashed')
    <3> SUFFICES ASSUME req[q].pc \in Conv PROVE R(req[q], idea', stamps', clashed')
      BY DEF R
    <3>1. /\ req[q].seen.updatedAt \in stamps[req[q].idea] /\ req[q].idea \in IdeaIds
      BY <1>a, <1>c DEF R
    <3>2. CASE req[q].idea # i
      BY <1>a, <1>c, <2>1, <2>2, <3>2 DEF R
    <3>3. CASE req[q].idea = i
      BY <1>c, <2>1, <2>2, <3>1, <3>3 DEF R
    <3> QED BY <3>2, <3>3
  <2>4. \A q \in Reqs : R(req'[q], idea', stamps', clashed')
    BY <1>c, <1>d, <2>2, <2>3
  <2>5. \A j \in IdeaIds : idea'[j].status \in Open => idea'[j].updatedAt \in stamps'[j]
    BY <1>a, <1>c, <2>1, <2>2
  <2>6. \A j \in IdeaIds : Diverges(j)' => j \in clashed'
    BY <1>a, <1>c, <2>1, <2>2 DEF Diverges, Open
  <2> QED BY <1>b, <2>4, <2>5, <2>6
<1>5. ASSUME NEW r \in Reqs, NEW i \in IdeaIds, ConvertRead(r, i) PROVE Goal
  <2> DEFINE new == [Idle EXCEPT !.pc = "convertRead", !.idea = i, !.seen = idea[i]]
  <2>1. new.idea = i /\ new.seen = idea[i]
    BY DEF Idle
  <2>2. R(new, idea, stamps, clashed)
    BY <1>5, <1>a, <2>1 DEF ConvertRead, R
  <2> QED BY <1>5, <1>f, <2>2 DEF ConvertRead
<1>6. ASSUME NEW r \in Reqs, Done(r), UNCHANGED <<idea, task, history>> PROVE Goal
  BY <1>6, <1>d, <1>f DEF Done
<1>7. ASSUME NEW r \in Reqs, NEW t \in Tasks, ConvertInsert(r, t) PROVE Goal
  <2> DEFINE new == [req[r] EXCEPT !.pc = "inserted", !.task = t]
  <2>1. new.pc = "inserted" /\ new.idea = req[r].idea /\ new.seen = req[r].seen
    BY <1>c DEF Request
  <2>2. R(new, idea, stamps, clashed)
    BY <1>7, <1>a, <2>1 DEF ConvertInsert, At, R
  <2>3. Done(r) \/ req' = [req EXCEPT ![r] = new]
    BY <1>7 DEF ConvertInsert
  <2> QED BY <1>7, <1>6, <1>f, <2>2, <2>3 DEF ConvertInsert
<1>8. ASSUME NEW r \in Reqs, ConvertCommit(r) PROVE Goal
  <2> DEFINE i == req[r].idea
             t == req[r].task
             new == [idea[i] EXCEPT !.status = "CONVERTED", !.task = t, !.reviewOn = NoDay,
                                    !.archivedAt = Never, !.updatedAt = now]
             row == [content |-> req[r].seen.content, linkedIdea |-> i]
  <2>1. /\ i \in IdeaIds /\ t \in Tasks /\ made[t] = NoIdea
        /\ idea[i].status \in Open /\ idea[i].updatedAt = req[r].seen.updatedAt
    BY <1>8, CommitFacts DEF ConvertCommit
  <2>2. new.status = "CONVERTED" /\ new.task = t /\ new.content = idea[i].content
    BY <1>c, <2>1 DEF Row
  <2>3. i \notin clashed => idea[i].content = row.content
    BY <1>8, <1>a, <2>1 DEF ConvertCommit, At, R
  <2> HIDE DEF new, row
  <2>4. /\ idea' = [idea EXCEPT ![i] = new] /\ task' = [task EXCEPT ![t] = row]
        /\ UNCHANGED <<stamps, clashed>> /\ req' = [req EXCEPT ![r] = Idle]
    BY <1>8 DEF ConvertCommit, Done, new, row
  <2> HIDE DEF i, t
  <2>5. ASSUME NEW q \in Reqs PROVE R(req'[q], idea', stamps', clashed')
    <3>1. CASE q = r
      BY <1>c, <1>d, <2>4, <3>1
    <3>2. CASE q # r
      <4>1. req'[q] = req[q] /\ R(req[q], idea, stamps, clashed)
        BY <1>a, <1>c, <2>4, <3>2
      <4>2. req[q].pc \in Conv => req[q].idea \in IdeaIds
        BY <1>c
      <4>3. \A j \in IdeaIds : idea'[j].status \in Open => idea'[j] = idea[j]
        BY <1>c, <2>2, <2>4 DEF Open
      <4> QED BY <2>4, <4>1, <4>2, <4>3 DEF R
    <3> QED BY <3>1, <3>2
  <2>6. \A j \in IdeaIds : idea'[j].status \in Open => idea'[j].updatedAt \in stamps'[j]
    BY <1>a, <1>c, <2>2, <2>4 DEF Open
  <2>7. ASSUME NEW j \in IdeaIds, Diverges(j)' PROVE j \in clashed'
    <3>1. CASE j = i
      BY <1>c, <2>1, <2>2, <2>3, <2>4, <2>7, <3>1 DEF Diverges
    <3>2. CASE j # i
      <4>1. idea'[j] = idea[j] /\ idea[j].status = "CONVERTED"
        BY <1>c, <2>4, <2>7, <3>2 DEF Diverges
      <4>2. idea[j].task # t
        BY <2>1, <4>1, IdeasAssumption DEF RowsAreConsistent, Consistent
      <4> QED BY <1>a, <1>c, <2>4, <2>7, <4>1, <4>2 DEF Diverges
    <3> QED BY <3>1, <3>2
  <2> QED BY <1>b, <2>5, <2>6, <2>7
<1>9. ASSUME NEW i \in IdeaIds, DeleteIdea(i) PROVE Goal
  <2>1. /\ idea' = [idea EXCEPT ![i] = Absent]
        /\ UNCHANGED <<req, stamps, clashed>>
    BY <1>9 DEF DeleteIdea, history
  <2>2. \A t \in Tasks : task'[t].content = task[t].content
    BY <1>9, <1>c DEF DeleteIdea, Task
  <2>3. \A r \in Reqs : R(req'[r], idea', stamps', clashed')
    BY <1>a, <1>c, <2>1, EmptyRecords DEF R, Open
  <2>4. \A j \in IdeaIds : idea'[j].status \in Open => idea'[j].updatedAt \in stamps'[j]
    BY <1>a, <1>c, <2>1, EmptyRecords DEF Open
  <2>5. ASSUME NEW j \in IdeaIds, Diverges(j)' PROVE j \in clashed'
    <3>1. idea'[j] = idea[j] /\ idea[j].status = "CONVERTED"
      BY <1>c, <2>1, <2>5, EmptyRecords DEF Diverges
    <3>2. idea[j].task \in Tasks
      BY <1>c, <3>1 DEF RowsAreConsistent, Consistent, Row
    <3> QED BY <1>a, <2>1, <2>2, <2>5, <3>1, <3>2 DEF Diverges
  <2> QED BY <1>b, <2>3, <2>4, <2>5
<1>10. CASE UNCHANGED vars \/ Tick
  BY <1>10, <1>a, <1>e DEF vars, Tick, history
<1>11. ASSUME NEW r \in Reqs,
              ConvertRefuse(r) \/ DeadlockVictim(r) \/ Abort(r)
                \/ (PatchWrite(r) /\ ~StatusAsRead(r))
       PROVE  Goal
  BY <1>6, <1>11 DEF ConvertRefuse, DeadlockVictim, Abort, PatchWrite, history
<1> QED
  BY <1>1, <1>2, <1>3, <1>4, <1>5, <1>7, <1>8, <1>9, <1>10, <1>11 DEF Next, Continue

(* The task of a converted idea has the idea's content unless two writes of  *)
(* the idea carried one updatedAt: what convertToTask's comparison of        *)
(* updatedAt achieves, and all it achieves.                                  *)
THEOREM Matching == Spec => []TasksMatchUnlessClashed
<1>1. Init => RevisionsTellContents /\ TasksMatchUnlessClashed
  BY EmptyRecords DEF Init, RevisionsTellContents, TasksMatchUnlessClashed, Diverges, Open
<1>2. MatchInv /\ [Next]_vars => RevisionsTellContents' /\ TasksMatchUnlessClashed'
  BY MatchStep
<1> QED BY <1>1, <1>2, InductiveInvariant, PTL DEF Spec, MatchInv

-----------------------------------------------------------------------------
(* The committed rows live the life IdeaLifecycle promises: every step       *)
(* creates, converts or deletes one idea, or changes no life.                *)
THEOREM Implementation == Spec => ImplementsLifecycle
<1> DEFINE life == [i \in IdeaIds |-> Life(i)]
<1>1. Init => Lifecycle!LifecycleInit
  BY DEF Init, Lifecycle!LifecycleInit, Life
<1>2. ASSUME IInv, [Next]_vars
      PROVE  [Lifecycle!LifecycleNext]_(Lifecycle!lifecycleVars)
  <2> USE <1>2 DEF IInv
  <2> DEFINE Goal == [Lifecycle!LifecycleNext]_(Lifecycle!lifecycleVars)
  <2>a. idea \in [IdeaIds -> Row] /\ NoIdea \notin IdeaIds
    BY IdeasAssumption DEF TypeOK
  <2>b. ASSUME UNCHANGED made, \A i \in IdeaIds : Life(i)' = Life(i) PROVE Goal
    BY <2>b DEF Lifecycle!lifecycleVars
  <2>c. ASSUME NEW i \in IdeaIds, NEW stage, life' = [life EXCEPT ![i] = stage]
        PROVE  Lifecycle!Become(i, stage)
    BY <2>c DEF Lifecycle!Become
  <2>d. ASSUME NEW i \in IdeaIds, NEW stage, Life(i)' = stage,
               \A j \in IdeaIds \ {i} : Life(j)' = Life(j)
        PROVE  life' = [life EXCEPT ![i] = stage]
    BY <2>d
  <2>1. ASSUME NEW i \in IdeaIds, NEW c \in Contents, CreateIdea(i, c) PROVE Goal
    <3>1. Life(i) = "unborn" /\ Life(i)' = "open"
      BY <2>1, <2>a DEF CreateIdea, Life, Exists
    <3>2. \A j \in IdeaIds \ {i} : Life(j)' = Life(j)
      BY <2>1, <2>a DEF CreateIdea, Life, Exists
    <3>3. Lifecycle!Create(i)
      BY <2>1, <2>c, <2>d, <3>1, <3>2 DEF CreateIdea, Lifecycle!Create
    <3> QED BY <3>3 DEF Lifecycle!LifecycleNext
  <2>2. ASSUME NEW r \in Reqs, PatchWrite(r) PROVE Goal
    <3>1. CASE StatusAsRead(r)
      <4>1. /\ req[r].idea \in IdeaIds /\ idea[req[r].idea].status \in Open
            /\ Patched(r).status \in Open
        BY <2>2, <3>1, PatchedRow DEF PatchWrite
      <4>2. idea' = [idea EXCEPT ![req[r].idea] = Patched(r)] /\ UNCHANGED <<born, made>>
        BY <2>2, <3>1 DEF PatchWrite
      <4>3. \A i \in IdeaIds : Life(i)' = Life(i)
        BY <2>a, <4>1, <4>2 DEF Life, Exists, Open
      <4> QED BY <2>b, <4>2, <4>3
    <3>2. CASE ~StatusAsRead(r)
      BY <2>2, <2>b, <3>2 DEF PatchWrite, Life, Exists
    <3> QED BY <3>1, <3>2
  <2>3. ASSUME NEW r \in Reqs, NEW i, NEW t, i = req[r].idea, t = req[r].task,
               ConvertCommit(r)
        PROVE  Goal
    <3> DEFINE new == [idea[i] EXCEPT !.status = "CONVERTED", !.task = t, !.reviewOn = NoDay,
                                      !.archivedAt = Never, !.updatedAt = now]
    <3>1. /\ i \in IdeaIds /\ i \in born /\ t \in Tasks /\ made[t] = NoIdea
          /\ idea[i].status \in Open
      BY <2>3, CommitFacts DEF ConvertCommit
    <3>2. new.status = "CONVERTED"
      BY <2>a, <3>1 DEF Row
    <3> HIDE DEF new
    <3>3. /\ idea' = [idea EXCEPT ![i] = new] /\ born' = born
          /\ made' = [made EXCEPT ![t] = i]
      BY <2>3 DEF ConvertCommit, new
    <3>4. Life(i) = "open" /\ Life(i)' = "converted"
      BY <2>a, <3>1, <3>2, <3>3 DEF Life, Exists, Open
    <3>5. \A j \in IdeaIds \ {i} : Life(j)' = Life(j)
      BY <2>a, <3>3 DEF Life, Exists
    <3>6. Lifecycle!Convert(i, t)
      BY <2>c, <2>d, <3>1, <3>3, <3>4, <3>5 DEF Lifecycle!Convert
    <3> QED BY <3>1, <3>6 DEF Lifecycle!LifecycleNext
  <2>4. ASSUME NEW i \in IdeaIds, DeleteIdea(i) PROVE Goal
    <3>1. Life(i) \in {"open", "converted"} /\ i \in born
      BY <2>4 DEF DeleteIdea, Life, NothingUnborn
    <3>2. idea' = [idea EXCEPT ![i] = Absent] /\ UNCHANGED <<born, made>>
      BY <2>4 DEF DeleteIdea, history
    <3>3. Life(i)' = "gone" /\ \A j \in IdeaIds \ {i} : Life(j)' = Life(j)
      BY <2>a, <3>1, <3>2, EmptyRecords DEF Life, Exists
    <3>4. Lifecycle!Delete(i)
      BY <2>c, <2>d, <3>1, <3>2, <3>3 DEF Lifecycle!Delete
    <3> QED BY <3>4 DEF Lifecycle!LifecycleNext
  <2>5. ASSUME NEW r \in Reqs,
               \/ \E j \in IdeaIds, p \in Patches : PatchRead(r, j, p)
               \/ \E j \in IdeaIds : ConvertRead(r, j)
               \/ PatchCall(r)
               \/ \E t \in Tasks : ConvertInsert(r, t)
               \/ ConvertRefuse(r) \/ DeadlockVictim(r) \/ Abort(r)
        PROVE  Goal
    <3>1. UNCHANGED <<idea, born, made>>
      BY <2>5 DEF PatchRead, ConvertRead, PatchCall, ConvertInsert, ConvertRefuse,
                  DeadlockVictim, Abort, history
    <3> QED BY <2>b, <3>1 DEF Life, Exists
  <2>6. CASE UNCHANGED vars \/ Tick
    BY <2>6, <2>b DEF vars, Tick, history, Life, Exists
  <2> QED BY <2>1, <2>2, <2>3, <2>4, <2>5, <2>6 DEF Next, Continue
<1> QED
  BY <1>1, <1>2, InductiveInvariant, PTL DEF Spec, ImplementsLifecycle, Lifecycle!LifecycleSpec
=============================================================================
