------------------------------- MODULE Calendar -------------------------------
(***************************************************************************)
(* Calendar connections of one user: CalendarService, the queue             *)
(* "calendar-sync" and CalendarSyncWorker, over PostgreSQL and Redis.       *)
(*                                                                         *)
(* A connection is a row; its status is written, without a condition, by    *)
(* four parties: the OAuth callback, a sync request, a revoke request and   *)
(* the worker, each from what it read some awaits earlier.  One SQL         *)
(* statement, transaction or Redis command is one step.  Rows are never     *)
(* deleted.                                                                 *)
(*                                                                         *)
(* BullMQ, as the worker configures it: a job is tried once; when the       *)
(* process that runs it dies, it is run again, and failed the second time.  *)
(*                                                                         *)
(* Production configuration: the development bridge is off, as              *)
(* env.validation.ts:35 demands, and Google is the provider.  Left out, as  *)
(* no guard of this component reads them: the sync cursor, which the        *)
(* adapter ignores, the timestamps, labels and lastErrorCode.               *)
(***************************************************************************)
EXTENDS Integers, FiniteSets

CONSTANTS
  Conns,      \* provider accounts, each at most one row
  Flows,      \* ids of the OAuth flows that will be started
  Reqs,       \* request slots: how many requests are in flight at once
  Workers,    \* job slots of the worker processes (concurrency 3 in the code)
  Jobs,       \* ids of the jobs that will be queued
  Ops,        \* the operations and faults of this instance
  MaxGrants,  \* bound: how many authorization codes are exchanged
  MaxEdits,   \* bound: how often the calendar changes at the provider
  NoConn, NoFlow, NoJob

VARIABLES
  conn,       \* rows of calendar_connections
  event,      \* the version of the events stored for a connection
  provider,   \* the version of the events at the provider
  live,       \* flows whose state is in Redis
  onboarding, \* users.onboarding_status
  job,        \* the queue
  worker,     \* the jobs being processed
  req,        \* the requests in flight
  issued      \* grants handed out by the provider

\* History, read by no step but to extend it.
VARIABLES
  started,    \* flows that have been started
  completed,  \* flows that have saved a connection
  leaked,     \* of these, the ones whose callback died before deleting the state
  saved,      \* the grant the last callback of a connection saved
  lost,       \* connections whose sync was dropped by a fault
  regranted,  \* connections reconnected while a sync of theirs was running
  overlapped  \* connections that had two syncs running at once

stored == <<conn, event, live, onboarding, job>>
history == <<started, completed, leaked, saved, lost, regranted, overlapped>>
vars == <<stored, provider, worker, req, issued, history>>

-----------------------------------------------------------------------------
NoGrant == 0
Grants == 1..MaxGrants
Versions == 0..MaxEdits

Connected == {"ACTIVE", "SYNCING", "ERROR"}
Row == [status : Connected \cup {"none", "REVOKED"}, creds : Grants \cup {NoGrant}]
NoRow == [status |-> "none", creds |-> NoGrant]

\* MBTI_PENDING stands for AUTH_ONLY too: every guard here treats them alike.
Onboarding == {"MBTI_PENDING", "CALENDAR_PENDING", "COMPLETED"}

\* asked is the payload's requested_at, as the provider's version at that time.
Job == [state : {"unused", "waiting", "active", "done"}, conn : Conns \cup {NoConn},
        asked : Versions, stalled : BOOLEAN]
Unused == [state |-> "unused", conn |-> NoConn, asked |-> 0, stalled |-> FALSE]
Over == [Unused EXCEPT !.state = "done"]

WorkerSlot == [pc : {"idle", "loaded", "fetched", "stored", "failing"},
               job : Jobs \cup {NoJob}, conn : Conns \cup {NoConn},
               creds : Grants \cup {NoGrant}, version : Versions, refreshed : BOOLEAN]
Free == [pc |-> "idle", job |-> NoJob, conn |-> NoConn, creds |-> NoGrant,
         version |-> 0, refreshed |-> FALSE]

SyncStages == {"syncRead", "marked"}
CallbackStages == {"got", "ready", "exchanged", "drop"}
Request == [pc : {"idle"} \cup SyncStages \cup CallbackStages, conn : Conns \cup {NoConn},
            flow : Flows \cup {NoFlow}, job : Jobs \cup {NoJob}, asked : Versions,
            grant : Grants \cup {NoGrant}]
Idle == [pc |-> "idle", conn |-> NoConn, flow |-> NoFlow, job |-> NoJob, asked |-> 0,
         grant |-> NoGrant]

ASSUME CalendarAssumption ==
  /\ MaxGrants \in Nat /\ MaxEdits \in Nat
  /\ NoConn \notin Conns /\ NoFlow \notin Flows /\ NoJob \notin Jobs

At(r, pc) == req[r].pc = pc
Goto(r, pc) == req' = [req EXCEPT ![r].pc = pc]
Done(r) == req' = [req EXCEPT ![r] = Idle]
Revoked(c) == conn[c].status = "REVOKED"

-----------------------------------------------------------------------------
(* startOAuthConnection: the state is SET with a TTL. *)
StartOAuth(f) ==
  /\ f \notin started
  /\ live' = live \cup {f} /\ started' = started \cup {f}
  /\ UNCHANGED <<conn, event, onboarding, job, provider, worker, req, issued,
                 completed, leaked, saved, lost, regranted, overlapped>>

(* The state's TTL runs out. *)
ExpireState(f) ==
  /\ f \in live /\ live' = live \ {f}
  /\ UNCHANGED <<conn, event, onboarding, job, provider, worker, req, issued, history>>

(* completeOAuthConnection, GET of the state; without it, a 400.  The account *)
(* comes with the callback's query.                                          *)
CallbackRead(r, f, c) ==
  /\ At(r, "idle") /\ f \in live
  /\ req' = [req EXCEPT ![r] = [Idle EXCEPT !.pc = "got", !.flow = f, !.conn = c]]
  /\ UNCHANGED <<stored, provider, worker, issued, history>>

(* The user is read: one whose MBTI profile is not confirmed may not connect. *)
(* A denial by the user, or a missing code, ends the flow in any case.       *)
CallbackCheck(r) ==
  /\ At(r, "got")
  /\ Goto(r, "drop") \/ (onboarding # "MBTI_PENDING" /\ Goto(r, "ready"))
  /\ UNCHANGED <<stored, provider, worker, issued, history>>

(* The provider exchanges the code for a grant, or refuses. *)
CallbackExchange(r) ==
  /\ At(r, "ready")
  /\ \/ /\ issued < MaxGrants /\ issued' = issued + 1
        /\ req' = [req EXCEPT ![r].pc = "exchanged", ![r].grant = issued + 1]
     \/ Goto(r, "drop") /\ UNCHANGED issued
  /\ UNCHANGED <<stored, provider, worker, history>>

\* Fault: the update branch of the upsert leaves credentialsRef alone.
SavedRowKeeps(r, row) ==
  [status |-> "ACTIVE", creds |-> IF row.status = "none" THEN req[r].grant ELSE row.creds]
(* The upsert of the connection: create and update write the same columns. *)
SavedRow(r, row) == [status |-> "ACTIVE", creds |-> req[r].grant]

(* The transaction: the connection is upserted and the user's onboarding     *)
(* status set to what follows from the one read, COMPLETED in either case.   *)
CallbackSave(r) ==
  LET c == req[r].conn
      g == req[r].grant
  IN /\ At(r, "exchanged")
     /\ conn' = [conn EXCEPT ![c] = SavedRow(r, conn[c])]
     /\ onboarding' = "COMPLETED"
     /\ Goto(r, "drop")
     /\ completed' = completed \cup {req[r].flow}
     /\ saved' = [saved EXCEPT ![c] = g]
     /\ lost' = lost \ {c}
     /\ regranted' = IF \E w \in Workers : worker[w].conn = c THEN regranted \cup {c}
                     ELSE regranted
     /\ UNCHANGED <<event, live, job, provider, worker, issued, started, leaked,
                    overlapped>>

\* Fault: the state is left to its TTL.
KeepState(f) == live
(* DEL of the state. *)
WithoutState(f) == live \ {f}

(* The state is deleted and the callback answers. *)
CallbackDrop(r) ==
  /\ At(r, "drop")
  /\ live' = WithoutState(req[r].flow)
  /\ Done(r)
  /\ UNCHANGED <<conn, event, onboarding, job, provider, worker, issued, history>>

(* skipCalendarOnboarding; what it read only guards the write. *)
SkipOnboarding ==
  /\ "onboarding" \in Ops
  /\ onboarding # "MBTI_PENDING" /\ onboarding' = "COMPLETED"
  /\ UNCHANGED <<conn, event, live, job, provider, worker, req, issued, history>>

(* MbtiService writes the status too, from its own stale reads: anything.    *)
MbtiWrites(s) ==
  /\ "onboarding" \in Ops
  /\ s # onboarding /\ onboarding' = s
  /\ UNCHANGED <<conn, event, live, job, provider, worker, req, issued, history>>

-----------------------------------------------------------------------------
NewJob(j) == job[j].state = "unused" /\ \A r \in Reqs : req[r].job # j

(* syncConnection, the read: a missing or revoked connection is refused. *)
SyncRead(r, c, j) ==
  /\ At(r, "idle") /\ NewJob(j)
  /\ conn[c].status \in Connected
  /\ req' = [req EXCEPT ![r] = [Idle EXCEPT !.pc = "syncRead", !.conn = c, !.job = j,
                                            !.asked = provider[c]]]
  /\ UNCHANGED <<stored, provider, worker, issued, history>>

\* Fault: a status the enum does not have.
MarkedRowQueued(row) == [row EXCEPT !.status = "QUEUED"]
(* The data of the update in syncConnection. *)
MarkedRow(row) == [row EXCEPT !.status = "SYNCING"]

(* The row is marked SYNCING, whatever it says now. *)
SyncMark(r) ==
  /\ At(r, "syncRead")
  /\ conn' = [conn EXCEPT ![req[r].conn] = MarkedRow(@)]
  /\ Goto(r, "marked")
  /\ UNCHANGED <<event, live, onboarding, job, provider, worker, issued, history>>

(* The job is queued and the request answers. *)
SyncEnqueue(r) ==
  /\ At(r, "marked")
  /\ job' = [job EXCEPT ![req[r].job] = [Unused EXCEPT !.state = "waiting",
               !.conn = req[r].conn, !.asked = req[r].asked]]
  /\ Done(r)
  /\ UNCHANGED <<conn, event, live, onboarding, provider, worker, issued, history>>

(* The data of the update in revokeConnection. *)
RevokedRow(row) == [status |-> "REVOKED", creds |-> NoGrant]

(* revokeConnection: the read only shows that the row exists. *)
Revoke(c) ==
  /\ conn[c].status # "none"
  /\ conn' = [conn EXCEPT ![c] = RevokedRow(@)]
  /\ lost' = lost \ {c}
  /\ UNCHANGED <<event, live, onboarding, job, provider, worker, req, issued,
                 started, completed, leaked, saved, regranted, overlapped>>

-----------------------------------------------------------------------------
Busy(w) == worker[w].pc # "idle"
WAt(w, pc) == worker[w].pc = pc
Finished(w) ==
  /\ job' = [job EXCEPT ![worker[w].job] = Over]
  /\ worker' = [worker EXCEPT ![w] = Free]

\* Faults: revoked connections are not skipped; all but ACTIVE ones are.
NeverSkipped(c) == FALSE
SkippedUnlessActive(c) == conn[c].status # "ACTIVE"
(* handleJob ends at once for a revoked connection. *)
Skipped(c) == Revoked(c)

(* A worker takes a job and reads the connection.  Without credentials it    *)
(* goes on to record an error.                                               *)
Load(w, j) ==
  LET c == job[j].conn
  IN /\ ~Busy(w) /\ job[j].state = "waiting"
     /\ \/ /\ Skipped(c)
           /\ job' = [job EXCEPT ![j] = Over]
           /\ UNCHANGED <<worker, overlapped>>
        \/ /\ ~Skipped(c)
           /\ job' = [job EXCEPT ![j].state = "active"]
           /\ worker' = [worker EXCEPT ![w] = [Free EXCEPT
                !.pc = IF conn[c].creds = NoGrant THEN "failing" ELSE "loaded",
                !.job = j, !.conn = c, !.creds = conn[c].creds]]
           /\ overlapped' = IF \E v \in Workers : worker[v].conn = c
                            THEN overlapped \cup {c} ELSE overlapped
     /\ UNCHANGED <<conn, event, live, onboarding, provider, req, issued,
                    started, completed, leaked, saved, lost, regranted>>

(* The read fails, outside the try block: the job fails, the row stays.      *)
LoadFails(j) ==
  /\ "faults" \in Ops /\ job[j].state = "waiting"
  /\ job' = [job EXCEPT ![j] = Over]
  /\ lost' = lost \cup {job[j].conn}
  /\ UNCHANGED <<conn, event, live, onboarding, provider, worker, req, issued,
                 started, completed, leaked, saved, regranted, overlapped>>

\* Fault: the provider is asked for the calendar as of requested_at.
SnapshotAtRequest(w) == job[worker[w].job].asked
(* What fetchEvents returns. *)
Snapshot(w) == provider[worker[w].conn]

(* fetchEvents; the client library may refresh the tokens on the way. *)
Fetch(w, refreshed) ==
  /\ WAt(w, "loaded")
  /\ worker' = [worker EXCEPT ![w].pc = "fetched", ![w].version = Snapshot(w),
                              ![w].refreshed = refreshed]
  /\ UNCHANGED <<stored, provider, req, issued, history>>

(* upsertEvents: the rows are overwritten.  fetchEvents leaves out what it    *)
(* cannot map, and all calendars but the primary when it cannot list them.   *)
Store(w) ==
  /\ WAt(w, "fetched")
  /\ \/ event' = [event EXCEPT ![worker[w].conn] = worker[w].version]
     \/ UNCHANGED event
  /\ worker' = [worker EXCEPT ![w].pc = "stored"]
  /\ UNCHANGED <<conn, live, onboarding, job, provider, req, issued, history>>

\* Fault: the status is left to the next sync.
SyncedRowKeepsStatus(w, row) ==
  [row EXCEPT !.creds = IF worker[w].refreshed THEN worker[w].creds ELSE @]
(* The data of the last update in handleJob. *)
SyncedRow(w, row) ==
  [row EXCEPT !.status = "ACTIVE",
              !.creds = IF worker[w].refreshed THEN worker[w].creds ELSE @]

(* The connection becomes ACTIVE, whatever it says now. *)
Finish(w) ==
  LET c == worker[w].conn
  IN /\ WAt(w, "stored")
     /\ conn' = [conn EXCEPT ![c] = SyncedRow(w, conn[c])]
     /\ lost' = lost \ {c}
     /\ Finished(w)
     /\ UNCHANGED <<event, live, onboarding, provider, req, issued,
                    started, completed, leaked, saved, regranted, overlapped>>

(* Something in handleJob's try block throws; events may have been stored.   *)
SyncFails(w) ==
  /\ worker[w].pc \in {"loaded", "fetched", "stored"}
  /\ worker' = [worker EXCEPT ![w].pc = "failing"]
  /\ \/ UNCHANGED event
     \/ WAt(w, "fetched") /\ event' = [event EXCEPT ![worker[w].conn] = worker[w].version]
  /\ UNCHANGED <<conn, live, onboarding, job, provider, req, issued, history>>

(* markConnectionError: ERROR, whatever the row says now. *)
MarkError(w) ==
  LET c == worker[w].conn
  IN /\ WAt(w, "failing")
     /\ conn' = [conn EXCEPT ![c].status = "ERROR"]
     /\ lost' = lost \ {c}
     /\ Finished(w)
     /\ UNCHANGED <<event, live, onboarding, provider, req, issued,
                    started, completed, leaked, saved, regranted, overlapped>>

-----------------------------------------------------------------------------
(* The process of a request dies, or a store fails it. *)
Abort(r) ==
  /\ "faults" \in Ops /\ ~At(r, "idle")
  /\ lost' = IF At(r, "marked") THEN lost \cup {req[r].conn} ELSE lost
  /\ leaked' = IF At(r, "drop") /\ req[r].flow \in completed
               THEN leaked \cup {req[r].flow} ELSE leaked
  /\ Done(r)
  /\ UNCHANGED <<stored, provider, worker, issued, started, completed, saved,
                 regranted, overlapped>>

(* The process of a worker dies.  The job stalls and is queued again; the    *)
(* second time BullMQ fails it.                                              *)
WorkerDies(w) ==
  LET j == worker[w].job
  IN /\ "faults" \in Ops /\ Busy(w)
     /\ \/ /\ ~job[j].stalled
           /\ job' = [job EXCEPT ![j].state = "waiting", ![j].stalled = TRUE]
           /\ UNCHANGED lost
        \/ /\ job[j].stalled
           /\ job' = [job EXCEPT ![j] = Over]
           /\ lost' = lost \cup {worker[w].conn}
     /\ worker' = [worker EXCEPT ![w] = Free]
     /\ UNCHANGED <<conn, event, live, onboarding, provider, req, issued,
                    started, completed, leaked, saved, regranted, overlapped>>

(* The update of markConnectionError fails: the job fails with it.           *)
MarkErrorFails(w) ==
  /\ "faults" \in Ops /\ WAt(w, "failing")
  /\ Finished(w)
  /\ lost' = lost \cup {worker[w].conn}
  /\ UNCHANGED <<conn, event, live, onboarding, provider, req, issued,
                 started, completed, leaked, saved, regranted, overlapped>>

(* Somebody edits the calendar at the provider. *)
Edit(c) ==
  /\ provider[c] < MaxEdits
  /\ provider' = [provider EXCEPT ![c] = @ + 1]
  /\ UNCHANGED <<stored, worker, req, issued, history>>

-----------------------------------------------------------------------------
Init ==
  /\ conn = [c \in Conns |-> NoRow]
  /\ event = [c \in Conns |-> 0] /\ provider = [c \in Conns |-> 0]
  /\ live = {} /\ onboarding = "CALENDAR_PENDING"
  /\ job = [j \in Jobs |-> Unused]
  /\ worker = [w \in Workers |-> Free]
  /\ req = [r \in Reqs |-> Idle]
  /\ issued = 0
  /\ started = {} /\ completed = {} /\ leaked = {}
  /\ saved = [c \in Conns |-> NoGrant]
  /\ lost = {} /\ regranted = {} /\ overlapped = {}

\* The next statement of a request already in flight, and of a worker.
Continue(r) ==
  \/ CallbackCheck(r) \/ CallbackExchange(r) \/ CallbackSave(r) \/ CallbackDrop(r)
  \/ SyncMark(r) \/ SyncEnqueue(r)
Work(w) ==
  \/ \E j \in Jobs : Load(w, j)
  \/ \E refreshed \in BOOLEAN : Fetch(w, refreshed)
  \/ Store(w) \/ Finish(w) \/ SyncFails(w) \/ MarkError(w)

Next ==
  \/ \E f \in Flows : StartOAuth(f) \/ ExpireState(f)
  \/ \E r \in Reqs :
       \/ \E f \in Flows, c \in Conns : CallbackRead(r, f, c)
       \/ \E c \in Conns, j \in Jobs : SyncRead(r, c, j)
       \/ Continue(r) \/ Abort(r)
  \/ \E w \in Workers : Work(w) \/ WorkerDies(w) \/ MarkErrorFails(w)
  \/ \E j \in Jobs : LoadFails(j)
  \/ \E c \in Conns : Revoke(c) \/ Edit(c)
  \/ SkipOnboarding \/ \E s \in Onboarding : MbtiWrites(s)

Spec == Init /\ [][Next]_vars

\* The stores answer, the event loop resumes every request, and a worker that
\* lives takes jobs and goes on with the one it has.
FairSpec == /\ Spec
            /\ \A r \in Reqs : WF_vars(Continue(r))
            /\ \A w \in Workers : WF_vars(Work(w))

-----------------------------------------------------------------------------
TypeOK ==
  /\ conn \in [Conns -> Row]
  /\ event \in [Conns -> Versions] /\ provider \in [Conns -> Versions]
  /\ live \subseteq Flows /\ onboarding \in Onboarding
  /\ job \in [Jobs -> Job]
  /\ worker \in [Workers -> WorkerSlot]
  /\ req \in [Reqs -> Request]
  /\ issued \in 0..MaxGrants
  /\ started \subseteq Flows /\ completed \subseteq Flows /\ leaked \subseteq Flows
  /\ saved \in [Conns -> Grants \cup {NoGrant}]
  /\ lost \subseteq Conns /\ regranted \subseteq Conns /\ overlapped \subseteq Conns

(* A connection never says SYNCING for nothing: a request is about to queue  *)
(* the sync, a job waits, or a worker is at it; only a process that died, or *)
(* an error that could not be recorded, leaves it so.                        *)
Pending(c) ==
  \/ \E r \in Reqs : At(r, "marked") /\ req[r].conn = c
  \/ \E j \in Jobs : job[j].state = "waiting" /\ job[j].conn = c
  \/ \E w \in Workers : worker[w].conn = c
SyncingIsPending ==
  \A c \in Conns : conn[c].status = "SYNCING" => Pending(c) \/ c \in lost

(* Once a callback has saved a connection and answered, its state completes  *)
(* no other: it outlives the callback only if the process died before DEL.   *)
FlowIsSpent ==
  \A f \in completed \cap live :
    f \in leaked \/ \E r \in Reqs : At(r, "drop") /\ req[r].flow = f

(* A revocation is final once the syncs that had begun are over: no request  *)
(* and no queued job touches the connection until the user connects again.   *)
Quiet(c) ==
  /\ \A r \in Reqs : req[r].pc \in SyncStages => req[r].conn # c
  /\ \A w \in Workers : worker[w].conn # c
Reconnects(c) ==
  \E r \in Reqs : At(r, "exchanged") /\ req[r].conn = c /\ req'[r].pc = "drop"
RevocationHoldsOnceQuiet ==
  [][\A c \in Conns : Revoked(c) /\ Quiet(c) =>
       Quiet(c)' /\ (conn'[c] = conn[c] \/ Reconnects(c))]_vars

(* The credentials of a connection are those of the last callback, although  *)
(* a worker writes back the ones it refreshed; none are left once it is      *)
(* revoked.  A callback during a sync is the exception.                      *)
CredentialsAreTheLastSaved ==
  \A c \in Conns :
    /\ Revoked(c) => conn[c].creds = NoGrant
    /\ conn[c].creds \in {NoGrant, saved[c]} \/ c \in regranted

(* What is shown of a calendar never goes back to an older state, whatever   *)
(* is retried after a crash, unless two syncs ran at once.                   *)
EventsGoBackOnlyByOverlap ==
  [][\A c \in Conns : event'[c] < event[c] => c \in overlapped]_vars

(* A sync ends: the connection leaves SYNCING, unless a fault dropped it.    *)
SyncEnds == \A c \in Conns :
  conn[c].status = "SYNCING" ~> conn[c].status # "SYNCING" \/ c \in lost

(* The promise of ConnectionLifecycle, over the rows, the requests that have *)
(* yet to mark one, and the workers: a revoked connection comes back only by *)
(* a sync or a request that was at it when it was revoked, or by the user,   *)
(* and only with credentials that one of these holds.                        *)
Standing(c) ==
  IF conn[c].status = "none" THEN "absent" ELSE IF Revoked(c) THEN "revoked" ELSE "connected"
Asking(c) == \E r \in Reqs : At(r, "syncRead") /\ req[r].conn = c
Held(c) == {worker[w].creds : w \in {v \in Workers : worker[v].conn = c}}

Lifecycle(c) == INSTANCE ConnectionLifecycle
  WITH standing <- Standing(c), creds <- conn[c].creds, asking <- Asking(c), held <- Held(c)

ImplementsLifecycle ==
  /\ \A c \in Conns : Lifecycle(c)!LifecycleInit
  /\ [][\A c \in Conns : [Lifecycle(c)!LifecycleNext]_(Lifecycle(c)!lifecycleVars)]_vars

-----------------------------------------------------------------------------
(* The inductive invariant behind the safety properties.                     *)

\* A request holds what its stage needs; a sync holds a job id of its own.
RequestsAreSound ==
  \A r \in Reqs :
    /\ req[r].pc \in SyncStages =>
         /\ req[r].conn \in Conns /\ req[r].job \in Jobs
         /\ job[req[r].job].state = "unused"
         /\ \A q \in Reqs : req[q].job = req[r].job => q = r
    /\ req[r].pc \in CallbackStages => req[r].conn \in Conns /\ req[r].flow \in started
    /\ req[r].pc \notin SyncStages => req[r].job = NoJob

\* A waiting job names a connection; an active one has one worker, and a
\* worker an active job of the connection it is at.
WorkersAreSound ==
  /\ \A j \in Jobs : job[j].state = "waiting" => job[j].conn \in Conns
  /\ \A w \in Workers :
       /\ WAt(w, "idle") => worker[w] = Free
       /\ Busy(w) =>
            /\ worker[w].conn \in Conns /\ worker[w].job \in Jobs
            /\ job[worker[w].job].state = "active"
            /\ job[worker[w].job].conn = worker[w].conn
            /\ \A v \in Workers : worker[v].job = worker[w].job => v = w

\* What is live or completed was started.
FlowsWereStarted == live \subseteq started /\ completed \subseteq started

BaseInv == TypeOK /\ FlowsWereStarted /\ RequestsAreSound /\ WorkersAreSound

\* A worker holds the last saved credentials, or the user reconnected since.
WorkersHoldTheLastSaved ==
  \A w \in Workers : LET c == worker[w].conn IN
    Busy(w) => worker[w].creds \in {NoGrant, saved[c]} \/ c \in regranted

\* Where no two syncs ever overlapped there is one worker, and it has fetched
\* nothing older than what is stored.
EventsMoveForward ==
  \A c \in Conns :
    /\ event[c] <= provider[c]
    /\ c \notin overlapped =>
         \A w \in Workers : worker[w].conn = c =>
           /\ \A v \in Workers : worker[v].conn = c => v = w
           /\ WAt(w, "fetched") => event[c] <= worker[w].version
    /\ \A w \in Workers : worker[w].conn = c => worker[w].version <= provider[c]

IInv == /\ BaseInv /\ SyncingIsPending /\ FlowIsSpent
        /\ WorkersHoldTheLastSaved /\ CredentialsAreTheLastSaved /\ EventsMoveForward

-----------------------------------------------------------------------------
(* What the repository says and the code does not keep.                      *)

(* Two syncs of a connection never run at once: docs/db-schema.md:395 gives  *)
(* each connection a lock against that.                                      *)
OneSyncAtATime ==
  \A v, w \in Workers : worker[v].conn = worker[w].conn /\ Busy(v) => v = w

(* A worker skips a revoked connection, calendar-sync.worker.ts:127: it does *)
(* not bring it back with the credentials it holds.                          *)
RevokedIsSkipped ==
  [][\A w \in Workers : Busy(w) /\ ~Busy(w)' /\ Revoked(worker[w].conn)
       => conn'[worker[w].conn].creds = NoGrant]_vars
=============================================================================
