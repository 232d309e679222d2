---------------------------- MODULE CalendarProofs ----------------------------
(***************************************************************************)
(* Calendar, for every number of connections, flows, requests, workers,     *)
(* jobs, grants and edits.                                                  *)
(***************************************************************************)
EXTENDS Calendar, TLAPS

(* The records that stand for nothing have the types of those that do.      *)
LEMMA EmptyRecords ==
  /\ NoRow \in Row
  /\ Idle \in Request /\ Idle.pc = "idle" /\ Idle.job = NoJob
  /\ Free \in WorkerSlot /\ Free.pc = "idle" /\ Free.conn = NoConn /\ Free.job = NoJob
  /\ Unused \in Job /\ Unused.state = "unused"
  /\ Over \in Job /\ Over.state = "done"
<1>1. 0 \in Versions
  BY CalendarAssumption DEF Versions
<1> QED
  BY <1>1 DEF NoRow, Row, Idle, Request, Free, WorkerSlot, Unused, Job, Over, NoGrant

(* A worker that goes on with a job has the connection's credentials, and   *)
(* no other worker has changed.                                              *)
LEMMA LoadedWorker ==
  ASSUME TypeOK, NEW w \in Workers, NEW j \in Jobs, Load(w, j), ~Skipped(job[j].conn)
  PROVE  /\ worker'[w].pc \in {"loaded", "failing"} /\ worker'[w].job = j
         /\ worker'[w].conn = job[j].conn /\ worker'[w].version = 0
         /\ worker'[w].creds = conn[job[j].conn].creds
         /\ \A v \in Workers \ {w} : worker'[v] = worker[v]
         /\ job'[j].state = "active" /\ job'[j].conn = job[j].conn
         /\ \A i \in Jobs \ {j} : job'[i] = job[i]
<1> DEFINE slot == [Free EXCEPT
             !.pc = IF conn[job[j].conn].creds = NoGrant THEN "failing" ELSE "loaded",
             !.job = j, !.conn = job[j].conn, !.creds = conn[job[j].conn].creds]
<1>1. worker' = [worker EXCEPT ![w] = slot] /\ job' = [job EXCEPT ![j].state = "active"]
  BY DEF Load
<1>2. worker'[w] = slot /\ \A v \in Workers \ {w} : worker'[v] = worker[v]
  BY <1>1 DEF TypeOK
<1>3. /\ slot.pc \in {"loaded", "failing"} /\ slot.job = j /\ slot.conn = job[j].conn
      /\ slot.version = 0 /\ slot.creds = conn[job[j].conn].creds
  BY DEF Free
<1>4. /\ job'[j].state = "active" /\ job'[j].conn = job[j].conn
      /\ \A i \in Jobs \ {j} : job'[i] = job[i]
  BY <1>1 DEF TypeOK, Job
<1> HIDE DEF slot
<1> QED
  BY <1>2, <1>3, <1>4

(* Requests, workers and jobs stay well formed, whatever step is taken.      *)
LEMMA BaseIsInductive == BaseInv /\ [Next]_vars => BaseInv'
<1> SUFFICES ASSUME BaseInv, [Next]_vars PROVE BaseInv'
  OBVIOUS
<1> USE EmptyRecords, CalendarAssumption
<1>1. ASSUME NEW f \in Flows, StartOAuth(f) PROVE BaseInv'
  <2>1. TypeOK'
    BY <1>1 DEF BaseInv, TypeOK, StartOAuth, stored, history
  <2>2. RequestsAreSound'
    BY <1>1 DEF BaseInv, RequestsAreSound, SyncStages, CallbackStages, StartOAuth, stored,
       history
  <2>3. WorkersAreSound'
    BY <1>1 DEF BaseInv, WorkersAreSound, WAt, Busy, StartOAuth, stored, history
  <2>4. FlowsWereStarted'
    BY <1>1 DEF BaseInv, FlowsWereStarted, StartOAuth, stored, history
  <2> QED
    BY <2>1, <2>2, <2>3, <2>4 DEF BaseInv
<1>2. ASSUME NEW f \in Flows, ExpireState(f) PROVE BaseInv'
  <2>1. TypeOK'
    BY <1>2 DEF BaseInv, TypeOK, ExpireState, stored, history
  <2>2. RequestsAreSound'
    BY <1>2 DEF BaseInv, RequestsAreSound, SyncStages, CallbackStages, ExpireState,
       stored, history
  <2>3. WorkersAreSound'
    BY <1>2 DEF BaseInv, WorkersAreSound, WAt, Busy, ExpireState, stored, history
  <2>4. FlowsWereStarted'
    BY <1>2 DEF BaseInv, FlowsWereStarted, ExpireState, stored, history
  <2> QED
    BY <2>1, <2>2, <2>3, <2>4 DEF BaseInv
<1>3. ASSUME NEW r \in Reqs, NEW f \in Flows, NEW c \in Conns, CallbackRead(r, f, c)
      PROVE  BaseInv'
  <2>1. TypeOK'
    BY <1>3 DEF BaseInv, TypeOK, Request, CallbackStages, Idle, CallbackRead, At, stored,
       history
  <2>2. RequestsAreSound'
    <3>1. /\ req'[r].pc = "got" /\ req'[r].conn = c /\ req'[r].flow = f /\ req'[r].job = NoJob
          /\ \A q \in Reqs : q # r => req'[q] = req[q]
          /\ f \in started /\ c \in Conns
      BY <1>3 DEF CallbackRead, Idle, BaseInv, TypeOK, FlowsWereStarted
    <3>2. UNCHANGED <<job, started>>
      BY <1>3 DEF CallbackRead, stored, history
    <3> QED
      BY <3>1, <3>2 DEF BaseInv, RequestsAreSound, SyncStages, CallbackStages
  <2>3. WorkersAreSound'
    BY <1>3 DEF BaseInv, WorkersAreSound, WAt, Busy, CallbackRead, stored, history
  <2>4. FlowsWereStarted'
    BY <1>3 DEF BaseInv, FlowsWereStarted, CallbackRead, stored, history
  <2> QED
    BY <2>1, <2>2, <2>3, <2>4 DEF BaseInv
<1>4. ASSUME NEW r \in Reqs, CallbackCheck(r) PROVE BaseInv'
  <2>1. TypeOK'
    <3>1. req[r] \in Request
      BY DEF BaseInv, TypeOK
    <3>2. req' \in [Reqs -> Request]
      BY <1>4, <3>1 DEF CallbackCheck, Goto, BaseInv, TypeOK, Request, SyncStages,
         CallbackStages
    <3> QED
      BY <1>4, <3>1, <3>2 DEF CallbackCheck, BaseInv, TypeOK, stored, history
  <2>2. RequestsAreSound'
    <3>1. /\ req[r].pc = "got" /\ req'[r].pc \in {"ready", "drop"}
          /\ req'[r].conn = req[r].conn /\ req'[r].flow = req[r].flow
          /\ req'[r].job = req[r].job
          /\ \A q \in Reqs : q # r => req'[q] = req[q]
      BY <1>4 DEF CallbackCheck, Goto, At, BaseInv, TypeOK, Request
    <3>2. UNCHANGED <<job, started>>
      BY <1>4 DEF CallbackCheck, stored, history
    <3> QED
      BY <3>1, <3>2 DEF BaseInv, RequestsAreSound, SyncStages, CallbackStages
  <2>3. WorkersAreSound'
    BY <1>4 DEF BaseInv, WorkersAreSound, WAt, Busy, CallbackCheck, Goto, stored, history
  <2>4. FlowsWereStarted'
    BY <1>4 DEF BaseInv, FlowsWereStarted, CallbackCheck, Goto, stored, history
  <2> QED
    BY <2>1, <2>2, <2>3, <2>4 DEF BaseInv
<1>5. ASSUME NEW r \in Reqs, CallbackExchange(r) PROVE BaseInv'
  <2>1. TypeOK'
    <3>1. req[r] \in Request
      BY DEF BaseInv, TypeOK
    <3>2. issued' \in 0..MaxGrants /\ (issued < MaxGrants => issued + 1 \in Grants)
      BY <1>5 DEF CallbackExchange, BaseInv, TypeOK, Grants
    <3>3. req' \in [Reqs -> Request]
      BY <1>5, <3>1, <3>2 DEF CallbackExchange, Goto, BaseInv, TypeOK, Request,
         SyncStages, CallbackStages
    <3> QED
      BY <1>5, <3>1, <3>2, <3>3 DEF CallbackExchange, BaseInv, TypeOK, stored, history
  <2>2. RequestsAreSound'
    <3>1. /\ req[r].pc = "ready" /\ req'[r].pc \in {"exchanged", "drop"}
          /\ req'[r].conn = req[r].conn /\ req'[r].flow = req[r].flow
          /\ req'[r].job = req[r].job
          /\ \A q \in Reqs : q # r => req'[q] = req[q]
      BY <1>5 DEF CallbackExchange, Goto, At, BaseInv, TypeOK, Request
    <3>2. UNCHANGED <<job, started>>
      BY <1>5 DEF CallbackExchange, stored, history
    <3> QED
      BY <3>1, <3>2 DEF BaseInv, RequestsAreSound, SyncStages, CallbackStages
  <2>3. WorkersAreSound'
    BY <1>5 DEF BaseInv, WorkersAreSound, WAt, Busy, CallbackExchange, Goto, stored,
       history
  <2>4. FlowsWereStarted'
    BY <1>5 DEF BaseInv, FlowsWereStarted, CallbackExchange, Goto, stored, history
  <2> QED
    BY <2>1, <2>2, <2>3, <2>4 DEF BaseInv
<1>6. ASSUME NEW r \in Reqs, CallbackSave(r) PROVE BaseInv'
  <2>1. TypeOK'
    <3>1. req[r] \in Request /\ req[r].pc = "exchanged"
      BY <1>6 DEF CallbackSave, At, BaseInv, TypeOK
    <3>2. req[r].conn \in Conns /\ req[r].flow \in started
      BY <3>1 DEF BaseInv, RequestsAreSound, CallbackStages
    <3>3. req[r].grant \in Grants \cup {NoGrant}
      BY <3>1 DEF Request
    <3>4. SavedRow(r, conn[req[r].conn]) \in Row
      BY <3>3 DEF SavedRow, Row, Connected
    <3>5. conn' \in [Conns -> Row] /\ saved' \in [Conns -> Grants \cup {NoGrant}]
      BY <1>6, <3>2, <3>3, <3>4 DEF CallbackSave, BaseInv, TypeOK
    <3>6. req' \in [Reqs -> Request]
      BY <1>6, <3>1 DEF CallbackSave, Goto, BaseInv, TypeOK, Request, SyncStages,
         CallbackStages
    <3>7. /\ onboarding' \in Onboarding /\ completed' \subseteq Flows
          /\ regranted' \subseteq Conns /\ lost' \subseteq Conns
      BY <1>6, <3>2 DEF CallbackSave, BaseInv, TypeOK, Onboarding
    <3> QED
      BY <1>6, <3>1, <3>2, <3>3, <3>4, <3>5, <3>6, <3>7 DEF CallbackSave, BaseInv, TypeOK,
         stored, history
  <2>2. RequestsAreSound'
    BY <1>6 DEF BaseInv, RequestsAreSound, SyncStages, CallbackStages, At, Idle, Unused,
       TypeOK, Request, CallbackSave, SavedRow, Goto, stored, history
  <2>3. WorkersAreSound'
    BY <1>6 DEF BaseInv, WorkersAreSound, WAt, Busy, CallbackSave, SavedRow, Goto, stored,
       history
  <2>4. FlowsWereStarted'
    BY <1>6 DEF BaseInv, FlowsWereStarted, CallbackSave, SavedRow, Goto, RequestsAreSound,
       CallbackStages, At, stored, history
  <2> QED
    BY <2>1, <2>2, <2>3, <2>4 DEF BaseInv
<1>7. ASSUME NEW r \in Reqs, CallbackDrop(r) PROVE BaseInv'
  <2>1. TypeOK'
    BY <1>7 DEF BaseInv, TypeOK, Idle, CallbackDrop, WithoutState, Done, At, stored,
       history
  <2>2. RequestsAreSound'
    BY <1>7 DEF BaseInv, RequestsAreSound, SyncStages, CallbackStages, At, Idle, Unused,
       TypeOK, Request, CallbackDrop, WithoutState, Done, stored, history
  <2>3. WorkersAreSound'
    BY <1>7 DEF BaseInv, WorkersAreSound, WAt, Busy, CallbackDrop, WithoutState, Done,
       stored, history
  <2>4. FlowsWereStarted'
    BY <1>7 DEF BaseInv, FlowsWereStarted, CallbackDrop, WithoutState, Done, stored,
       history
  <2> QED
    BY <2>1, <2>2, <2>3, <2>4 DEF BaseInv
<1>8. ASSUME NEW r \in Reqs, NEW c \in Conns, NEW j \in Jobs, SyncRead(r, c, j)
      PROVE  BaseInv'
  <2>1. TypeOK'
    BY <1>8 DEF BaseInv, TypeOK, Request, SyncStages, Idle, SyncRead, NewJob, At, stored,
       history
  <2>2. RequestsAreSound'
    BY <1>8 DEF BaseInv, RequestsAreSound, SyncStages, CallbackStages, At, Idle, Unused,
       TypeOK, Request, SyncRead, NewJob, stored, history
  <2>3. WorkersAreSound'
    BY <1>8 DEF BaseInv, WorkersAreSound, WAt, Busy, SyncRead, NewJob, stored, history
  <2>4. FlowsWereStarted'
    BY <1>8 DEF BaseInv, FlowsWereStarted, SyncRead, NewJob, stored, history
  <2> QED
    BY <2>1, <2>2, <2>3, <2>4 DEF BaseInv
<1>9. ASSUME NEW r \in Reqs, SyncMark(r) PROVE BaseInv'
  <2>1. TypeOK'
    <3>1. req[r] \in Request /\ req[r].pc = "syncRead"
      BY <1>9 DEF SyncMark, At, BaseInv, TypeOK
    <3>2. req[r].conn \in Conns
      BY <3>1 DEF BaseInv, RequestsAreSound, SyncStages
    <3>3. MarkedRow(conn[req[r].conn]) \in Row
      BY <3>2 DEF MarkedRow, Row, Connected, BaseInv, TypeOK
    <3>4. conn' \in [Conns -> Row]
      BY <1>9, <3>2, <3>3 DEF SyncMark, BaseInv, TypeOK
    <3>5. req' \in [Reqs -> Request]
      BY <1>9, <3>1 DEF SyncMark, Goto, BaseInv, TypeOK, Request, SyncStages,
         CallbackStages
    <3> QED
      BY <1>9, <3>1, <3>2, <3>3, <3>4, <3>5 DEF SyncMark, BaseInv, TypeOK, stored, history
  <2>2. RequestsAreSound'
    BY <1>9 DEF BaseInv, RequestsAreSound, SyncStages, CallbackStages, At, Idle, Unused,
       TypeOK, Request, SyncMark, MarkedRow, Goto, stored, history
  <2>3. WorkersAreSound'
    BY <1>9 DEF BaseInv, WorkersAreSound, WAt, Busy, SyncMark, MarkedRow, Goto, stored,
       history
  <2>4. FlowsWereStarted'
    BY <1>9 DEF BaseInv, FlowsWereStarted, SyncMark, MarkedRow, Goto, stored, history
  <2> QED
    BY <2>1, <2>2, <2>3, <2>4 DEF BaseInv
<1>10. ASSUME NEW r \in Reqs, SyncEnqueue(r) PROVE BaseInv'
  <2>1. TypeOK'
    BY <1>10 DEF BaseInv, TypeOK, Job, Request, Unused, RequestsAreSound, SyncStages,
       SyncEnqueue, Done, At, stored, history
  <2>2. RequestsAreSound'
    BY <1>10 DEF BaseInv, RequestsAreSound, SyncStages, CallbackStages, At, Idle, Unused,
       TypeOK, Request, TypeOK, WorkersAreSound, Busy, WAt, Over, Job, SyncEnqueue, Done,
       stored, history
  <2>3. WorkersAreSound'
    BY <1>10 DEF BaseInv, WorkersAreSound, WAt, Busy, TypeOK, RequestsAreSound,
       SyncStages, At, Job, Unused, SyncEnqueue, Done, stored, history
  <2>4. FlowsWereStarted'
    BY <1>10 DEF BaseInv, FlowsWereStarted, SyncEnqueue, Done, stored, history
  <2> QED
    BY <2>1, <2>2, <2>3, <2>4 DEF BaseInv
<1>11. ASSUME NEW r \in Reqs, Abort(r) PROVE BaseInv'
  <2>1. TypeOK'
    BY <1>11 DEF BaseInv, TypeOK, RequestsAreSound, SyncStages, CallbackStages, Abort,
       Done, At, stored, history
  <2>2. RequestsAreSound'
    BY <1>11 DEF BaseInv, RequestsAreSound, SyncStages, CallbackStages, At, Idle, Unused,
       TypeOK, Request, Abort, Done, stored, history
  <2>3. WorkersAreSound'
    BY <1>11 DEF BaseInv, WorkersAreSound, WAt, Busy, Abort, Done, stored, history
  <2>4. FlowsWereStarted'
    BY <1>11 DEF BaseInv, FlowsWereStarted, Abort, Done, stored, history
  <2> QED
    BY <2>1, <2>2, <2>3, <2>4 DEF BaseInv
<1>12. ASSUME NEW w \in Workers, NEW j \in Jobs, Load(w, j) PROVE BaseInv'
  <2>1. TypeOK'
    <3>1. job[j] \in Job /\ job[j].conn \in Conns
      BY <1>12 DEF Load, BaseInv, TypeOK, WorkersAreSound
    <3>2. conn[job[j].conn].creds \in Grants \cup {NoGrant}
      BY <3>1 DEF BaseInv, TypeOK, Row
    <3>3. worker' \in [Workers -> WorkerSlot]
      <4>1. /\ "loaded" \in {"idle", "loaded", "fetched", "stored", "failing"}
            /\ "failing" \in {"idle", "loaded", "fetched", "stored", "failing"}
        OBVIOUS
      <4>2. \A pc \in {"loaded", "failing"} :
              [Free EXCEPT !.pc = pc, !.job = j, !.conn = job[j].conn,
                           !.creds = conn[job[j].conn].creds] \in WorkerSlot
        BY <3>1, <3>2, <4>1 DEF WorkerSlot, Free
      <4> QED
        BY <1>12, <4>2 DEF Load, BaseInv, TypeOK
    <3>4. job' \in [Jobs -> Job]
      BY <1>12, <3>1 DEF Load, BaseInv, TypeOK, Job
    <3>5. overlapped' \subseteq Conns
      BY <1>12, <3>1 DEF Load, BaseInv, TypeOK
    <3> QED
      BY <1>12, <3>1, <3>2, <3>3, <3>4, <3>5 DEF Load, BaseInv, TypeOK, stored, history
  <2>2. RequestsAreSound'
    <3>1. /\ job[j].state = "waiting"
          /\ \A i \in Jobs : i # j => job'[i] = job[i]
      BY <1>12 DEF Load, BaseInv, TypeOK
    <3>2. UNCHANGED <<req, started>>
      BY <1>12 DEF Load
    <3> QED
      BY <3>1, <3>2 DEF BaseInv, RequestsAreSound, SyncStages, CallbackStages
  <2>3. WorkersAreSound'
    <3>1. CASE Skipped(job[j].conn)
      BY <1>12, <3>1 DEF Load, BaseInv, TypeOK, WorkersAreSound, WAt, Busy
    <3>2. ASSUME ~Skipped(job[j].conn) PROVE WorkersAreSound'
      <4>1. job[j].state = "waiting" /\ job[j].conn \in Conns /\ worker[w].pc = "idle"
        BY <1>12 DEF Load, Busy, BaseInv, WorkersAreSound
      <4>2. /\ worker'[w].pc \in {"loaded", "failing"} /\ worker'[w].job = j
            /\ worker'[w].conn = job[j].conn
            /\ \A v \in Workers \ {w} : worker'[v] = worker[v]
            /\ job'[j].state = "active" /\ job'[j].conn = job[j].conn
            /\ \A i \in Jobs \ {j} : job'[i] = job[i]
        BY <1>12, <3>2, LoadedWorker DEF BaseInv
      <4>3. \A v \in Workers : v # w => worker[v].job # j
        BY <4>1 DEF BaseInv, WorkersAreSound, WAt, Busy
      <4> QED
        BY <4>1, <4>2, <4>3 DEF BaseInv, WorkersAreSound, WAt, Busy
    <3> QED
      BY <3>1, <3>2
  <2>4. FlowsWereStarted'
    BY <1>12 DEF BaseInv, FlowsWereStarted, Load, Skipped, Revoked, stored, history
  <2> QED
    BY <2>1, <2>2, <2>3, <2>4 DEF BaseInv
<1>13. ASSUME NEW w \in Workers, NEW refreshed \in BOOLEAN, Fetch(w, refreshed)
       PROVE  BaseInv'
  <2>1. TypeOK'
    <3>1. /\ worker[w] \in WorkerSlot /\ worker[w].pc \in {"loaded"}
          /\ worker[w].conn \in Conns /\ worker[w].job \in Jobs
      BY <1>13 DEF Fetch, WAt, Busy, BaseInv, TypeOK, WorkersAreSound, WorkerSlot
    <3>2. Snapshot(w) \in Versions
      BY <3>1 DEF Snapshot, BaseInv, TypeOK
    <3>3. worker' \in [Workers -> WorkerSlot]
      BY <1>13, <3>1, <3>2 DEF Fetch, BaseInv, TypeOK, WorkerSlot
    <3> QED
      BY <1>13, <3>1, <3>2, <3>3 DEF Fetch, BaseInv, TypeOK, stored, history
  <2>2. RequestsAreSound'
    BY <1>13 DEF BaseInv, RequestsAreSound, SyncStages, CallbackStages, Fetch, Snapshot,
       stored, history
  <2>3. WorkersAreSound'
    <3>1. /\ worker[w].pc = "loaded" /\ worker'[w].pc = "fetched"
          /\ worker'[w].job = worker[w].job /\ worker'[w].conn = worker[w].conn
          /\ \A v \in Workers : v # w => worker'[v] = worker[v]
      BY <1>13 DEF Fetch, WAt, BaseInv, TypeOK, WorkerSlot
    <3>2. UNCHANGED job
      BY <1>13 DEF Fetch, stored
    <3> QED
      BY <3>1, <3>2 DEF BaseInv, WorkersAreSound, WAt, Busy
  <2>4. FlowsWereStarted'
    BY <1>13 DEF BaseInv, FlowsWereStarted, Fetch, Snapshot, stored, history
  <2> QED
    BY <2>1, <2>2, <2>3, <2>4 DEF BaseInv
<1>14. ASSUME NEW w \in Workers, Store(w) PROVE BaseInv'
  <2>1. TypeOK'
    <3>1. /\ worker[w] \in WorkerSlot /\ worker[w].conn \in Conns
          /\ worker[w].version \in Versions
      BY <1>14 DEF Store, WAt, Busy, BaseInv, TypeOK, WorkersAreSound, WorkerSlot
    <3>2. event' \in [Conns -> Versions]
      BY <1>14, <3>1 DEF Store, BaseInv, TypeOK
    <3>3. worker' \in [Workers -> WorkerSlot]
      BY <1>14, <3>1 DEF Store, BaseInv, TypeOK, WorkerSlot
    <3> QED
      BY <1>14, <3>2, <3>3 DEF Store, BaseInv, TypeOK, history
  <2>2. RequestsAreSound'
    BY <1>14 DEF BaseInv, RequestsAreSound, SyncStages, CallbackStages, Store, stored,
       history
  <2>3. WorkersAreSound'
    BY <1>14 DEF BaseInv, WorkersAreSound, WAt, Busy, TypeOK, WorkerSlot, Job, Over, Free,
       Store, stored, history
  <2>4. FlowsWereStarted'
    BY <1>14 DEF BaseInv, FlowsWereStarted, Store, stored, history
  <2> QED
    BY <2>1, <2>2, <2>3, <2>4 DEF BaseInv
<1>15. ASSUME NEW w \in Workers, Finish(w) PROVE BaseInv'
  <2>1. TypeOK'
    <3>1. /\ worker[w] \in WorkerSlot /\ worker[w].pc \in {"stored"}
          /\ worker[w].conn \in Conns /\ worker[w].job \in Jobs
      BY <1>15 DEF Finish, WAt, Busy, BaseInv, TypeOK, WorkersAreSound, WorkerSlot
    <3>2. SyncedRow(w, conn[worker[w].conn]) \in Row
      BY <3>1 DEF SyncedRow, Row, Connected, BaseInv, TypeOK, WorkerSlot
    <3>3. conn' \in [Conns -> Row] /\ lost' \subseteq Conns
      BY <1>15, <3>1, <3>2 DEF Finish, BaseInv, TypeOK
    <3>4. worker' \in [Workers -> WorkerSlot] /\ job' \in [Jobs -> Job]
      BY <1>15, <3>1 DEF Finish, Finished, BaseInv, TypeOK
    <3> QED
      BY <1>15, <3>1, <3>2, <3>3, <3>4 DEF Finish, BaseInv, TypeOK, stored, history
  <2>2. RequestsAreSound'
    BY <1>15 DEF BaseInv, RequestsAreSound, SyncStages, CallbackStages, TypeOK,
       WorkersAreSound, Busy, WAt, Over, Job, Finish, SyncedRow, Finished, stored, history
  <2>3. WorkersAreSound'
    BY <1>15 DEF BaseInv, WorkersAreSound, WAt, Busy, TypeOK, WorkerSlot, Job, Over, Free,
       Finish, SyncedRow, Finished, stored, history
  <2>4. FlowsWereStarted'
    BY <1>15 DEF BaseInv, FlowsWereStarted, Finish, SyncedRow, Finished, stored, history
  <2> QED
    BY <2>1, <2>2, <2>3, <2>4 DEF BaseInv
<1>16. ASSUME NEW w \in Workers, SyncFails(w) PROVE BaseInv'
  <2>1. TypeOK'
    <3>1. /\ worker[w] \in WorkerSlot /\ worker[w].pc \in {"loaded", "fetched", "stored"}
          /\ worker[w].conn \in Conns /\ worker[w].job \in Jobs
      BY <1>16 DEF SyncFails, WAt, Busy, BaseInv, TypeOK, WorkersAreSound, WorkerSlot
    <3>2. worker[w].version \in Versions
      BY <3>1 DEF WorkerSlot
    <3>3. event' \in [Conns -> Versions]
      BY <1>16, <3>1, <3>2 DEF SyncFails, BaseInv, TypeOK
    <3>4. worker' \in [Workers -> WorkerSlot]
      BY <1>16, <3>1 DEF SyncFails, BaseInv, TypeOK, WorkerSlot
    <3> QED
      BY <1>16, <3>1, <3>2, <3>3, <3>4 DEF SyncFails, BaseInv, TypeOK, stored, history
  <2>2. RequestsAreSound'
    BY <1>16 DEF BaseInv, RequestsAreSound, SyncStages, CallbackStages, SyncFails, stored,
       history
  <2>3. WorkersAreSound'
    BY <1>16 DEF BaseInv, WorkersAreSound, WAt, Busy, TypeOK, WorkerSlot, Job, Over, Free,
       SyncFails, stored, history
  <2>4. FlowsWereStarted'
    BY <1>16 DEF BaseInv, FlowsWereStarted, SyncFails, stored, history
  <2> QED
    BY <2>1, <2>2, <2>3, <2>4 DEF BaseInv
<1>17. ASSUME NEW w \in Workers, MarkError(w) PROVE BaseInv'
  <2>1. TypeOK'
    <3>1. /\ worker[w] \in WorkerSlot /\ worker[w].pc \in {"failing"}
          /\ worker[w].conn \in Conns /\ worker[w].job \in Jobs
      BY <1>17 DEF MarkError, WAt, Busy, BaseInv, TypeOK, WorkersAreSound, WorkerSlot
    <3>2. [conn[worker[w].conn] EXCEPT !.status = "ERROR"] \in Row
      BY <3>1 DEF Row, Connected, BaseInv, TypeOK
    <3>3. conn' \in [Conns -> Row] /\ lost' \subseteq Conns
      BY <1>17, <3>1, <3>2 DEF MarkError, BaseInv, TypeOK
    <3>4. worker' \in [Workers -> WorkerSlot] /\ job' \in [Jobs -> Job]
      BY <1>17, <3>1 DEF MarkError, Finished, BaseInv, TypeOK
    <3> QED
      BY <1>17, <3>1, <3>2, <3>3, <3>4 DEF MarkError, BaseInv, TypeOK, stored, history
  <2>2. RequestsAreSound'
    BY <1>17 DEF BaseInv, RequestsAreSound, SyncStages, CallbackStages, TypeOK,
       WorkersAreSound, Busy, WAt, Over, Job, MarkError, Finished, stored, history
  <2>3. WorkersAreSound'
    BY <1>17 DEF BaseInv, WorkersAreSound, WAt, Busy, TypeOK, WorkerSlot, Job, Over, Free,
       MarkError, Finished, stored, history
  <2>4. FlowsWereStarted'
    BY <1>17 DEF BaseInv, FlowsWereStarted, MarkError, Finished, stored, history
  <2> QED
    BY <2>1, <2>2, <2>3, <2>4 DEF BaseInv
<1>18. ASSUME NEW w \in Workers, WorkerDies(w) PROVE BaseInv'
  <2>1. TypeOK'
    <3>1. /\ worker[w] \in WorkerSlot /\ worker[w].conn \in Conns /\ worker[w].job \in Jobs
      BY <1>18 DEF WorkerDies, BaseInv, TypeOK, WorkersAreSound
    <3>2. job[worker[w].job] \in Job
      BY <3>1 DEF BaseInv, TypeOK
    <3>3. job' \in [Jobs -> Job]
      BY <1>18, <3>1, <3>2 DEF WorkerDies, BaseInv, TypeOK, Job
    <3>4. worker' \in [Workers -> WorkerSlot] /\ lost' \subseteq Conns
      BY <1>18, <3>1 DEF WorkerDies, BaseInv, TypeOK
    <3> QED
      BY <1>18, <3>1, <3>2, <3>3, <3>4 DEF WorkerDies, BaseInv, TypeOK, stored, history
  <2>2. RequestsAreSound'
    <3>1. /\ Busy(w) /\ job[worker[w].job].state = "active" /\ worker[w].job \in Jobs
          /\ worker[w].conn \in Conns
          /\ \A i \in Jobs : i # worker[w].job => job'[i] = job[i]
      BY <1>18 DEF WorkerDies, BaseInv, TypeOK, WorkersAreSound
    <3>2. UNCHANGED <<req, started>>
      BY <1>18 DEF WorkerDies
    <3> QED
      BY <3>1, <3>2 DEF BaseInv, RequestsAreSound, SyncStages, CallbackStages
  <2>3. WorkersAreSound'
    <3>1. /\ Busy(w) /\ job[worker[w].job].state = "active" /\ worker[w].job \in Jobs
          /\ worker[w].conn \in Conns
          /\ \A i \in Jobs : i # worker[w].job => job'[i] = job[i]
      BY <1>18 DEF WorkerDies, BaseInv, TypeOK, WorkersAreSound
    <3>2. /\ worker'[w] = Free
          /\ \A v \in Workers : v # w => worker'[v] = worker[v]
      BY <1>18 DEF WorkerDies, BaseInv, TypeOK
    <3>3. job'[worker[w].job].state = "waiting" => job'[worker[w].job].conn = worker[w].conn
      BY <1>18, <3>1 DEF WorkerDies, BaseInv, TypeOK, Job
    <3>4. \A v \in Workers : v # w => worker[v].job # worker[w].job
      BY <3>1 DEF BaseInv, WorkersAreSound
    <3> QED
      BY <3>1, <3>2, <3>3, <3>4 DEF BaseInv, WorkersAreSound, WAt, Busy
  <2>4. FlowsWereStarted'
    BY <1>18 DEF BaseInv, FlowsWereStarted, WorkerDies, stored, history
  <2> QED
    BY <2>1, <2>2, <2>3, <2>4 DEF BaseInv
<1>19. ASSUME NEW w \in Workers, MarkErrorFails(w) PROVE BaseInv'
  <2>1. TypeOK'
    BY <1>19 DEF BaseInv, TypeOK, WorkersAreSound, WAt, Busy, MarkErrorFails, Finished,
       stored, history
  <2>2. RequestsAreSound'
    BY <1>19 DEF BaseInv, RequestsAreSound, SyncStages, CallbackStages, TypeOK,
       WorkersAreSound, Busy, WAt, Over, Job, MarkErrorFails, Finished, stored, history
  <2>3. WorkersAreSound'
    BY <1>19 DEF BaseInv, WorkersAreSound, WAt, Busy, TypeOK, WorkerSlot, Job, Over, Free,
       MarkErrorFails, Finished, stored, history
  <2>4. FlowsWereStarted'
    BY <1>19 DEF BaseInv, FlowsWereStarted, MarkErrorFails, Finished, stored, history
  <2> QED
    BY <2>1, <2>2, <2>3, <2>4 DEF BaseInv
<1>20. ASSUME NEW c \in Conns, Revoke(c) PROVE BaseInv'
  <2>1. TypeOK'
    BY <1>20 DEF BaseInv, TypeOK, Row, NoGrant, Revoke, RevokedRow, stored, history
  <2>2. RequestsAreSound'
    BY <1>20 DEF BaseInv, RequestsAreSound, SyncStages, CallbackStages, Revoke,
       RevokedRow, stored, history
  <2>3. WorkersAreSound'
    BY <1>20 DEF BaseInv, WorkersAreSound, WAt, Busy, Revoke, RevokedRow, stored, history
  <2>4. FlowsWereStarted'
    BY <1>20 DEF BaseInv, FlowsWereStarted, Revoke, RevokedRow, stored, history
  <2> QED
    BY <2>1, <2>2, <2>3, <2>4 DEF BaseInv
<1>21. ASSUME NEW c \in Conns, Edit(c) PROVE BaseInv'
  <2>1. TypeOK'
    BY <1>21 DEF BaseInv, TypeOK, Versions, Edit, stored, history
  <2>2. RequestsAreSound'
    BY <1>21 DEF BaseInv, RequestsAreSound, SyncStages, CallbackStages, Edit, stored,
       history
  <2>3. WorkersAreSound'
    BY <1>21 DEF BaseInv, WorkersAreSound, WAt, Busy, Edit, stored, history
  <2>4. FlowsWereStarted'
    BY <1>21 DEF BaseInv, FlowsWereStarted, Edit, stored, history
  <2> QED
    BY <2>1, <2>2, <2>3, <2>4 DEF BaseInv
<1>22. ASSUME SkipOnboarding PROVE BaseInv'
  <2>1. TypeOK'
    BY <1>22 DEF BaseInv, TypeOK, Onboarding, SkipOnboarding, stored, history
  <2>2. RequestsAreSound'
    BY <1>22 DEF BaseInv, RequestsAreSound, SyncStages, CallbackStages, SkipOnboarding,
       stored, history
  <2>3. WorkersAreSound'
    BY <1>22 DEF BaseInv, WorkersAreSound, WAt, Busy, SkipOnboarding, stored, history
  <2>4. FlowsWereStarted'
    BY <1>22 DEF BaseInv, FlowsWereStarted, SkipOnboarding, stored, history
  <2> QED
    BY <2>1, <2>2, <2>3, <2>4 DEF BaseInv
<1>23. ASSUME NEW s \in Onboarding, MbtiWrites(s) PROVE BaseInv'
  <2>1. TypeOK'
    BY <1>23 DEF BaseInv, TypeOK, MbtiWrites, stored, history
  <2>2. RequestsAreSound'
    BY <1>23 DEF BaseInv, RequestsAreSound, SyncStages, CallbackStages, MbtiWrites,
       stored, history
  <2>3. WorkersAreSound'
    BY <1>23 DEF BaseInv, WorkersAreSound, WAt, Busy, MbtiWrites, stored, history
  <2>4. FlowsWereStarted'
    BY <1>23 DEF BaseInv, FlowsWereStarted, MbtiWrites, stored, history
  <2> QED
    BY <2>1, <2>2, <2>3, <2>4 DEF BaseInv
<1>24. CASE UNCHANGED vars
  BY <1>24 DEF BaseInv, TypeOK, FlowsWereStarted, RequestsAreSound, WorkersAreSound, At,
     WAt, Busy, vars, stored, history
<1>25. ASSUME NEW j \in Jobs, LoadFails(j) PROVE BaseInv'
  <2>1. /\ job' = [job EXCEPT ![j] = Over] /\ job[j].state = "waiting"
        /\ job[j].conn \in Conns
        /\ \A i \in Jobs \ {j} : job'[i] = job[i]
        /\ job'[j].state = "done"
    BY <1>25 DEF LoadFails, BaseInv, TypeOK, WorkersAreSound
  <2>2. UNCHANGED <<req, worker, started, live>>
    BY <1>25 DEF LoadFails
  <2>3. TypeOK'
    BY <1>25, <2>1 DEF LoadFails, BaseInv, TypeOK
  <2>4. RequestsAreSound'
    BY <2>1, <2>2 DEF BaseInv, RequestsAreSound, SyncStages
  <2>5. WorkersAreSound'
    BY <2>1, <2>2 DEF BaseInv, WorkersAreSound, WAt, Busy
  <2>6. FlowsWereStarted'
    BY <1>25 DEF BaseInv, FlowsWereStarted, LoadFails
  <2> QED
    BY <2>3, <2>4, <2>5, <2>6 DEF BaseInv
<1> QED
  BY <1>1, <1>2, <1>3, <1>4, <1>5, <1>6, <1>7, <1>8, <1>9, <1>10,
     <1>11, <1>12, <1>13, <1>14, <1>15, <1>16, <1>17, <1>18, <1>19, <1>20,
     <1>21, <1>22, <1>23, <1>24, <1>25
     DEF Next, Continue, Work

(* A SYNCING connection has its sync pending, or lost to a fault.             *)
LEMMA PendingIsInductive ==
  BaseInv /\ SyncingIsPending /\ [Next]_vars => SyncingIsPending'
<1> SUFFICES ASSUME BaseInv, SyncingIsPending, [Next]_vars PROVE SyncingIsPending'
  OBVIOUS
<1> USE EmptyRecords, CalendarAssumption
<1>1. ASSUME NEW f \in Flows, StartOAuth(f) PROVE SyncingIsPending'
  BY <1>1 DEF BaseInv, TypeOK, RequestsAreSound, WorkersAreSound, SyncStages,
     CallbackStages, SyncingIsPending, Pending, At, WAt, Busy, Job, Request, WorkerSlot,
     Row, StartOAuth, stored, history
<1>2. ASSUME NEW f \in Flows, ExpireState(f) PROVE SyncingIsPending'
  BY <1>2 DEF BaseInv, TypeOK, RequestsAreSound, WorkersAreSound, SyncStages,
     CallbackStages, SyncingIsPending, Pending, At, WAt, Busy, Job, Request, WorkerSlot,
     Row, ExpireState, stored, history
<1>3. ASSUME NEW r \in Reqs, NEW f \in Flows, NEW c \in Conns, CallbackRead(r, f, c)
      PROVE  SyncingIsPending'
  BY <1>3 DEF BaseInv, TypeOK, RequestsAreSound, WorkersAreSound, SyncStages,
     CallbackStages, SyncingIsPending, Pending, At, WAt, Busy, Job, Request, WorkerSlot,
     Row, CallbackRead, stored, history
<1>4. ASSUME NEW r \in Reqs, CallbackCheck(r) PROVE SyncingIsPending'
  <2>1. \A q \in Reqs : req[q].pc = "marked" => req'[q] = req[q]
    BY <1>4 DEF CallbackCheck, Goto, At, BaseInv, TypeOK
  <2>2. UNCHANGED <<conn, job, worker, lost>>
    BY <1>4 DEF CallbackCheck, stored, history
  <2> QED
    BY <2>1, <2>2 DEF SyncingIsPending, Pending, At
<1>5. ASSUME NEW r \in Reqs, CallbackExchange(r) PROVE SyncingIsPending'
  <2>1. \A q \in Reqs : req[q].pc = "marked" => req'[q] = req[q]
    BY <1>5 DEF CallbackExchange, Goto, At, BaseInv, TypeOK
  <2>2. UNCHANGED <<conn, job, worker, lost>>
    BY <1>5 DEF CallbackExchange, stored, history
  <2> QED
    BY <2>1, <2>2 DEF SyncingIsPending, Pending, At
<1>6. ASSUME NEW r \in Reqs, CallbackSave(r) PROVE SyncingIsPending'
  BY <1>6 DEF BaseInv, TypeOK, RequestsAreSound, WorkersAreSound, SyncStages,
     CallbackStages, SyncingIsPending, Pending, At, WAt, Busy, Job, Request, WorkerSlot,
     Row, CallbackSave, SavedRow, Goto, stored, history
<1>7. ASSUME NEW r \in Reqs, CallbackDrop(r) PROVE SyncingIsPending'
  BY <1>7 DEF BaseInv, TypeOK, RequestsAreSound, WorkersAreSound, SyncStages,
     CallbackStages, SyncingIsPending, Pending, At, WAt, Busy, Job, Request, WorkerSlot,
     Row, CallbackDrop, WithoutState, Done, stored, history
<1>8. ASSUME NEW r \in Reqs, NEW c \in Conns, NEW j \in Jobs, SyncRead(r, c, j)
      PROVE  SyncingIsPending'
  <2>1. \A q \in Reqs : req[q].pc = "marked" => req'[q] = req[q]
    BY <1>8 DEF SyncRead, At, BaseInv, TypeOK
  <2>2. UNCHANGED <<conn, job, worker, lost>>
    BY <1>8 DEF SyncRead, stored, history
  <2> QED
    BY <2>1, <2>2 DEF SyncingIsPending, Pending, At
<1>9. ASSUME NEW r \in Reqs, SyncMark(r) PROVE SyncingIsPending'
  <2>1. /\ req[r].pc = "syncRead" /\ req'[r].pc = "marked" /\ req'[r].conn = req[r].conn
        /\ \A q \in Reqs \ {r} : req'[q] = req[q]
    BY <1>9 DEF SyncMark, Goto, At, BaseInv, TypeOK, Request
  <2>2. \A c \in Conns : c # req[r].conn => conn'[c] = conn[c]
    BY <1>9 DEF SyncMark, BaseInv, TypeOK
  <2>3. UNCHANGED <<job, worker, lost>>
    BY <1>9 DEF SyncMark, history
  <2> QED
    BY <2>1, <2>2, <2>3 DEF SyncingIsPending, Pending, At
<1>10. ASSUME NEW r \in Reqs, SyncEnqueue(r) PROVE SyncingIsPending'
  <2>1. /\ req[r].pc = "marked" /\ req[r].job \in Jobs /\ job[req[r].job].state = "unused"
        /\ \A q \in Reqs \ {r} : req'[q] = req[q]
    BY <1>10 DEF SyncEnqueue, Done, At, BaseInv, TypeOK, RequestsAreSound, SyncStages
  <2>2. /\ job'[req[r].job].state = "waiting" /\ job'[req[r].job].conn = req[r].conn
        /\ \A j \in Jobs : j # req[r].job => job'[j] = job[j]
    BY <1>10, <2>1 DEF SyncEnqueue, BaseInv, TypeOK, Unused
  <2>3. UNCHANGED <<conn, worker, lost>>
    BY <1>10 DEF SyncEnqueue, history
  <2> QED
    BY <2>1, <2>2, <2>3 DEF SyncingIsPending, Pending, At
<1>11. ASSUME NEW r \in Reqs, Abort(r) PROVE SyncingIsPending'
  <2>1. \A q \in Reqs \ {r} : req'[q] = req[q]
    BY <1>11 DEF Abort, Done, BaseInv, TypeOK
  <2>2. /\ lost \subseteq lost'
        /\ req[r].pc = "marked" => req[r].conn \in lost'
    BY <1>11 DEF Abort, At
  <2>3. UNCHANGED <<conn, job, worker>>
    BY <1>11 DEF Abort, stored
  <2> QED
    BY <2>1, <2>2, <2>3 DEF SyncingIsPending, Pending, At
<1>12. ASSUME NEW w \in Workers, NEW j \in Jobs, Load(w, j) PROVE SyncingIsPending'
  <2>1. CASE Skipped(job[j].conn)
    <3>1. \A i \in Jobs : i # j => job'[i] = job[i]
      BY <1>12, <2>1 DEF Load, BaseInv, TypeOK
    <3>2. conn[job[j].conn].status = "REVOKED"
      BY <2>1 DEF Skipped, Revoked
    <3>3. UNCHANGED <<conn, worker, req, lost>>
      BY <1>12, <2>1 DEF Load
    <3> QED
      BY <3>1, <3>2, <3>3 DEF SyncingIsPending, Pending, At
  <2>2. ASSUME ~Skipped(job[j].conn) PROVE SyncingIsPending'
    <3>1. \A i \in Jobs \ {j} : job'[i] = job[i]
      BY <1>12, <2>2, LoadedWorker DEF BaseInv
    <3>2. /\ worker'[w].conn = job[j].conn
          /\ \A v \in Workers \ {w} : worker'[v] = worker[v]
      BY <1>12, <2>2, LoadedWorker DEF BaseInv
    <3>3. worker[w].conn \notin Conns
      BY <1>12 DEF Load, Busy, WAt, BaseInv, WorkersAreSound
    <3>4. UNCHANGED <<conn, req, lost>>
      BY <1>12, <2>2 DEF Load
    <3> QED
      BY <3>1, <3>2, <3>3, <3>4 DEF SyncingIsPending, Pending, At
  <2> QED
    BY <2>1, <2>2
<1>13. ASSUME NEW w \in Workers, NEW refreshed \in BOOLEAN, Fetch(w, refreshed)
       PROVE  SyncingIsPending'
  <2>1. \A v \in Workers : worker'[v].conn = worker[v].conn
    BY <1>13 DEF Fetch, BaseInv, TypeOK, WorkerSlot
  <2>2. UNCHANGED <<conn, job, req, lost>>
    BY <1>13 DEF Fetch, stored, history
  <2> QED
    BY <2>1, <2>2 DEF SyncingIsPending, Pending, At
<1>14. ASSUME NEW w \in Workers, Store(w) PROVE SyncingIsPending'
  <2>1. \A v \in Workers : worker'[v].conn = worker[v].conn
    BY <1>14 DEF Store, BaseInv, TypeOK, WorkerSlot
  <2>2. UNCHANGED <<conn, job, req, lost>>
    BY <1>14 DEF Store, stored, history
  <2> QED
    BY <2>1, <2>2 DEF SyncingIsPending, Pending, At
<1>15. ASSUME NEW w \in Workers, Finish(w) PROVE SyncingIsPending'
  <2>1. worker[w].conn \in Conns /\ worker[w].job \in Jobs /\ job[worker[w].job].state = "active"
    BY <1>15 DEF Finish, WAt, Busy, BaseInv, WorkersAreSound
  <2>2. /\ \A j \in Jobs : j # worker[w].job => job'[j] = job[j]
        /\ \A v \in Workers \ {w} : worker'[v] = worker[v]
    BY <1>15, <2>1 DEF Finish, Finished, BaseInv, TypeOK
  <2>3. /\ conn'[worker[w].conn].status = "ACTIVE" /\ lost' = lost \ {worker[w].conn}
        /\ \A c \in Conns : c # worker[w].conn => conn'[c] = conn[c]
    BY <1>15, <2>1 DEF Finish, SyncedRow, BaseInv, TypeOK, Row
  <2>4. UNCHANGED req
    BY <1>15 DEF Finish
  <2> QED
    BY <2>1, <2>2, <2>3, <2>4 DEF SyncingIsPending, Pending, At
<1>16. ASSUME NEW w \in Workers, SyncFails(w) PROVE SyncingIsPending'
  BY <1>16 DEF BaseInv, TypeOK, RequestsAreSound, WorkersAreSound, SyncStages,
     CallbackStages, SyncingIsPending, Pending, At, WAt, Busy, Job, Request, WorkerSlot,
     Row, SyncFails, stored, history
<1>17. ASSUME NEW w \in Workers, MarkError(w) PROVE SyncingIsPending'
  <2>1. worker[w].conn \in Conns /\ worker[w].job \in Jobs /\ job[worker[w].job].state = "active"
    BY <1>17 DEF MarkError, WAt, Busy, BaseInv, WorkersAreSound
  <2>2. /\ \A j \in Jobs : j # worker[w].job => job'[j] = job[j]
        /\ \A v \in Workers \ {w} : worker'[v] = worker[v]
    BY <1>17, <2>1 DEF MarkError, Finished, BaseInv, TypeOK
  <2>3. /\ conn'[worker[w].conn].status = "ERROR" /\ lost' = lost \ {worker[w].conn}
        /\ \A c \in Conns : c # worker[w].conn => conn'[c] = conn[c]
    BY <1>17, <2>1 DEF MarkError, BaseInv, TypeOK, Row
  <2>4. UNCHANGED req
    BY <1>17 DEF MarkError
  <2> QED
    BY <2>1, <2>2, <2>3, <2>4 DEF SyncingIsPending, Pending, At
<1>18. ASSUME NEW w \in Workers, WorkerDies(w) PROVE SyncingIsPending'
  <2>1. /\ worker[w].conn \in Conns /\ worker[w].job \in Jobs /\ job[worker[w].job].state = "active"
        /\ job[worker[w].job] \in Job
    BY <1>18 DEF WorkerDies, BaseInv, TypeOK, WorkersAreSound
  <2>2. /\ \A j \in Jobs : j # worker[w].job => job'[j] = job[j]
        /\ \A v \in Workers \ {w} : worker'[v] = worker[v]
    BY <1>18, <2>1 DEF WorkerDies, BaseInv, TypeOK
  <2>3. /\ lost \subseteq lost'
        /\ \/ worker[w].conn \in lost'
           \/ job'[worker[w].job].state = "waiting" /\ job'[worker[w].job].conn = job[worker[w].job].conn
    BY <1>18, <2>1 DEF WorkerDies, BaseInv, TypeOK, Job
  <2>4. UNCHANGED <<conn, req>>
    BY <1>18 DEF WorkerDies
  <2>5. job[worker[w].job].conn = worker[w].conn
    BY <2>1, <1>18 DEF WorkerDies, BaseInv, WorkersAreSound
  <2> QED
    BY <2>1, <2>2, <2>3, <2>4, <2>5 DEF SyncingIsPending, Pending, At
<1>19. ASSUME NEW w \in Workers, MarkErrorFails(w) PROVE SyncingIsPending'
  <2>1. worker[w].conn \in Conns /\ worker[w].job \in Jobs /\ job[worker[w].job].state = "active"
    BY <1>19 DEF MarkErrorFails, WAt, Busy, BaseInv, WorkersAreSound
  <2>2. /\ \A j \in Jobs : j # worker[w].job => job'[j] = job[j]
        /\ \A v \in Workers \ {w} : worker'[v] = worker[v]
    BY <1>19, <2>1 DEF MarkErrorFails, Finished, BaseInv, TypeOK
  <2>3. UNCHANGED conn /\ lost' = lost \cup {worker[w].conn}
    BY <1>19 DEF MarkErrorFails
  <2>4. UNCHANGED req
    BY <1>19 DEF MarkErrorFails
  <2> QED
    BY <2>1, <2>2, <2>3, <2>4 DEF SyncingIsPending, Pending, At
<1>20. ASSUME NEW c \in Conns, Revoke(c) PROVE SyncingIsPending'
  BY <1>20 DEF BaseInv, TypeOK, RequestsAreSound, WorkersAreSound, SyncStages,
     CallbackStages, SyncingIsPending, Pending, At, WAt, Busy, Job, Request, WorkerSlot,
     Row, Revoke, RevokedRow, stored, history
<1>21. ASSUME NEW c \in Conns, Edit(c) PROVE SyncingIsPending'
  BY <1>21 DEF BaseInv, TypeOK, RequestsAreSound, WorkersAreSound, SyncStages,
     CallbackStages, SyncingIsPending, Pending, At, WAt, Busy, Job, Request, WorkerSlot,
     Row, Edit, stored, history
<1>22. ASSUME SkipOnboarding PROVE SyncingIsPending'
  BY <1>22 DEF SyncingIsPending, Pending, At, SkipOnboarding, history
<1>23. ASSUME NEW s \in Onboarding, MbtiWrites(s) PROVE SyncingIsPending'
  BY <1>23 DEF BaseInv, TypeOK, RequestsAreSound, WorkersAreSound, SyncStages,
     CallbackStages, SyncingIsPending, Pending, At, WAt, Busy, Job, Request, WorkerSlot,
     Row, MbtiWrites, stored, history
<1>24. CASE UNCHANGED vars
  BY <1>24 DEF BaseInv, TypeOK, RequestsAreSound, WorkersAreSound, SyncStages,
     CallbackStages, SyncingIsPending, Pending, At, WAt, Busy, Job, Request, WorkerSlot,
     Row, vars, stored, history
<1>25. ASSUME NEW j \in Jobs, LoadFails(j) PROVE SyncingIsPending'
  <2>1. /\ \A i \in Jobs \ {j} : job'[i] = job[i]
        /\ lost' = lost \cup {job[j].conn}
    BY <1>25 DEF LoadFails, BaseInv, TypeOK
  <2>2. UNCHANGED <<conn, worker, req>>
    BY <1>25 DEF LoadFails
  <2> QED
    BY <2>1, <2>2 DEF SyncingIsPending, Pending, At
<1> QED
  BY <1>1, <1>2, <1>3, <1>4, <1>5, <1>6, <1>7, <1>8, <1>9, <1>10,
     <1>11, <1>12, <1>13, <1>14, <1>15, <1>16, <1>17, <1>18, <1>19, <1>20,
     <1>21, <1>22, <1>23, <1>24, <1>25
     DEF Next, Continue, Work

(* The state of a completed flow is about to be deleted, or was leaked.      *)
LEMMA SpentIsInductive ==
  BaseInv /\ FlowIsSpent /\ [Next]_vars => FlowIsSpent'
<1> SUFFICES ASSUME BaseInv, FlowIsSpent, [Next]_vars PROVE FlowIsSpent'
  OBVIOUS
<1> USE EmptyRecords, CalendarAssumption
<1>1. ASSUME NEW f \in Flows, StartOAuth(f) PROVE FlowIsSpent'
  BY <1>1 DEF BaseInv, TypeOK, FlowsWereStarted, RequestsAreSound, CallbackStages,
     FlowIsSpent, At, Request, Idle, StartOAuth, stored, history
<1>2. ASSUME NEW f \in Flows, ExpireState(f) PROVE FlowIsSpent'
  BY <1>2 DEF BaseInv, TypeOK, FlowsWereStarted, RequestsAreSound, CallbackStages,
     FlowIsSpent, At, Request, Idle, ExpireState, stored, history
<1>3. ASSUME NEW r \in Reqs, NEW f \in Flows, NEW c \in Conns, CallbackRead(r, f, c)
      PROVE  FlowIsSpent'
  BY <1>3 DEF BaseInv, TypeOK, FlowsWereStarted, RequestsAreSound, CallbackStages,
     FlowIsSpent, At, Request, Idle, CallbackRead, stored, history
<1>4. ASSUME NEW r \in Reqs, CallbackCheck(r) PROVE FlowIsSpent'
  BY <1>4 DEF BaseInv, TypeOK, FlowsWereStarted, RequestsAreSound, CallbackStages,
     FlowIsSpent, At, Request, Idle, CallbackCheck, Goto, stored, history
<1>5. ASSUME NEW r \in Reqs, CallbackExchange(r) PROVE FlowIsSpent'
  <2>1. \A q \in Reqs : req[q].pc = "drop" => req'[q] = req[q]
    BY <1>5 DEF CallbackExchange, Goto, At, BaseInv, TypeOK
  <2>2. UNCHANGED <<live, completed, leaked>>
    BY <1>5 DEF CallbackExchange, stored, history
  <2> QED
    BY <2>1, <2>2 DEF FlowIsSpent, At
<1>6. ASSUME NEW r \in Reqs, CallbackSave(r) PROVE FlowIsSpent'
  BY <1>6 DEF BaseInv, TypeOK, FlowsWereStarted, RequestsAreSound, CallbackStages,
     FlowIsSpent, At, Request, Idle, CallbackSave, SavedRow, Goto, stored, history
<1>7. ASSUME NEW r \in Reqs, CallbackDrop(r) PROVE FlowIsSpent'
  BY <1>7 DEF BaseInv, TypeOK, FlowsWereStarted, RequestsAreSound, CallbackStages,
     FlowIsSpent, At, Request, Idle, CallbackDrop, WithoutState, Done, stored, history
<1>8. ASSUME NEW r \in Reqs, NEW c \in Conns, NEW j \in Jobs, SyncRead(r, c, j)
      PROVE  FlowIsSpent'
  BY <1>8 DEF BaseInv, TypeOK, FlowsWereStarted, RequestsAreSound, CallbackStages,
     FlowIsSpent, At, Request, Idle, SyncRead, NewJob, stored, history
<1>9. ASSUME NEW r \in Reqs, SyncMark(r) PROVE FlowIsSpent'
  BY <1>9 DEF BaseInv, TypeOK, FlowsWereStarted, RequestsAreSound, CallbackStages,
     FlowIsSpent, At, Request, Idle, SyncMark, MarkedRow, Goto, stored, history
<1>10. ASSUME NEW r \in Reqs, SyncEnqueue(r) PROVE FlowIsSpent'
  BY <1>10 DEF BaseInv, TypeOK, FlowsWereStarted, RequestsAreSound, CallbackStages,
     FlowIsSpent, At, Request, Idle, SyncEnqueue, Done, stored, history
<1>11. ASSUME NEW r \in Reqs, Abort(r) PROVE FlowIsSpent'
  BY <1>11 DEF BaseInv, TypeOK, FlowsWereStarted, RequestsAreSound, CallbackStages,
     FlowIsSpent, At, Request, Idle, Abort, Done, stored, history
<1>12. ASSUME NEW w \in Workers, NEW j \in Jobs, Load(w, j) PROVE FlowIsSpent'
  BY <1>12 DEF BaseInv, TypeOK, FlowsWereStarted, RequestsAreSound, CallbackStages,
     FlowIsSpent, At, Request, Idle, Load, Skipped, Revoked, stored, history
<1>13. ASSUME NEW w \in Workers, NEW refreshed \in BOOLEAN, Fetch(w, refreshed)
       PROVE  FlowIsSpent'
  BY <1>13 DEF BaseInv, TypeOK, FlowsWereStarted, RequestsAreSound, CallbackStages,
     FlowIsSpent, At, Request, Idle, Fetch, Snapshot, stored, history
<1>14. ASSUME NEW w \in Workers, Store(w) PROVE FlowIsSpent'
  BY <1>14 DEF BaseInv, TypeOK, FlowsWereStarted, RequestsAreSound, CallbackStages,
     FlowIsSpent, At, Request, Idle, Store, stored, history
<1>15. ASSUME NEW w \in Workers, Finish(w) PROVE FlowIsSpent'
  BY <1>15 DEF BaseInv, TypeOK, FlowsWereStarted, RequestsAreSound, CallbackStages,
     FlowIsSpent, At, Request, Idle, Finish, SyncedRow, Finished, stored, history
<1>16. ASSUME NEW w \in Workers, SyncFails(w) PROVE FlowIsSpent'
  BY <1>16 DEF BaseInv, TypeOK, FlowsWereStarted, RequestsAreSound, CallbackStages,
     FlowIsSpent, At, Request, Idle, SyncFails, stored, history
<1>17. ASSUME NEW w \in Workers, MarkError(w) PROVE FlowIsSpent'
  BY <1>17 DEF BaseInv, TypeOK, FlowsWereStarted, RequestsAreSound, CallbackStages,
     FlowIsSpent, At, Request, Idle, MarkError, Finished, stored, history
<1>18. ASSUME NEW w \in Workers, WorkerDies(w) PROVE FlowIsSpent'
  BY <1>18 DEF BaseInv, TypeOK, FlowsWereStarted, RequestsAreSound, CallbackStages,
     FlowIsSpent, At, Request, Idle, WorkerDies, stored, history
<1>19. ASSUME NEW w \in Workers, MarkErrorFails(w) PROVE FlowIsSpent'
  BY <1>19 DEF BaseInv, TypeOK, FlowsWereStarted, RequestsAreSound, CallbackStages,
     FlowIsSpent, At, Request, Idle, MarkErrorFails, Finished, stored, history
<1>20. ASSUME NEW c \in Conns, Revoke(c) PROVE FlowIsSpent'
  BY <1>20 DEF BaseInv, TypeOK, FlowsWereStarted, RequestsAreSound, CallbackStages,
     FlowIsSpent, At, Request, Idle, Revoke, RevokedRow, stored, history
<1>21. ASSUME NEW c \in Conns, Edit(c) PROVE FlowIsSpent'
  BY <1>21 DEF BaseInv, TypeOK, FlowsWereStarted, RequestsAreSound, CallbackStages,
     FlowIsSpent, At, Request, Idle, Edit, stored, history
<1>22. ASSUME SkipOnboarding PROVE FlowIsSpent'
  BY <1>22 DEF BaseInv, TypeOK, FlowsWereStarted, RequestsAreSound, CallbackStages,
     FlowIsSpent, At, Request, Idle, SkipOnboarding, stored, history
<1>23. ASSUME NEW s \in Onboarding, MbtiWrites(s) PROVE FlowIsSpent'
  BY <1>23 DEF BaseInv, TypeOK, FlowsWereStarted, RequestsAreSound, CallbackStages,
     FlowIsSpent, At, Request, Idle, MbtiWrites, stored, history
<1>24. CASE UNCHANGED vars
  BY <1>24 DEF BaseInv, TypeOK, FlowsWereStarted, RequestsAreSound, CallbackStages,
     FlowIsSpent, At, Request, Idle, vars, stored, history
<1>25. ASSUME NEW j \in Jobs, LoadFails(j) PROVE FlowIsSpent'
  BY <1>25 DEF LoadFails, FlowIsSpent, At
<1> QED
  BY <1>1, <1>2, <1>3, <1>4, <1>5, <1>6, <1>7, <1>8, <1>9, <1>10,
     <1>11, <1>12, <1>13, <1>14, <1>15, <1>16, <1>17, <1>18, <1>19, <1>20,
     <1>21, <1>22, <1>23, <1>24, <1>25
     DEF Next, Continue, Work

(* Rows and workers hold the credentials that were saved last.               *)
LEMMA CredentialsAreInductive ==
  BaseInv /\ WorkersHoldTheLastSaved /\ CredentialsAreTheLastSaved /\ [Next]_vars => WorkersHoldTheLastSaved' /\ CredentialsAreTheLastSaved'
<1> SUFFICES ASSUME BaseInv, WorkersHoldTheLastSaved, CredentialsAreTheLastSaved, [Next]_vars PROVE WorkersHoldTheLastSaved' /\ CredentialsAreTheLastSaved'
  OBVIOUS
<1> USE EmptyRecords, CalendarAssumption
<1>1. ASSUME NEW f \in Flows, StartOAuth(f)
      PROVE  WorkersHoldTheLastSaved' /\ CredentialsAreTheLastSaved'
  BY <1>1 DEF BaseInv, TypeOK, WorkersAreSound, WorkersHoldTheLastSaved,
     CredentialsAreTheLastSaved, Revoked, WAt, Busy, Row, WorkerSlot, Request, StartOAuth,
     stored, history
<1>2. ASSUME NEW f \in Flows, ExpireState(f)
      PROVE  WorkersHoldTheLastSaved' /\ CredentialsAreTheLastSaved'
  BY <1>2 DEF BaseInv, TypeOK, WorkersAreSound, WorkersHoldTheLastSaved,
     CredentialsAreTheLastSaved, Revoked, WAt, Busy, Row, WorkerSlot, Request,
     ExpireState, stored, history
<1>3. ASSUME NEW r \in Reqs, NEW f \in Flows, NEW c \in Conns, CallbackRead(r, f, c)
      PROVE  WorkersHoldTheLastSaved' /\ CredentialsAreTheLastSaved'
  BY <1>3 DEF BaseInv, TypeOK, WorkersAreSound, WorkersHoldTheLastSaved,
     CredentialsAreTheLastSaved, Revoked, WAt, Busy, Row, WorkerSlot, Request,
     CallbackRead, stored, history
<1>4. ASSUME NEW r \in Reqs, CallbackCheck(r)
      PROVE  WorkersHoldTheLastSaved' /\ CredentialsAreTheLastSaved'
  BY <1>4 DEF BaseInv, TypeOK, WorkersAreSound, WorkersHoldTheLastSaved,
     CredentialsAreTheLastSaved, Revoked, WAt, Busy, Row, WorkerSlot, Request,
     CallbackCheck, Goto, stored, history
<1>5. ASSUME NEW r \in Reqs, CallbackExchange(r)
      PROVE  WorkersHoldTheLastSaved' /\ CredentialsAreTheLastSaved'
  BY <1>5 DEF BaseInv, TypeOK, WorkersAreSound, WorkersHoldTheLastSaved,
     CredentialsAreTheLastSaved, Revoked, WAt, Busy, Row, WorkerSlot, Request,
     CallbackExchange, Goto, stored, history
<1>6. ASSUME NEW r \in Reqs, CallbackSave(r)
      PROVE  WorkersHoldTheLastSaved' /\ CredentialsAreTheLastSaved'
  BY <1>6 DEF BaseInv, TypeOK, WorkersAreSound, WorkersHoldTheLastSaved,
     CredentialsAreTheLastSaved, Revoked, WAt, Busy, Row, WorkerSlot, Request,
     CallbackSave, SavedRow, Goto, stored, history
<1>7. ASSUME NEW r \in Reqs, CallbackDrop(r)
      PROVE  WorkersHoldTheLastSaved' /\ CredentialsAreTheLastSaved'
  BY <1>7 DEF BaseInv, TypeOK, WorkersAreSound, WorkersHoldTheLastSaved,
     CredentialsAreTheLastSaved, Revoked, WAt, Busy, Row, WorkerSlot, Request,
     CallbackDrop, WithoutState, Done, stored, history
<1>8. ASSUME NEW r \in Reqs, NEW c \in Conns, NEW j \in Jobs, SyncRead(r, c, j)
      PROVE  WorkersHoldTheLastSaved' /\ CredentialsAreTheLastSaved'
  BY <1>8 DEF BaseInv, TypeOK, WorkersAreSound, WorkersHoldTheLastSaved,
     CredentialsAreTheLastSaved, Revoked, WAt, Busy, Row, WorkerSlot, Request, SyncRead,
     NewJob, stored, history
<1>9. ASSUME NEW r \in Reqs, SyncMark(r)
      PROVE  WorkersHoldTheLastSaved' /\ CredentialsAreTheLastSaved'
  BY <1>9 DEF BaseInv, TypeOK, WorkersAreSound, WorkersHoldTheLastSaved,
     CredentialsAreTheLastSaved, Revoked, WAt, Busy, Row, WorkerSlot, Request, SyncMark,
     MarkedRow, Goto, stored, history
<1>10. ASSUME NEW r \in Reqs, SyncEnqueue(r)
       PROVE  WorkersHoldTheLastSaved' /\ CredentialsAreTheLastSaved'
  BY <1>10 DEF BaseInv, TypeOK, WorkersAreSound, WorkersHoldTheLastSaved,
     CredentialsAreTheLastSaved, Revoked, WAt, Busy, Row, WorkerSlot, Request,
     SyncEnqueue, Done, stored, history
<1>11. ASSUME NEW r \in Reqs, Abort(r)
       PROVE  WorkersHoldTheLastSaved' /\ CredentialsAreTheLastSaved'
  BY <1>11 DEF BaseInv, TypeOK, WorkersAreSound, WorkersHoldTheLastSaved,
     CredentialsAreTheLastSaved, Revoked, WAt, Busy, Row, WorkerSlot, Request, Abort,
     Done, stored, history
<1>12. ASSUME NEW w \in Workers, NEW j \in Jobs, Load(w, j)
       PROVE  WorkersHoldTheLastSaved' /\ CredentialsAreTheLastSaved'
  <2>1. UNCHANGED <<conn, saved, regranted>>
    BY <1>12 DEF Load
  <2>2. job[j].conn \in Conns
    BY <1>12 DEF Load, BaseInv, WorkersAreSound
  <2>3. \/ UNCHANGED worker
        \/ /\ worker'[w].conn = job[j].conn /\ worker'[w].creds = conn[job[j].conn].creds
           /\ \A v \in Workers \ {w} : worker'[v] = worker[v]
    <3>1. CASE Skipped(job[j].conn)
      BY <1>12, <3>1 DEF Load
    <3>2. ASSUME ~Skipped(job[j].conn)
          PROVE  /\ worker'[w].conn = job[j].conn /\ worker'[w].creds = conn[job[j].conn].creds
                 /\ \A v \in Workers \ {w} : worker'[v] = worker[v]
      BY <1>12, <3>2, LoadedWorker DEF BaseInv
    <3> QED
      BY <3>1, <3>2
  <2> QED
    BY <2>1, <2>2, <2>3 DEF WorkersHoldTheLastSaved, CredentialsAreTheLastSaved, Busy,
       Revoked
<1>13. ASSUME NEW w \in Workers, NEW refreshed \in BOOLEAN, Fetch(w, refreshed)
       PROVE  WorkersHoldTheLastSaved' /\ CredentialsAreTheLastSaved'
  BY <1>13 DEF BaseInv, TypeOK, WorkersAreSound, WorkersHoldTheLastSaved,
     CredentialsAreTheLastSaved, Revoked, WAt, Busy, Row, WorkerSlot, Request, Fetch,
     Snapshot, stored, history
<1>14. ASSUME NEW w \in Workers, Store(w)
       PROVE  WorkersHoldTheLastSaved' /\ CredentialsAreTheLastSaved'
  BY <1>14 DEF BaseInv, TypeOK, WorkersAreSound, WorkersHoldTheLastSaved,
     CredentialsAreTheLastSaved, Revoked, WAt, Busy, Row, WorkerSlot, Request, Store,
     stored, history
<1>15. ASSUME NEW w \in Workers, Finish(w)
       PROVE  WorkersHoldTheLastSaved' /\ CredentialsAreTheLastSaved'
  BY <1>15 DEF BaseInv, TypeOK, WorkersAreSound, WorkersHoldTheLastSaved,
     CredentialsAreTheLastSaved, Revoked, WAt, Busy, Row, WorkerSlot, Request, Finish,
     SyncedRow, Finished, stored, history
<1>16. ASSUME NEW w \in Workers, SyncFails(w)
       PROVE  WorkersHoldTheLastSaved' /\ CredentialsAreTheLastSaved'
  BY <1>16 DEF BaseInv, TypeOK, WorkersAreSound, WorkersHoldTheLastSaved,
     CredentialsAreTheLastSaved, Revoked, WAt, Busy, Row, WorkerSlot, Request, SyncFails,
     stored, history
<1>17. ASSUME NEW w \in Workers, MarkError(w)
       PROVE  WorkersHoldTheLastSaved' /\ CredentialsAreTheLastSaved'
  BY <1>17 DEF BaseInv, TypeOK, WorkersAreSound, WorkersHoldTheLastSaved,
     CredentialsAreTheLastSaved, Revoked, WAt, Busy, Row, WorkerSlot, Request, MarkError,
     Finished, stored, history
<1>18. ASSUME NEW w \in Workers, WorkerDies(w)
       PROVE  WorkersHoldTheLastSaved' /\ CredentialsAreTheLastSaved'
  BY <1>18 DEF BaseInv, TypeOK, WorkersAreSound, WorkersHoldTheLastSaved,
     CredentialsAreTheLastSaved, Revoked, WAt, Busy, Row, WorkerSlot, Request, WorkerDies,
     stored, history
<1>19. ASSUME NEW w \in Workers, MarkErrorFails(w)
       PROVE  WorkersHoldTheLastSaved' /\ CredentialsAreTheLastSaved'
  BY <1>19 DEF BaseInv, TypeOK, WorkersAreSound, WorkersHoldTheLastSaved,
     CredentialsAreTheLastSaved, Revoked, WAt, Busy, Row, WorkerSlot, Request,
     MarkErrorFails, Finished, stored, history
<1>20. ASSUME NEW c \in Conns, Revoke(c)
       PROVE  WorkersHoldTheLastSaved' /\ CredentialsAreTheLastSaved'
  BY <1>20 DEF BaseInv, TypeOK, WorkersAreSound, WorkersHoldTheLastSaved,
     CredentialsAreTheLastSaved, Revoked, WAt, Busy, Row, WorkerSlot, Request, Revoke,
     RevokedRow, stored, history
<1>21. ASSUME NEW c \in Conns, Edit(c)
       PROVE  WorkersHoldTheLastSaved' /\ CredentialsAreTheLastSaved'
  BY <1>21 DEF BaseInv, TypeOK, WorkersAreSound, WorkersHoldTheLastSaved,
     CredentialsAreTheLastSaved, Revoked, WAt, Busy, Row, WorkerSlot, Request, Edit,
     stored, history
<1>22. ASSUME SkipOnboarding PROVE WorkersHoldTheLastSaved' /\ CredentialsAreTheLastSaved'
  BY <1>22 DEF BaseInv, TypeOK, WorkersAreSound, WorkersHoldTheLastSaved,
     CredentialsAreTheLastSaved, Revoked, WAt, Busy, Row, WorkerSlot, Request,
     SkipOnboarding, stored, history
<1>23. ASSUME NEW s \in Onboarding, MbtiWrites(s)
       PROVE  WorkersHoldTheLastSaved' /\ CredentialsAreTheLastSaved'
  BY <1>23 DEF BaseInv, TypeOK, WorkersAreSound, WorkersHoldTheLastSaved,
     CredentialsAreTheLastSaved, Revoked, WAt, Busy, Row, WorkerSlot, Request, MbtiWrites,
     stored, history
<1>24. CASE UNCHANGED vars
  BY <1>24 DEF BaseInv, TypeOK, WorkersAreSound, WorkersHoldTheLastSaved,
     CredentialsAreTheLastSaved, Revoked, WAt, Busy, Row, WorkerSlot, Request, vars,
     stored, history
<1>25. ASSUME NEW j \in Jobs, LoadFails(j)
       PROVE  WorkersHoldTheLastSaved' /\ CredentialsAreTheLastSaved'
  BY <1>25 DEF LoadFails, WorkersHoldTheLastSaved, CredentialsAreTheLastSaved, Revoked,
     Busy
<1> QED
  BY <1>1, <1>2, <1>3, <1>4, <1>5, <1>6, <1>7, <1>8, <1>9, <1>10,
     <1>11, <1>12, <1>13, <1>14, <1>15, <1>16, <1>17, <1>18, <1>19, <1>20,
     <1>21, <1>22, <1>23, <1>24, <1>25
     DEF Next, Continue, Work

(* One sync at a time never stores less than what is stored.                 *)
LEMMA EventsAreInductive ==
  BaseInv /\ EventsMoveForward /\ [Next]_vars => EventsMoveForward'
<1> SUFFICES ASSUME BaseInv, EventsMoveForward, [Next]_vars PROVE EventsMoveForward'
  OBVIOUS
<1> USE EmptyRecords, CalendarAssumption
<1>1. ASSUME NEW f \in Flows, StartOAuth(f) PROVE EventsMoveForward'
  BY <1>1 DEF BaseInv, TypeOK, WorkersAreSound, EventsMoveForward, WAt, Busy, WorkerSlot,
     Versions, StartOAuth, stored, history
<1>2. ASSUME NEW f \in Flows, ExpireState(f) PROVE EventsMoveForward'
  BY <1>2 DEF BaseInv, TypeOK, WorkersAreSound, EventsMoveForward, WAt, Busy, WorkerSlot,
     Versions, ExpireState, stored, history
<1>3. ASSUME NEW r \in Reqs, NEW f \in Flows, NEW c \in Conns, CallbackRead(r, f, c)
      PROVE  EventsMoveForward'
  BY <1>3 DEF BaseInv, TypeOK, WorkersAreSound, EventsMoveForward, WAt, Busy, WorkerSlot,
     Versions, CallbackRead, stored, history
<1>4. ASSUME NEW r \in Reqs, CallbackCheck(r) PROVE EventsMoveForward'
  BY <1>4 DEF BaseInv, TypeOK, WorkersAreSound, EventsMoveForward, WAt, Busy, WorkerSlot,
     Versions, CallbackCheck, Goto, stored, history
<1>5. ASSUME NEW r \in Reqs, CallbackExchange(r) PROVE EventsMoveForward'
  BY <1>5 DEF BaseInv, TypeOK, WorkersAreSound, EventsMoveForward, WAt, Busy, WorkerSlot,
     Versions, CallbackExchange, Goto, stored, history
<1>6. ASSUME NEW r \in Reqs, CallbackSave(r) PROVE EventsMoveForward'
  BY <1>6 DEF BaseInv, TypeOK, WorkersAreSound, EventsMoveForward, WAt, Busy, WorkerSlot,
     Versions, CallbackSave, SavedRow, Goto, stored, history
<1>7. ASSUME NEW r \in Reqs, CallbackDrop(r) PROVE EventsMoveForward'
  BY <1>7 DEF BaseInv, TypeOK, WorkersAreSound, EventsMoveForward, WAt, Busy, WorkerSlot,
     Versions, CallbackDrop, WithoutState, Done, stored, history
<1>8. ASSUME NEW r \in Reqs, NEW c \in Conns, NEW j \in Jobs, SyncRead(r, c, j)
      PROVE  EventsMoveForward'
  BY <1>8 DEF BaseInv, TypeOK, WorkersAreSound, EventsMoveForward, WAt, Busy, WorkerSlot,
     Versions, SyncRead, NewJob, stored, history
<1>9. ASSUME NEW r \in Reqs, SyncMark(r) PROVE EventsMoveForward'
  BY <1>9 DEF BaseInv, TypeOK, WorkersAreSound, EventsMoveForward, WAt, Busy, WorkerSlot,
     Versions, SyncMark, MarkedRow, Goto, stored, history
<1>10. ASSUME NEW r \in Reqs, SyncEnqueue(r) PROVE EventsMoveForward'
  BY <1>10 DEF BaseInv, TypeOK, WorkersAreSound, EventsMoveForward, WAt, Busy, WorkerSlot,
     Versions, SyncEnqueue, Done, stored, history
<1>11. ASSUME NEW r \in Reqs, Abort(r) PROVE EventsMoveForward'
  BY <1>11 DEF BaseInv, TypeOK, WorkersAreSound, EventsMoveForward, WAt, Busy, WorkerSlot,
     Versions, Abort, Done, stored, history
<1>12. ASSUME NEW w \in Workers, NEW j \in Jobs, Load(w, j) PROVE EventsMoveForward'
  <2>1. job[j].conn \in Conns
    BY <1>12 DEF Load, BaseInv, WorkersAreSound
  <2>2. UNCHANGED <<event, provider>>
    BY <1>12 DEF Load
  <2>3. CASE UNCHANGED <<worker, overlapped>>
    BY <2>2, <2>3 DEF EventsMoveForward, WAt
  <2>4. ASSUME ~Skipped(job[j].conn) PROVE EventsMoveForward'
    <3>1. /\ worker'[w].pc \in {"loaded", "failing"} /\ worker'[w].conn = job[j].conn
          /\ worker'[w].version = 0
          /\ \A v \in Workers \ {w} : worker'[v] = worker[v]
      BY <1>12, <2>4, LoadedWorker DEF BaseInv
    <3>2. overlapped' = IF \E v \in Workers : worker[v].conn = job[j].conn
                        THEN overlapped \cup {job[j].conn} ELSE overlapped
      BY <1>12, <2>4 DEF Load
    <3>3. provider \in [Conns -> Nat]
      BY DEF BaseInv, TypeOK, Versions
    <3> QED
      BY <2>1, <2>2, <3>1, <3>2, <3>3 DEF EventsMoveForward, WAt
  <2> QED
    BY <1>12, <2>3, <2>4 DEF Load
<1>13. ASSUME NEW w \in Workers, NEW refreshed \in BOOLEAN, Fetch(w, refreshed)
       PROVE  EventsMoveForward'
  BY <1>13 DEF BaseInv, TypeOK, WorkersAreSound, EventsMoveForward, WAt, Busy, WorkerSlot,
     Versions, Fetch, Snapshot, stored, history
<1>14. ASSUME NEW w \in Workers, Store(w) PROVE EventsMoveForward'
  BY <1>14 DEF BaseInv, TypeOK, WorkersAreSound, EventsMoveForward, WAt, Busy, WorkerSlot,
     Versions, Store, stored, history
<1>15. ASSUME NEW w \in Workers, Finish(w) PROVE EventsMoveForward'
  BY <1>15 DEF BaseInv, TypeOK, WorkersAreSound, EventsMoveForward, WAt, Busy, WorkerSlot,
     Versions, Finish, SyncedRow, Finished, stored, history
<1>16. ASSUME NEW w \in Workers, SyncFails(w) PROVE EventsMoveForward'
  BY <1>16 DEF BaseInv, TypeOK, WorkersAreSound, EventsMoveForward, WAt, Busy, WorkerSlot,
     Versions, SyncFails, stored, history
<1>17. ASSUME NEW w \in Workers, MarkError(w) PROVE EventsMoveForward'
  BY <1>17 DEF BaseInv, TypeOK, WorkersAreSound, EventsMoveForward, WAt, Busy, WorkerSlot,
     Versions, MarkError, Finished, stored, history
<1>18. ASSUME NEW w \in Workers, WorkerDies(w) PROVE EventsMoveForward'
  BY <1>18 DEF BaseInv, TypeOK, WorkersAreSound, EventsMoveForward, WAt, Busy, WorkerSlot,
     Versions, WorkerDies, stored, history
<1>19. ASSUME NEW w \in Workers, MarkErrorFails(w) PROVE EventsMoveForward'
  BY <1>19 DEF BaseInv, TypeOK, WorkersAreSound, EventsMoveForward, WAt, Busy, WorkerSlot,
     Versions, MarkErrorFails, Finished, stored, history
<1>20. ASSUME NEW c \in Conns, Revoke(c) PROVE EventsMoveForward'
  BY <1>20 DEF BaseInv, TypeOK, WorkersAreSound, EventsMoveForward, WAt, Busy, WorkerSlot,
     Versions, Revoke, RevokedRow, stored, history
<1>21. ASSUME NEW c \in Conns, Edit(c) PROVE EventsMoveForward'
  BY <1>21 DEF BaseInv, TypeOK, WorkersAreSound, EventsMoveForward, WAt, Busy, WorkerSlot,
     Versions, Edit, stored, history
<1>22. ASSUME SkipOnboarding PROVE EventsMoveForward'
  BY <1>22 DEF BaseInv, TypeOK, WorkersAreSound, EventsMoveForward, WAt, Busy, WorkerSlot,
     Versions, SkipOnboarding, stored, history
<1>23. ASSUME NEW s \in Onboarding, MbtiWrites(s) PROVE EventsMoveForward'
  BY <1>23 DEF BaseInv, TypeOK, WorkersAreSound, EventsMoveForward, WAt, Busy, WorkerSlot,
     Versions, MbtiWrites, stored, history
<1>24. CASE UNCHANGED vars
  BY <1>24 DEF BaseInv, TypeOK, WorkersAreSound, EventsMoveForward, WAt, Busy, WorkerSlot,
     Versions, vars, stored, history
<1>25. ASSUME NEW j \in Jobs, LoadFails(j) PROVE EventsMoveForward'
  BY <1>25 DEF LoadFails, EventsMoveForward, WAt
<1> QED
  BY <1>1, <1>2, <1>3, <1>4, <1>5, <1>6, <1>7, <1>8, <1>9, <1>10,
     <1>11, <1>12, <1>13, <1>14, <1>15, <1>16, <1>17, <1>18, <1>19, <1>20,
     <1>21, <1>22, <1>23, <1>24, <1>25
     DEF Next, Continue, Work

(* The invariant: it holds of the empty tables, and every step keeps it.     *)
LEMMA InitialState == Init => IInv
<1> SUFFICES ASSUME Init PROVE IInv
  OBVIOUS
<1> USE EmptyRecords, CalendarAssumption
<1>1. TypeOK
  BY DEF Init, TypeOK, Versions, Onboarding, NoGrant
<1>2. FlowsWereStarted /\ RequestsAreSound /\ WorkersAreSound
  BY DEF Init, FlowsWereStarted, RequestsAreSound, WorkersAreSound, SyncStages,
     CallbackStages, WAt, Busy
<1>3. SyncingIsPending /\ FlowIsSpent
  BY DEF Init, SyncingIsPending, FlowIsSpent, NoRow
<1>4. WorkersHoldTheLastSaved /\ CredentialsAreTheLastSaved
  BY DEF Init, WorkersHoldTheLastSaved, CredentialsAreTheLastSaved, Busy, Revoked, NoRow
<1>5. EventsMoveForward
  BY DEF Init, EventsMoveForward
<1> QED
  BY <1>1, <1>2, <1>3, <1>4, <1>5 DEF IInv, BaseInv

THEOREM InductiveInvariant == Spec => []IInv
<1>1. IInv /\ [Next]_vars => IInv'
  BY BaseIsInductive, PendingIsInductive, SpentIsInductive, CredentialsAreInductive,
     EventsAreInductive DEF IInv
<1> QED
  BY InitialState, <1>1, PTL DEF Spec

(* Every variable keeps its type.                                            *)
THEOREM Typing == Spec => []TypeOK
BY InductiveInvariant, PTL DEF IInv, BaseInv

(* No connection says SYNCING for nothing, whatever overlaps and dies, as    *)
(* long as no fault dropped its sync.                                        *)
THEOREM Syncing == Spec => []SyncingIsPending
BY InductiveInvariant, PTL DEF IInv

(* The state of a completed OAuth flow completes no other, once the callback *)
(* has answered.                                                             *)
THEOREM Spent == Spec => []FlowIsSpent
BY InductiveInvariant, PTL DEF IInv

(* Connections hold the last saved credentials, and revoked ones none.       *)
THEOREM Credentials == Spec => []CredentialsAreTheLastSaved
BY InductiveInvariant, PTL DEF IInv

(* After a revocation and the syncs that had begun, nothing but a new        *)
(* connection by the user changes the row.                                   *)
THEOREM Revocation == Spec => RevocationHoldsOnceQuiet
<1>1. IInv /\ [Next]_vars =>
        [\A c \in Conns : Revoked(c) /\ Quiet(c) =>
           Quiet(c)' /\ (conn'[c] = conn[c] \/ Reconnects(c))]_vars
  <2> SUFFICES ASSUME IInv, [Next]_vars, NEW c \in Conns, Revoked(c), Quiet(c)
               PROVE  Quiet(c)' /\ (conn'[c] = conn[c] \/ Reconnects(c))
    OBVIOUS
  <2> USE EmptyRecords, CalendarAssumption
  <2>1. ASSUME NEW f \in Flows, StartOAuth(f)
        PROVE  Quiet(c)' /\ (conn'[c] = conn[c] \/ Reconnects(c))
    BY <2>1 DEF Quiet, StartOAuth, stored, history
  <2>2. ASSUME NEW f \in Flows, ExpireState(f)
        PROVE  Quiet(c)' /\ (conn'[c] = conn[c] \/ Reconnects(c))
    BY <2>2 DEF Quiet, ExpireState, stored, history
  <2>3. ASSUME NEW r \in Reqs, NEW f \in Flows, NEW k \in Conns, CallbackRead(r, f, k)
        PROVE  Quiet(c)' /\ (conn'[c] = conn[c] \/ Reconnects(c))
    BY <2>3 DEF Quiet, IInv, BaseInv, TypeOK, SyncStages, CallbackRead, stored, history
  <2>4. ASSUME NEW r \in Reqs, CallbackCheck(r)
        PROVE  Quiet(c)' /\ (conn'[c] = conn[c] \/ Reconnects(c))
    BY <2>4 DEF Quiet, IInv, BaseInv, TypeOK, Request, At, SyncStages, CallbackCheck,
       Goto, stored, history
  <2>5. ASSUME NEW r \in Reqs, CallbackExchange(r)
        PROVE  Quiet(c)' /\ (conn'[c] = conn[c] \/ Reconnects(c))
    <3>1. /\ req'[r].pc \in {"exchanged", "drop"}
          /\ \A q \in Reqs : q # r => req'[q] = req[q]
      BY <2>5 DEF CallbackExchange, Goto, IInv, BaseInv, TypeOK, Request
    <3>2. UNCHANGED <<conn, worker>>
      BY <2>5 DEF CallbackExchange, stored
    <3> QED
      BY <3>1, <3>2 DEF Quiet, SyncStages
  <2>6. ASSUME NEW r \in Reqs, CallbackSave(r)
        PROVE  Quiet(c)' /\ (conn'[c] = conn[c] \/ Reconnects(c))
    BY <2>6 DEF Quiet, IInv, BaseInv, TypeOK, Request, At, SyncStages, Reconnects,
       CallbackSave, SavedRow, Goto, stored, history
  <2>7. ASSUME NEW r \in Reqs, CallbackDrop(r)
        PROVE  Quiet(c)' /\ (conn'[c] = conn[c] \/ Reconnects(c))
    BY <2>7 DEF Quiet, IInv, BaseInv, TypeOK, SyncStages, CallbackDrop, WithoutState,
       Done, stored, history
  <2>8. ASSUME NEW r \in Reqs, NEW k \in Conns, NEW j \in Jobs, SyncRead(r, k, j)
        PROVE  Quiet(c)' /\ (conn'[c] = conn[c] \/ Reconnects(c))
    BY <2>8 DEF Quiet, IInv, BaseInv, TypeOK, Request, At, SyncStages, Revoked, Connected,
       SyncRead, NewJob, stored, history
  <2>9. ASSUME NEW r \in Reqs, SyncMark(r)
        PROVE  Quiet(c)' /\ (conn'[c] = conn[c] \/ Reconnects(c))
    BY <2>9 DEF Quiet, IInv, BaseInv, TypeOK, Request, At, SyncStages, SyncMark,
       MarkedRow, Goto, stored, history
  <2>10. ASSUME NEW r \in Reqs, SyncEnqueue(r)
         PROVE  Quiet(c)' /\ (conn'[c] = conn[c] \/ Reconnects(c))
    BY <2>10 DEF Quiet, IInv, BaseInv, TypeOK, SyncStages, SyncEnqueue, Done, stored,
       history
  <2>11. ASSUME NEW r \in Reqs, Abort(r)
         PROVE  Quiet(c)' /\ (conn'[c] = conn[c] \/ Reconnects(c))
    BY <2>11 DEF Quiet, IInv, BaseInv, TypeOK, SyncStages, Abort, Done, stored, history
  <2>12. ASSUME NEW w \in Workers, NEW j \in Jobs, Load(w, j)
         PROVE  Quiet(c)' /\ (conn'[c] = conn[c] \/ Reconnects(c))
    <3>1. UNCHANGED <<conn, req>>
      BY <2>12 DEF Load
    <3>2. CASE Skipped(job[j].conn)
      BY <2>12, <3>1, <3>2 DEF Load, Quiet
    <3>3. CASE ~Skipped(job[j].conn)
      <4>1. /\ job[j].conn # c /\ worker'[w].conn = job[j].conn
            /\ \A v \in Workers \ {w} : worker'[v] = worker[v]
        BY <2>12, <3>3, LoadedWorker DEF Skipped, IInv, BaseInv
      <4> QED
        BY <3>1, <4>1 DEF Quiet
    <3> QED
      BY <3>2, <3>3
  <2>13. ASSUME NEW w \in Workers, NEW refreshed \in BOOLEAN, Fetch(w, refreshed)
         PROVE  Quiet(c)' /\ (conn'[c] = conn[c] \/ Reconnects(c))
    BY <2>13 DEF Quiet, IInv, BaseInv, TypeOK, WorkerSlot, Fetch, Snapshot, stored,
       history
  <2>14. ASSUME NEW w \in Workers, Store(w)
         PROVE  Quiet(c)' /\ (conn'[c] = conn[c] \/ Reconnects(c))
    BY <2>14 DEF Quiet, Store, stored, history
  <2>15. ASSUME NEW w \in Workers, Finish(w)
         PROVE  Quiet(c)' /\ (conn'[c] = conn[c] \/ Reconnects(c))
    BY <2>15 DEF Quiet, Finish, SyncedRow, Finished, stored, history
  <2>16. ASSUME NEW w \in Workers, SyncFails(w)
         PROVE  Quiet(c)' /\ (conn'[c] = conn[c] \/ Reconnects(c))
    BY <2>16 DEF Quiet, SyncFails, stored, history
  <2>17. ASSUME NEW w \in Workers, MarkError(w)
         PROVE  Quiet(c)' /\ (conn'[c] = conn[c] \/ Reconnects(c))
    BY <2>17 DEF Quiet, MarkError, Finished, stored, history
  <2>18. ASSUME NEW w \in Workers, WorkerDies(w)
         PROVE  Quiet(c)' /\ (conn'[c] = conn[c] \/ Reconnects(c))
    BY <2>18 DEF Quiet, WorkerDies, stored, history
  <2>19. ASSUME NEW w \in Workers, MarkErrorFails(w)
         PROVE  Quiet(c)' /\ (conn'[c] = conn[c] \/ Reconnects(c))
    BY <2>19 DEF Quiet, MarkErrorFails, Finished, stored, history
  <2>20. ASSUME NEW k \in Conns, Revoke(k)
         PROVE  Quiet(c)' /\ (conn'[c] = conn[c] \/ Reconnects(c))
    <3>1. conn'[c] = conn[c]
      <4>1. conn[c] \in Row /\ conn[c].status = "REVOKED" /\ conn[c].creds = NoGrant
        BY DEF IInv, BaseInv, TypeOK, CredentialsAreTheLastSaved, Revoked
      <4>2. conn[c] = RevokedRow(conn[c])
        BY <4>1 DEF Row, RevokedRow
      <4> QED
        BY <2>20, <4>2 DEF Revoke, RevokedRow, IInv, BaseInv, TypeOK
    <3>2. UNCHANGED <<req, worker>>
      BY <2>20 DEF Revoke
    <3> QED
      BY <3>1, <3>2 DEF Quiet
  <2>21. ASSUME NEW k \in Conns, Edit(k)
         PROVE  Quiet(c)' /\ (conn'[c] = conn[c] \/ Reconnects(c))
    BY <2>21 DEF Quiet, Edit, stored, history
  <2>22. ASSUME SkipOnboarding PROVE Quiet(c)' /\ (conn'[c] = conn[c] \/ Reconnects(c))
    BY <2>22 DEF Quiet, SkipOnboarding, stored, history
  <2>23. ASSUME NEW s \in Onboarding, MbtiWrites(s)
         PROVE  Quiet(c)' /\ (conn'[c] = conn[c] \/ Reconnects(c))
    BY <2>23 DEF Quiet, MbtiWrites, stored, history
  <2>24. CASE UNCHANGED vars
    BY <2>24 DEF Quiet, vars, stored, history
  <2>25. ASSUME NEW j \in Jobs, LoadFails(j)
         PROVE  Quiet(c)' /\ (conn'[c] = conn[c] \/ Reconnects(c))
    BY <2>25 DEF LoadFails, Quiet
  <2> QED
    BY <2>1, <2>2, <2>3, <2>4, <2>5, <2>6, <2>7, <2>8, <2>9, <2>10,
       <2>11, <2>12, <2>13, <2>14, <2>15, <2>16, <2>17, <2>18, <2>19, <2>20,
       <2>21, <2>22, <2>23, <2>24, <2>25
       DEF Next, Continue, Work
<1> QED
  BY InductiveInvariant, <1>1, PTL DEF Spec, RevocationHoldsOnceQuiet

(* Where syncs never overlapped, what is shown of a calendar never gets      *)
(* older.                                                                    *)
THEOREM Freshness == Spec => EventsGoBackOnlyByOverlap
<1>1. IInv /\ [Next]_vars =>
        [\A c \in Conns : event'[c] < event[c] => c \in overlapped]_vars
  <2> SUFFICES ASSUME IInv, [Next]_vars, NEW c \in Conns, event'[c] < event[c]
               PROVE  c \in overlapped
    OBVIOUS
  <2>0. event[c] \in Int
    BY CalendarAssumption DEF IInv, BaseInv, TypeOK, Versions
  <2> USE CalendarAssumption
  <2>1. ASSUME NEW f \in Flows, StartOAuth(f) PROVE c \in overlapped
    BY <2>0, <2>1 DEF StartOAuth, stored, history
  <2>2. ASSUME NEW f \in Flows, ExpireState(f) PROVE c \in overlapped
    BY <2>0, <2>2 DEF ExpireState, stored, history
  <2>3. ASSUME NEW r \in Reqs, NEW f \in Flows, NEW k \in Conns, CallbackRead(r, f, k)
        PROVE  c \in overlapped
    BY <2>0, <2>3 DEF CallbackRead, stored, history
  <2>4. ASSUME NEW r \in Reqs, CallbackCheck(r) PROVE c \in overlapped
    BY <2>0, <2>4 DEF CallbackCheck, Goto, stored, history
  <2>5. ASSUME NEW r \in Reqs, CallbackExchange(r) PROVE c \in overlapped
    BY <2>0, <2>5 DEF CallbackExchange, Goto, stored, history
  <2>6. ASSUME NEW r \in Reqs, CallbackSave(r) PROVE c \in overlapped
    BY <2>0, <2>6 DEF CallbackSave, SavedRow, Goto, stored, history
  <2>7. ASSUME NEW r \in Reqs, CallbackDrop(r) PROVE c \in overlapped
    BY <2>0, <2>7 DEF CallbackDrop, WithoutState, Done, stored, history
  <2>8. ASSUME NEW r \in Reqs, NEW k \in Conns, NEW j \in Jobs, SyncRead(r, k, j)
        PROVE  c \in overlapped
    BY <2>0, <2>8 DEF SyncRead, NewJob, stored, history
  <2>9. ASSUME NEW r \in Reqs, SyncMark(r) PROVE c \in overlapped
    BY <2>0, <2>9 DEF SyncMark, MarkedRow, Goto, stored, history
  <2>10. ASSUME NEW r \in Reqs, SyncEnqueue(r) PROVE c \in overlapped
    BY <2>0, <2>10 DEF SyncEnqueue, Done, stored, history
  <2>11. ASSUME NEW r \in Reqs, Abort(r) PROVE c \in overlapped
    BY <2>0, <2>11 DEF Abort, Done, stored, history
  <2>12. ASSUME NEW w \in Workers, NEW j \in Jobs, Load(w, j) PROVE c \in overlapped
    BY <2>0, <2>12 DEF Load, Skipped, Revoked, stored, history
  <2>13. ASSUME NEW w \in Workers, NEW refreshed \in BOOLEAN, Fetch(w, refreshed)
         PROVE  c \in overlapped
    BY <2>0, <2>13 DEF Fetch, Snapshot, stored, history
  <2>14. ASSUME NEW w \in Workers, Store(w) PROVE c \in overlapped
    BY <2>0, <2>14 DEF IInv, BaseInv, TypeOK, WorkersAreSound, EventsMoveForward, WAt,
       Busy, WorkerSlot, Versions, Store, stored, history
  <2>15. ASSUME NEW w \in Workers, Finish(w) PROVE c \in overlapped
    BY <2>0, <2>15 DEF Finish, SyncedRow, Finished, stored, history
  <2>16. ASSUME NEW w \in Workers, SyncFails(w) PROVE c \in overlapped
    BY <2>0, <2>16 DEF IInv, BaseInv, TypeOK, WorkersAreSound, EventsMoveForward, WAt,
       Busy, WorkerSlot, Versions, SyncFails, stored, history
  <2>17. ASSUME NEW w \in Workers, MarkError(w) PROVE c \in overlapped
    BY <2>0, <2>17 DEF MarkError, Finished, stored, history
  <2>18. ASSUME NEW w \in Workers, WorkerDies(w) PROVE c \in overlapped
    BY <2>0, <2>18 DEF WorkerDies, stored, history
  <2>19. ASSUME NEW w \in Workers, MarkErrorFails(w) PROVE c \in overlapped
    BY <2>0, <2>19 DEF MarkErrorFails, Finished, stored, history
  <2>20. ASSUME NEW k \in Conns, Revoke(k) PROVE c \in overlapped
    BY <2>0, <2>20 DEF Revoke, RevokedRow, stored, history
  <2>21. ASSUME NEW k \in Conns, Edit(k) PROVE c \in overlapped
    BY <2>0, <2>21 DEF Edit, stored, history
  <2>22. ASSUME SkipOnboarding PROVE c \in overlapped
    BY <2>0, <2>22 DEF SkipOnboarding, stored, history
  <2>23. ASSUME NEW s \in Onboarding, MbtiWrites(s) PROVE c \in overlapped
    BY <2>0, <2>23 DEF MbtiWrites, stored, history
  <2>24. CASE UNCHANGED vars
    BY <2>0, <2>24 DEF vars, stored, history
  <2>25. ASSUME NEW j \in Jobs, LoadFails(j) PROVE c \in overlapped
    BY <2>0, <2>25 DEF LoadFails
  <2> QED
    BY <2>1, <2>2, <2>3, <2>4, <2>5, <2>6, <2>7, <2>8, <2>9, <2>10,
       <2>11, <2>12, <2>13, <2>14, <2>15, <2>16, <2>17, <2>18, <2>19, <2>20,
       <2>21, <2>22, <2>23, <2>24, <2>25
       DEF Next, Continue, Work
<1> QED
  BY InductiveInvariant, <1>1, PTL DEF Spec, EventsGoBackOnlyByOverlap

-----------------------------------------------------------------------------
(* A request that is about to save a connection carries a grant.             *)
GrantsAreHeld == \A r \in Reqs : At(r, "exchanged") => req[r].grant \in Grants

LEMMA GrantsStay == BaseInv /\ GrantsAreHeld /\ [Next]_vars => GrantsAreHeld'
<1> SUFFICES ASSUME BaseInv, GrantsAreHeld, [Next]_vars, NEW q \in Reqs, At(q, "exchanged")'
             PROVE  req'[q].grant \in Grants
  BY DEF GrantsAreHeld
<1> USE EmptyRecords
<1>s. ASSUME req'[q] = req[q] PROVE req'[q].grant \in Grants
  BY <1>s DEF GrantsAreHeld, At
<1>1. ASSUME NEW r \in Reqs, NEW next, req' = [req EXCEPT ![r] = next], next.pc # "exchanged"
      PROVE  req'[q].grant \in Grants
  BY <1>1, <1>s DEF BaseInv, TypeOK, At
<1>2. ASSUME NEW r \in Reqs, NEW pc, Goto(r, pc), pc # "exchanged"
      PROVE  req'[q].grant \in Grants
  BY <1>2, <1>s DEF BaseInv, TypeOK, Request, At, Goto
<1>3. ASSUME NEW r \in Reqs, CallbackExchange(r) PROVE req'[q].grant \in Grants
  <2>1. CASE Goto(r, "drop")
    BY <1>2, <2>1
  <2>2. CASE ~Goto(r, "drop")
    <3>1. issued < MaxGrants /\ req' = [req EXCEPT ![r].pc = "exchanged", ![r].grant = issued + 1]
      BY <1>3, <2>2 DEF CallbackExchange
    <3>2. issued + 1 \in Grants
      BY <3>1, CalendarAssumption DEF BaseInv, TypeOK, Grants
    <3>3. req'[r].grant = issued + 1 /\ \A p \in Reqs \ {r} : req'[p] = req[p]
      BY <3>1 DEF BaseInv, TypeOK, Request
    <3> QED BY <1>s, <3>2, <3>3
  <2> QED BY <2>1, <2>2
<1>4. ASSUME NEW r \in Reqs, Continue(r) PROVE req'[q].grant \in Grants
  <2>1. CASE CallbackCheck(r)
    BY <1>2, <2>1 DEF CallbackCheck
  <2>2. CASE CallbackSave(r)
    BY <1>2, <2>2 DEF CallbackSave
  <2>3. CASE CallbackDrop(r) \/ SyncEnqueue(r)
    BY <1>1, <2>3 DEF CallbackDrop, SyncEnqueue, Done
  <2>4. CASE SyncMark(r)
    BY <1>2, <2>4 DEF SyncMark
  <2> QED BY <1>3, <1>4, <2>1, <2>2, <2>3, <2>4 DEF Continue
<1>5. ASSUME NEW r \in Reqs, NEW f \in Flows, NEW c \in Conns, CallbackRead(r, f, c)
      PROVE  req'[q].grant \in Grants
  <2> DEFINE next == [Idle EXCEPT !.pc = "got", !.flow = f, !.conn = c]
  <2>1. next.pc = "got" /\ req' = [req EXCEPT ![r] = next]
    BY <1>5 DEF CallbackRead, Idle
  <2> QED BY <1>1, <2>1
<1>6. ASSUME NEW r \in Reqs, NEW c \in Conns, NEW j \in Jobs, SyncRead(r, c, j)
      PROVE  req'[q].grant \in Grants
  <2> DEFINE next == [Idle EXCEPT !.pc = "syncRead", !.conn = c, !.job = j, !.asked = provider[c]]
  <2>1. next.pc = "syncRead" /\ req' = [req EXCEPT ![r] = next]
    BY <1>6 DEF SyncRead, Idle
  <2> QED BY <1>1, <2>1
<1>7. ASSUME NEW r \in Reqs, Abort(r) PROVE req'[q].grant \in Grants
  BY <1>1, <1>7 DEF Abort, Done
<1>8. CASE UNCHANGED req
  BY <1>8, <1>s
<1>9. ASSUME NEW w \in Workers, Work(w) \/ WorkerDies(w) \/ MarkErrorFails(w) PROVE UNCHANGED req
  BY <1>9 DEF Work, Load, Fetch, Store, Finish, SyncFails, MarkError, WorkerDies, MarkErrorFails
<1>10. ASSUME (\E f \in Flows : StartOAuth(f) \/ ExpireState(f)) \/ (\E j \in Jobs : LoadFails(j))
              \/ (\E c \in Conns : Revoke(c) \/ Edit(c)) \/ SkipOnboarding
              \/ (\E s \in Onboarding : MbtiWrites(s))
       PROVE  UNCHANGED req
  BY <1>10 DEF StartOAuth, ExpireState, LoadFails, Revoke, Edit, SkipOnboarding, MbtiWrites
<1> QED BY <1>4, <1>5, <1>6, <1>7, <1>8, <1>9, <1>10 DEF Next, vars

-----------------------------------------------------------------------------
(* What a sync is asked for, queued for or at has a row.                     *)
HasARow(c) == conn[c].status # "none"
SyncsHaveARow ==
  /\ \A r \in Reqs : req[r].pc \in SyncStages => HasARow(req[r].conn)
  /\ \A j \in Jobs : job[j].state = "waiting" => HasARow(job[j].conn)
  /\ \A w \in Workers : Busy(w) => HasARow(worker[w].conn)

(* Rows are never deleted.                                                   *)
LEMMA RowsArePermanent ==
  ASSUME BaseInv, [Next]_vars, NEW c \in Conns, HasARow(c)
  PROVE  HasARow(c)'
<1>1. ASSUME NEW k \in Conns, NEW row, conn' = [conn EXCEPT ![k] = row], row.status # "none"
      PROVE  HasARow(c)'
  BY <1>1 DEF BaseInv, TypeOK, HasARow
<1>2. ASSUME NEW k \in Conns, NEW status, conn' = [conn EXCEPT ![k].status = status],
             status # "none"
      PROVE  HasARow(c)'
  BY <1>2 DEF BaseInv, TypeOK, Row, HasARow
<1>3. ASSUME UNCHANGED conn PROVE HasARow(c)'
  BY <1>3 DEF HasARow
<1>4. ASSUME NEW r \in Reqs, CallbackSave(r) PROVE HasARow(c)'
  <2>1. req[r].conn \in Conns
    BY <1>4 DEF CallbackSave, At, BaseInv, RequestsAreSound, CallbackStages
  <2>2. SavedRow(r, conn[req[r].conn]).status # "none"
    BY DEF SavedRow
  <2> QED BY <1>1, <1>4, <2>1, <2>2 DEF CallbackSave
<1>5. ASSUME NEW r \in Reqs, SyncMark(r) PROVE HasARow(c)'
  <2>1. req[r].conn \in Conns
    BY <1>5 DEF SyncMark, At, BaseInv, RequestsAreSound, SyncStages
  <2>2. conn' = [conn EXCEPT ![req[r].conn].status = "SYNCING"]
    BY <1>5, <2>1 DEF SyncMark, MarkedRow
  <2> QED BY <1>2, <2>1, <2>2
<1>6. ASSUME NEW k \in Conns, Revoke(k) PROVE HasARow(c)'
  <2>1. RevokedRow(conn[k]).status # "none"
    BY DEF RevokedRow
  <2> QED BY <1>1, <1>6, <2>1 DEF Revoke
<1>7. ASSUME NEW w \in Workers, Finish(w) PROVE HasARow(c)'
  <2>1. worker[w].conn \in Conns
    BY <1>7 DEF Finish, WAt, Busy, BaseInv, WorkersAreSound
  <2>2. SyncedRow(w, conn[worker[w].conn]).status # "none"
    BY <2>1 DEF SyncedRow, BaseInv, TypeOK, Row
  <2> QED BY <1>1, <1>7, <2>1, <2>2 DEF Finish
<1>8. ASSUME NEW w \in Workers, MarkError(w) PROVE HasARow(c)'
  <2>1. worker[w].conn \in Conns
    BY <1>8 DEF MarkError, WAt, Busy, BaseInv, WorkersAreSound
  <2> QED BY <1>2, <1>8, <2>1 DEF MarkError
<1>9. ASSUME NEW r \in Reqs,
             \/ \E f \in Flows, k \in Conns : CallbackRead(r, f, k)
             \/ \E k \in Conns, j \in Jobs : SyncRead(r, k, j)
             \/ CallbackCheck(r) \/ CallbackExchange(r) \/ CallbackDrop(r) \/ SyncEnqueue(r)
             \/ Abort(r)
      PROVE  UNCHANGED conn
  BY <1>9 DEF CallbackRead, SyncRead, CallbackCheck, CallbackExchange, CallbackDrop,
     SyncEnqueue, Abort, stored
<1>10. ASSUME NEW w \in Workers,
              \/ \E j \in Jobs : Load(w, j)
              \/ \E refreshed \in BOOLEAN : Fetch(w, refreshed)
              \/ Store(w) \/ SyncFails(w) \/ WorkerDies(w) \/ MarkErrorFails(w)
       PROVE  UNCHANGED conn
  BY <1>10 DEF Load, Fetch, Store, SyncFails, WorkerDies, MarkErrorFails, stored
<1>11. ASSUME \/ \E f \in Flows : StartOAuth(f) \/ ExpireState(f)
              \/ \E j \in Jobs : LoadFails(j)
              \/ \E k \in Conns : Edit(k)
              \/ SkipOnboarding \/ \E s \in Onboarding : MbtiWrites(s)
              \/ UNCHANGED vars
       PROVE  UNCHANGED conn
  BY <1>11 DEF StartOAuth, ExpireState, LoadFails, Edit, SkipOnboarding, MbtiWrites, stored, vars
<1> QED
  BY <1>3, <1>4, <1>5, <1>6, <1>7, <1>8, <1>9, <1>10, <1>11 DEF Next, Continue, Work

LEMMA RowsCarryOver == BaseInv /\ SyncsHaveARow /\ [Next]_vars => SyncsHaveARow'
<1> SUFFICES ASSUME BaseInv, SyncsHaveARow, [Next]_vars PROVE SyncsHaveARow'
  OBVIOUS
<1> USE EmptyRecords
<1>1. \A c \in Conns : HasARow(c) => HasARow(c)'
  BY RowsArePermanent
<1>r. ASSUME NEW q \in Reqs, req'[q].pc \in SyncStages,
             \/ req[q].pc \in SyncStages /\ req'[q].conn = req[q].conn
             \/ req'[q].conn \in Conns /\ HasARow(req'[q].conn)
      PROVE  HasARow(req[q].conn)'
  BY <1>1, <1>r DEF SyncsHaveARow, HasARow, BaseInv, RequestsAreSound
<1>j. ASSUME NEW i \in Jobs, job'[i].state = "waiting",
             \/ job[i].state = "waiting" /\ job'[i].conn = job[i].conn
             \/ job'[i].conn \in Conns /\ HasARow(job'[i].conn)
      PROVE  HasARow(job[i].conn)'
  BY <1>1, <1>j DEF SyncsHaveARow, HasARow, BaseInv, WorkersAreSound
<1>w. ASSUME NEW v \in Workers, Busy(v)',
             \/ Busy(v) /\ worker'[v].conn = worker[v].conn
             \/ worker'[v].conn \in Conns /\ HasARow(worker'[v].conn)
      PROVE  HasARow(worker[v].conn)'
  BY <1>1, <1>w DEF SyncsHaveARow, HasARow, BaseInv, WorkersAreSound
<1>2. ASSUME NEW q \in Reqs, req'[q].pc \in SyncStages
      PROVE  HasARow(req[q].conn)'
  <2>s. ASSUME req'[q] = req[q] PROVE HasARow(req[q].conn)'
    BY <1>2, <1>r, <2>s
  <2>1. ASSUME NEW r \in Reqs, NEW next, req' = [req EXCEPT ![r] = next],
               next.pc \notin SyncStages
        PROVE  HasARow(req[q].conn)'
    BY <1>2, <2>1, <2>s DEF BaseInv, TypeOK
  <2>2. ASSUME NEW r \in Reqs, NEW pc, Goto(r, pc), pc \notin SyncStages \/ At(r, "syncRead")
        PROVE  HasARow(req[q].conn)'
    BY <1>2, <1>r, <2>2, <2>s DEF BaseInv, TypeOK, Request, At, Goto, SyncStages
  <2>3. ASSUME NEW r \in Reqs, Continue(r) PROVE HasARow(req[q].conn)'
    <3>1. CASE CallbackCheck(r)
      BY <2>2, <3>1 DEF CallbackCheck, SyncStages
    <3>2. CASE CallbackExchange(r)
      <4>1. CASE Goto(r, "drop")
        BY <2>2, <4>1 DEF SyncStages
      <4>2. CASE ~Goto(r, "drop")
        <5>1. req' = [req EXCEPT ![r].pc = "exchanged", ![r].grant = issued + 1]
          BY <3>2, <4>2 DEF CallbackExchange
        <5>2. req'[r].pc = "exchanged" /\ \A p \in Reqs \ {r} : req'[p] = req[p]
          BY <5>1 DEF BaseInv, TypeOK, Request
        <5> QED BY <1>2, <2>s, <5>2 DEF SyncStages
      <4> QED BY <4>1, <4>2
    <3>3. CASE CallbackSave(r)
      BY <2>2, <3>3 DEF CallbackSave, SyncStages
    <3>4. CASE CallbackDrop(r) \/ SyncEnqueue(r)
      BY <2>1, <3>4 DEF CallbackDrop, SyncEnqueue, Done, SyncStages
    <3>5. CASE SyncMark(r)
      BY <2>2, <3>5 DEF SyncMark
    <3> QED BY <2>3, <3>1, <3>2, <3>3, <3>4, <3>5 DEF Continue
  <2>4. ASSUME NEW r \in Reqs, NEW f \in Flows, NEW c \in Conns, CallbackRead(r, f, c)
        PROVE  HasARow(req[q].conn)'
    <3> DEFINE next == [Idle EXCEPT !.pc = "got", !.flow = f, !.conn = c]
    <3>1. next.pc = "got" /\ req' = [req EXCEPT ![r] = next]
      BY <2>4 DEF CallbackRead, Idle
    <3> HIDE DEF next
    <3> QED BY <2>1, <3>1 DEF SyncStages
  <2>5. ASSUME NEW r \in Reqs, NEW c \in Conns, NEW j \in Jobs, SyncRead(r, c, j)
        PROVE  HasARow(req[q].conn)'
    <3>1. req'[r].conn = c /\ \A p \in Reqs \ {r} : req'[p] = req[p]
      BY <2>5 DEF SyncRead, Idle, BaseInv, TypeOK
    <3>2. HasARow(c)
      BY <2>5 DEF SyncRead, HasARow, Connected
    <3> QED BY <1>2, <1>r, <2>s, <3>1, <3>2
  <2>6. ASSUME NEW r \in Reqs, Abort(r) PROVE HasARow(req[q].conn)'
    BY <2>1, <2>6 DEF Abort, Done, SyncStages
  <2>7. ASSUME NEW w \in Workers, Work(w) \/ WorkerDies(w) \/ MarkErrorFails(w)
        PROVE  UNCHANGED req
    BY <2>7 DEF Work, Load, Fetch, Store, Finish, SyncFails, MarkError, WorkerDies, MarkErrorFails
  <2>8. ASSUME \/ \E f \in Flows : StartOAuth(f) \/ ExpireState(f)
               \/ \E j \in Jobs : LoadFails(j)
               \/ \E c \in Conns : Revoke(c) \/ Edit(c)
               \/ SkipOnboarding \/ \E s \in Onboarding : MbtiWrites(s)
               \/ UNCHANGED vars
        PROVE  UNCHANGED req
    BY <2>8 DEF StartOAuth, ExpireState, LoadFails, Revoke, Edit, SkipOnboarding, MbtiWrites, vars
  <2> QED BY <2>s, <2>3, <2>4, <2>5, <2>6, <2>7, <2>8 DEF Next
<1>3. ASSUME NEW i \in Jobs, job'[i].state = "waiting"
      PROVE  HasARow(job[i].conn)'
  <2>s. ASSUME job'[i] = job[i] PROVE HasARow(job[i].conn)'
    BY <1>3, <1>j, <2>s
  <2>o. ASSUME NEW j, job' = [job EXCEPT ![j] = Over] PROVE HasARow(job[i].conn)'
    BY <1>3, <2>o, <2>s DEF BaseInv, TypeOK
  <2>1. ASSUME NEW r \in Reqs, SyncEnqueue(r) PROVE HasARow(job[i].conn)'
    <3>1. /\ job'[req[r].job].conn = req[r].conn
          /\ \A k \in Jobs \ {req[r].job} : job'[k] = job[k]
      BY <2>1 DEF SyncEnqueue, At, Unused, BaseInv, TypeOK, RequestsAreSound, SyncStages
    <3>2. req[r].conn \in Conns /\ HasARow(req[r].conn)
      BY <2>1 DEF SyncEnqueue, At, SyncsHaveARow, BaseInv, RequestsAreSound, SyncStages
    <3> QED BY <1>3, <1>j, <2>s, <3>1, <3>2
  <2>2. ASSUME NEW w \in Workers, NEW j \in Jobs, Load(w, j) PROVE HasARow(job[i].conn)'
    <3>1. CASE Skipped(job[j].conn)
      BY <2>2, <2>o, <3>1 DEF Load
    <3>2. CASE ~Skipped(job[j].conn)
      BY <1>3, <2>2, <2>s, <3>2, LoadedWorker DEF BaseInv
    <3> QED BY <3>1, <3>2
  <2>3. ASSUME NEW w \in Workers, WorkerDies(w) PROVE HasARow(job[i].conn)'
    <3> DEFINE j == worker[w].job
    <3>1. CASE job' = [job EXCEPT ![j] = Over]
      BY <2>o, <3>1
    <3>2. CASE job' # [job EXCEPT ![j] = Over]
      <4>1. job' = [job EXCEPT ![j].state = "waiting", ![j].stalled = TRUE] /\ Busy(w)
        BY <2>3, <3>2 DEF WorkerDies
      <4>2. /\ j \in Jobs /\ job[j].conn = worker[w].conn /\ worker[w].conn \in Conns
            /\ HasARow(worker[w].conn)
        BY <4>1 DEF BaseInv, WorkersAreSound, SyncsHaveARow
      <4>3. job'[j].conn = job[j].conn /\ \A k \in Jobs \ {j} : job'[k] = job[k]
        BY <4>1, <4>2 DEF BaseInv, TypeOK, Job
      <4> QED BY <1>3, <1>j, <2>s, <4>2, <4>3
    <3> QED BY <3>1, <3>2
  <2>4. ASSUME NEW w \in Workers, Finish(w) \/ MarkError(w) \/ MarkErrorFails(w)
        PROVE  HasARow(job[i].conn)'
    BY <2>4, <2>o DEF Finish, MarkError, MarkErrorFails, Finished
  <2>5. ASSUME NEW j \in Jobs, LoadFails(j) PROVE HasARow(job[i].conn)'
    BY <2>5, <2>o DEF LoadFails
  <2>6. ASSUME NEW r \in Reqs,
               \/ \E f \in Flows, k \in Conns : CallbackRead(r, f, k)
               \/ \E k \in Conns, j \in Jobs : SyncRead(r, k, j)
               \/ CallbackCheck(r) \/ CallbackExchange(r) \/ CallbackSave(r) \/ CallbackDrop(r)
               \/ SyncMark(r) \/ Abort(r)
        PROVE  UNCHANGED job
    BY <2>6 DEF CallbackRead, SyncRead, CallbackCheck, CallbackExchange, CallbackSave,
       CallbackDrop, SyncMark, Abort, stored
  <2>7. ASSUME NEW w \in Workers,
               (\E refreshed \in BOOLEAN : Fetch(w, refreshed)) \/ Store(w) \/ SyncFails(w)
        PROVE  UNCHANGED job
    BY <2>7 DEF Fetch, Store, SyncFails, stored
  <2>8. ASSUME \/ \E f \in Flows : StartOAuth(f) \/ ExpireState(f)
               \/ \E k \in Conns : Revoke(k) \/ Edit(k)
               \/ SkipOnboarding \/ \E s \in Onboarding : MbtiWrites(s)
               \/ UNCHANGED vars
        PROVE  UNCHANGED job
    BY <2>8 DEF StartOAuth, ExpireState, Revoke, Edit, SkipOnboarding, MbtiWrites, stored, vars
  <2> QED
    BY <2>s, <2>1, <2>2, <2>3, <2>4, <2>5, <2>6, <2>7, <2>8 DEF Next, Continue, Work
<1>4. ASSUME NEW v \in Workers, Busy(v)'
      PROVE  HasARow(worker[v].conn)'
  <2>s. ASSUME worker'[v] = worker[v] PROVE HasARow(worker[v].conn)'
    BY <1>4, <1>w, <2>s DEF Busy
  <2>f. ASSUME NEW w \in Workers, worker' = [worker EXCEPT ![w] = Free]
        PROVE  HasARow(worker[v].conn)'
    BY <1>4, <2>f, <2>s DEF Busy, BaseInv, TypeOK
  <2>g. ASSUME NEW w \in Workers, Busy(w), worker'[w].conn = worker[w].conn,
               \A u \in Workers \ {w} : worker'[u] = worker[u]
        PROVE  HasARow(worker[v].conn)'
    BY <1>4, <1>w, <2>g, <2>s
  <2>1. ASSUME NEW w \in Workers, NEW j \in Jobs, Load(w, j) PROVE HasARow(worker[v].conn)'
    <3>1. CASE Skipped(job[j].conn)
      BY <2>1, <2>s, <3>1 DEF Load, Skipped
    <3>2. CASE ~Skipped(job[j].conn)
      <4>1. job[j].conn \in Conns /\ HasARow(job[j].conn)
        BY <2>1 DEF Load, SyncsHaveARow, BaseInv, WorkersAreSound
      <4> QED BY <1>4, <1>w, <2>1, <2>s, <3>2, <4>1, LoadedWorker DEF BaseInv
    <3> QED BY <3>1, <3>2
  <2>2. ASSUME NEW w \in Workers, \E refreshed \in BOOLEAN : Fetch(w, refreshed)
        PROVE  HasARow(worker[v].conn)'
    BY <2>2, <2>g DEF Fetch, WAt, Busy, BaseInv, TypeOK, WorkerSlot
  <2>3. ASSUME NEW w \in Workers, Store(w) \/ SyncFails(w) PROVE HasARow(worker[v].conn)'
    BY <2>3, <2>g DEF Store, SyncFails, WAt, Busy, BaseInv, TypeOK, WorkerSlot
  <2>4. ASSUME NEW w \in Workers,
               Finish(w) \/ MarkError(w) \/ WorkerDies(w) \/ MarkErrorFails(w)
        PROVE  HasARow(worker[v].conn)'
    BY <2>4, <2>f DEF Finish, MarkError, WorkerDies, MarkErrorFails, Finished
  <2>5. ASSUME NEW r \in Reqs,
               \/ \E f \in Flows, k \in Conns : CallbackRead(r, f, k)
               \/ \E k \in Conns, j \in Jobs : SyncRead(r, k, j)
               \/ Continue(r) \/ Abort(r)
        PROVE  UNCHANGED worker
    BY <2>5 DEF CallbackRead, SyncRead, Continue, CallbackCheck, CallbackExchange, CallbackSave,
       CallbackDrop, SyncMark, SyncEnqueue, Abort
  <2>6. ASSUME \/ \E f \in Flows : StartOAuth(f) \/ ExpireState(f)
               \/ \E j \in Jobs : LoadFails(j)
               \/ \E k \in Conns : Revoke(k) \/ Edit(k)
               \/ SkipOnboarding \/ \E s \in Onboarding : MbtiWrites(s)
               \/ UNCHANGED vars
        PROVE  UNCHANGED worker
    BY <2>6 DEF StartOAuth, ExpireState, LoadFails, Revoke, Edit, SkipOnboarding, MbtiWrites, vars
  <2> QED
    BY <2>s, <2>1, <2>2, <2>3, <2>4, <2>5, <2>6 DEF Next, Work
<1> QED
  BY <1>2, <1>3, <1>4 DEF SyncsHaveARow, HasARow, Busy

-----------------------------------------------------------------------------
(* The life of a connection.  A step shows in it by the row, by the          *)
(* requests that have yet to mark it, or by the workers at it.               *)
Lives(c) == [Lifecycle(c)!LifecycleNext]_(Lifecycle(c)!lifecycleVars)
RowStays(c) == Standing(c)' = Standing(c) /\ conn'[c].creds = conn[c].creds

LEMMA Stutters ==
  ASSUME NEW c \in Conns, RowStays(c), Asking(c)' = Asking(c), Held(c)' = Held(c)
  PROVE  Lives(c)
BY DEF Lives, RowStays, Lifecycle!lifecycleVars

LEMMA RowsStay ==
  ASSUME NEW c \in Conns, conn'[c] = conn[c]
  PROVE  RowStays(c)
BY DEF RowStays, Standing, Revoked

LEMMA AskingStays ==
  ASSUME NEW c \in Conns, NEW r \in Reqs, \A q \in Reqs \ {r} : req'[q] = req[q],
         At(r, "syncRead")' /\ req'[r].conn = c <=> At(r, "syncRead") /\ req[r].conn = c
  PROVE  Asking(c)' = Asking(c)
<1>1. Asking(c)' <=> Asking(c)
  BY DEF Asking, At
<1> QED BY <1>1 DEF Asking

(* A worker that goes on holds what it held.                                 *)
LEMMA HeldStays ==
  ASSUME NEW c \in Conns, NEW w \in Workers, \A v \in Workers \ {w} : worker'[v] = worker[v],
         worker'[w].conn = worker[w].conn, worker'[w].creds = worker[w].creds
  PROVE  Held(c)' = Held(c)
BY DEF Held

(* One that is done no longer holds it, though another may.                  *)
LEMMA HeldEnds ==
  ASSUME BaseInv, NEW c \in Conns, NEW w \in Workers, worker' = [worker EXCEPT ![w] = Free]
  PROVE  /\ worker[w].conn # c => Held(c)' = Held(c)
         /\ worker[w].conn = c =>
              /\ worker[w].creds \in Held(c)
              /\ Held(c)' \in {Held(c), Held(c) \ {worker[w].creds}}
<1>1. worker'[w] = Free /\ \A v \in Workers \ {w} : worker'[v] = worker[v]
  BY DEF BaseInv, TypeOK
<1>2. Free.conn # c
  BY EmptyRecords, CalendarAssumption
<1>3. CASE worker[w].conn # c
  BY <1>1, <1>2, <1>3 DEF Held
<1>4. CASE worker[w].conn = c
  <2>1. worker[w].creds \in Held(c)
    BY <1>4 DEF Held
  <2>2. Held(c)' = {worker[v].creds : v \in {u \in Workers \ {w} : worker[u].conn = c}}
    BY <1>1, <1>2 DEF Held
  <2>3. Held(c) = Held(c)' \cup {worker[w].creds}
    BY <1>4, <2>2 DEF Held
  <2> QED BY <1>4, <2>1, <2>3
<1> QED BY <1>3, <1>4

(* Steps of requests.                                                        *)
LEMMA RequestLives ==
  ASSUME BaseInv, GrantsAreHeld, NEW c \in Conns, NEW r \in Reqs,
         \/ \E f \in Flows, k \in Conns : CallbackRead(r, f, k)
         \/ \E k \in Conns, j \in Jobs : SyncRead(r, k, j)
         \/ Continue(r) \/ Abort(r)
  PROVE  Lives(c)
<1> USE EmptyRecords
<1>t. req[r] \in Request /\ DOMAIN req = Reqs
  BY DEF BaseInv, TypeOK
<1>g. ASSUME NEW pc, Goto(r, pc)
      PROVE  /\ req'[r].pc = pc /\ req'[r].conn = req[r].conn
             /\ \A q \in Reqs \ {r} : req'[q] = req[q]
  BY <1>t, <1>g DEF Goto, Request
<1>d. ASSUME Done(r)
      PROVE  req'[r] = Idle /\ \A q \in Reqs \ {r} : req'[q] = req[q]
  BY <1>t, <1>d DEF Done
<1>w. ASSUME UNCHANGED worker PROVE Held(c)' = Held(c)
  BY <1>w DEF Held
<1>1. ASSUME NEW f \in Flows, NEW k \in Conns, CallbackRead(r, f, k) PROVE Lives(c)
  <2> DEFINE next == [Idle EXCEPT !.pc = "got", !.flow = f, !.conn = k]
  <2>1. next.pc = "got" /\ req'[r] = next /\ \A q \in Reqs \ {r} : req'[q] = req[q]
    BY <1>1, <1>t DEF CallbackRead, Idle
  <2>2. At(r, "idle") /\ UNCHANGED <<conn, worker>>
    BY <1>1 DEF CallbackRead, stored
  <2> HIDE DEF next
  <2>3. ~At(r, "syncRead") /\ ~At(r, "syncRead")'
    BY <2>1, <2>2 DEF At
  <2> QED BY <1>w, <2>1, <2>2, <2>3, Stutters, RowsStay, AskingStays
<1>2. ASSUME NEW k \in Conns, NEW j \in Jobs, SyncRead(r, k, j) PROVE Lives(c)
  <2> DEFINE next == [Idle EXCEPT !.pc = "syncRead", !.conn = k, !.job = j, !.asked = provider[k]]
  <2>1. /\ next.pc = "syncRead" /\ next.conn = k /\ req'[r] = next
        /\ \A q \in Reqs \ {r} : req'[q] = req[q]
    BY <1>2, <1>t DEF SyncRead, Idle
  <2>2. At(r, "idle") /\ conn[k].status \in Connected /\ UNCHANGED <<conn, worker>>
    BY <1>2 DEF SyncRead, stored
  <2> HIDE DEF next
  <2>3. CASE k # c
    BY <1>w, <2>1, <2>2, <2>3, Stutters, RowsStay, AskingStays DEF At
  <2>4. CASE k = c
    <3>1. Asking(c)'
      BY <2>1, <2>4 DEF Asking, At
    <3>2. Standing(c) = "connected"
      BY <2>2, <2>4 DEF Standing, Revoked, Connected
    <3>3. Lifecycle(c)!Ask
      BY <1>w, <2>2, <3>1, <3>2, RowsStay DEF Lifecycle!Ask, RowStays
    <3> QED BY <3>3 DEF Lives, Lifecycle!LifecycleNext
  <2> QED BY <2>3, <2>4
<1>3. CASE CallbackCheck(r)
  <2>1. /\ UNCHANGED <<conn, worker>> /\ At(r, "got")
        /\ Goto(r, "drop") \/ Goto(r, "ready")
    BY <1>3 DEF CallbackCheck, stored
  <2>2. req'[r].pc \in {"drop", "ready"} /\ \A q \in Reqs \ {r} : req'[q] = req[q]
    BY <1>g, <2>1
  <2> QED BY <1>w, <2>1, <2>2, Stutters, RowsStay, AskingStays DEF At
<1>4. CASE CallbackExchange(r)
  <2>1. UNCHANGED <<conn, worker>> /\ At(r, "ready")
    BY <1>4 DEF CallbackExchange, stored
  <2>2. req'[r].pc \in {"drop", "exchanged"} /\ \A q \in Reqs \ {r} : req'[q] = req[q]
    BY <1>4, <1>t DEF CallbackExchange, Goto, Request
  <2> QED BY <1>w, <2>1, <2>2, Stutters, RowsStay, AskingStays DEF At
<1>5. CASE CallbackSave(r)
  <2>1. /\ UNCHANGED worker /\ At(r, "exchanged") /\ Goto(r, "drop")
        /\ conn' = [conn EXCEPT ![req[r].conn] = SavedRow(r, conn[req[r].conn])]
    BY <1>5 DEF CallbackSave
  <2>2. Asking(c)' = Asking(c)
    BY <1>g, <2>1, AskingStays DEF At
  <2>3. CASE req[r].conn # c
    BY <1>w, <2>1, <2>2, <2>3, Stutters, RowsStay DEF BaseInv, TypeOK
  <2>4. CASE req[r].conn = c
    <3>1. conn'[c] = [status |-> "ACTIVE", creds |-> req[r].grant]
      BY <2>1, <2>4 DEF SavedRow, BaseInv, TypeOK
    <3>2. Standing(c)' = "connected" /\ conn'[c].creds = req[r].grant
      BY <3>1 DEF Standing, Revoked
    <3>3. PICK grant \in Grants : grant = req[r].grant
      BY <2>1 DEF GrantsAreHeld
    <3>4. Lifecycle(c)!Connect(grant)
      BY <1>w, <2>1, <2>2, <3>2, <3>3 DEF Lifecycle!Connect, Lifecycle!Become
    <3>5. \E g \in Grants : Lifecycle(c)!Connect(g)
      BY <3>4
    <3> QED BY <3>5 DEF Lives, Lifecycle!LifecycleNext
  <2> QED BY <2>3, <2>4
<1>6. CASE CallbackDrop(r)
  <2>1. UNCHANGED <<conn, worker>> /\ At(r, "drop") /\ Done(r)
    BY <1>6 DEF CallbackDrop
  <2> QED BY <1>d, <1>w, <2>1, Stutters, RowsStay, AskingStays DEF At
<1>7. CASE SyncMark(r)
  <2>1. /\ UNCHANGED worker /\ At(r, "syncRead") /\ Goto(r, "marked")
        /\ conn' = [conn EXCEPT ![req[r].conn] = MarkedRow(conn[req[r].conn])]
    BY <1>7 DEF SyncMark
  <2>2. CASE req[r].conn # c
    BY <1>g, <1>w, <2>1, <2>2, Stutters, RowsStay, AskingStays DEF BaseInv, TypeOK, At
  <2>3. CASE req[r].conn = c
    <3>1. conn'[c] = [conn[c] EXCEPT !.status = "SYNCING"] /\ conn[c] \in Row
      BY <2>1, <2>3 DEF MarkedRow, BaseInv, TypeOK
    <3>2. Standing(c)' = "connected" /\ conn'[c].creds = conn[c].creds
      BY <3>1 DEF Standing, Revoked, Row
    <3>3. Asking(c) /\ Asking(c)' \in BOOLEAN
      BY <2>1, <2>3 DEF Asking
    <3>4. Lifecycle(c)!Answer
      BY <1>w, <2>1, <3>2, <3>3 DEF Lifecycle!Answer, Lifecycle!Become
    <3> QED BY <3>4 DEF Lives, Lifecycle!LifecycleNext
  <2> QED BY <2>2, <2>3
<1>8. CASE SyncEnqueue(r)
  <2>1. UNCHANGED <<conn, worker>> /\ At(r, "marked") /\ Done(r)
    BY <1>8 DEF SyncEnqueue
  <2> QED BY <1>d, <1>w, <2>1, Stutters, RowsStay, AskingStays DEF At
<1>9. CASE Abort(r)
  <2>1. UNCHANGED <<conn, worker>> /\ Done(r)
    BY <1>9 DEF Abort, stored
  <2>2. CASE ~(At(r, "syncRead") /\ req[r].conn = c)
    BY <1>d, <1>w, <2>1, <2>2, Stutters, RowsStay, AskingStays DEF At
  <2>3. CASE At(r, "syncRead") /\ req[r].conn = c
    <3>1. Asking(c) /\ Asking(c)' \in BOOLEAN
      BY <2>3 DEF Asking
    <3>2. Lifecycle(c)!Answer
      BY <1>w, <2>1, <3>1, RowsStay DEF Lifecycle!Answer, RowStays
    <3> QED BY <3>2 DEF Lives, Lifecycle!LifecycleNext
  <2> QED BY <2>2, <2>3
<1> QED BY <1>1, <1>2, <1>3, <1>4, <1>5, <1>6, <1>7, <1>8, <1>9 DEF Continue

(* Steps of workers.                                                         *)
LEMMA WorkerLives ==
  ASSUME BaseInv, SyncsHaveARow, NEW c \in Conns, NEW w \in Workers,
         Work(w) \/ WorkerDies(w) \/ MarkErrorFails(w)
  PROVE  Lives(c)
<1> USE EmptyRecords
<1>t. worker[w] \in WorkerSlot /\ DOMAIN worker = Workers /\ DOMAIN conn = Conns
  BY DEF BaseInv, TypeOK
<1>a. ASSUME UNCHANGED req PROVE Asking(c)' = Asking(c)
  BY <1>a DEF Asking, At
<1>b. Busy(w) => worker[w].conn \in Conns
  BY DEF BaseInv, WorkersAreSound
<1>1. ASSUME NEW j \in Jobs, Load(w, j) PROVE Lives(c)
  <2> DEFINE k == job[j].conn
  <2>1. UNCHANGED <<conn, req>> /\ job[j].state = "waiting" /\ ~Busy(w)
    BY <1>1 DEF Load
  <2>2. CASE Skipped(k)
    <3>1. UNCHANGED worker
      BY <1>1, <2>2 DEF Load
    <3>2. Held(c)' = Held(c)
      BY <3>1 DEF Held
    <3> QED BY <1>a, <2>1, <3>2, Stutters, RowsStay
  <2>3. CASE ~Skipped(k)
    <3>1. /\ worker'[w].conn = k /\ worker'[w].creds = conn[k].creds
          /\ \A v \in Workers \ {w} : worker'[v] = worker[v]
      BY <1>1, <2>3, LoadedWorker DEF BaseInv
    <3>2. worker[w].conn = NoConn
      BY <2>1 DEF BaseInv, WorkersAreSound, WAt, Busy
    <3>3. CASE k # c
      <4>1. Held(c)' = Held(c)
        BY <3>1, <3>2, <3>3, CalendarAssumption DEF Held
      <4> QED BY <1>a, <2>1, <4>1, Stutters, RowsStay
    <3>4. CASE k = c
      <4>1. Held(c)' = Held(c) \cup {conn[c].creds}
        BY <3>1, <3>2, <3>4, CalendarAssumption DEF Held
      <4>2. conn[c].status # "none"
        BY <2>1, <3>4 DEF SyncsHaveARow, HasARow
      <4>3. Standing(c) = "connected"
        BY <2>3, <3>4, <4>2 DEF Standing, Skipped
      <4>4. Lifecycle(c)!TakeUp
        BY <1>a, <2>1, <4>1, <4>3, RowsStay DEF Lifecycle!TakeUp, RowStays
      <4> QED BY <4>4 DEF Lives, Lifecycle!LifecycleNext
    <3> QED BY <3>3, <3>4
  <2> QED BY <2>2, <2>3
<1>2. ASSUME UNCHANGED <<conn, req>>, \A v \in Workers \ {w} : worker'[v] = worker[v],
             worker'[w].conn = worker[w].conn, worker'[w].creds = worker[w].creds
      PROVE  Lives(c)
  BY <1>2, <1>a, Stutters, RowsStay, HeldStays
<1>3. ASSUME NEW refreshed \in BOOLEAN, Fetch(w, refreshed) PROVE Lives(c)
  BY <1>2, <1>3, <1>t DEF Fetch, stored, WorkerSlot
<1>4. CASE Store(w)
  BY <1>2, <1>4, <1>t DEF Store, WorkerSlot
<1>5. CASE SyncFails(w)
  BY <1>2, <1>5, <1>t DEF SyncFails, WorkerSlot
<1>6. ASSUME Busy(w), worker' = [worker EXCEPT ![w] = Free], UNCHANGED req,
             \A k \in Conns \ {worker[w].conn} : conn'[k] = conn[k],
             worker[w].conn = c =>
               \/ conn'[c] = conn[c]
               \/ Standing(c)' = "connected" /\ conn'[c].creds \in {conn[c].creds, worker[w].creds}
      PROVE  Lives(c)
  <2>1. CASE worker[w].conn # c
    BY <1>6, <1>a, <2>1, HeldEnds, Stutters, RowsStay
  <2>2. CASE worker[w].conn = c
    <3>1. /\ worker[w].creds \in Held(c)
          /\ Held(c)' \in {Held(c), Held(c) \ {worker[w].creds}}
      BY <1>6, <2>2, HeldEnds
    <3>2. PICK grant \in Held(c) : grant = worker[w].creds
      BY <3>1
    <3>3. Lifecycle(c)!Settle(grant)
      BY <1>6, <1>a, <2>2, <3>1, <3>2, RowsStay DEF Lifecycle!Settle, Lifecycle!Become, RowStays
    <3>4. \E g \in Held(c) : Lifecycle(c)!Settle(g)
      BY <3>3
    <3> QED BY <3>4 DEF Lives, Lifecycle!LifecycleNext
  <2> QED BY <2>1, <2>2
<1>7. CASE Finish(w)
  <2>1. /\ Busy(w) /\ worker' = [worker EXCEPT ![w] = Free] /\ UNCHANGED req
        /\ conn' = [conn EXCEPT ![worker[w].conn] = SyncedRow(w, conn[worker[w].conn])]
    BY <1>7 DEF Finish, Finished, WAt, Busy
  <2>2. ASSUME worker[w].conn = c
        PROVE  Standing(c)' = "connected" /\ conn'[c].creds \in {conn[c].creds, worker[w].creds}
    <3>1. conn'[c] = SyncedRow(w, conn[c]) /\ conn[c] \in Row
      BY <2>1, <2>2, <1>t DEF BaseInv, TypeOK
    <3>2. conn'[c].status = "ACTIVE" /\ conn'[c].creds \in {conn[c].creds, worker[w].creds}
      BY <3>1 DEF SyncedRow, Row
    <3> QED BY <3>2 DEF Standing, Revoked
  <2> QED BY <1>6, <1>t, <2>1, <2>2
<1>8. CASE MarkError(w)
  <2>1. /\ Busy(w) /\ worker' = [worker EXCEPT ![w] = Free] /\ UNCHANGED req
        /\ conn' = [conn EXCEPT ![worker[w].conn].status = "ERROR"]
    BY <1>8 DEF MarkError, Finished, WAt, Busy
  <2>2. ASSUME worker[w].conn = c
        PROVE  Standing(c)' = "connected" /\ conn'[c].creds \in {conn[c].creds, worker[w].creds}
    <3>1. conn'[c] = [conn[c] EXCEPT !.status = "ERROR"] /\ conn[c] \in Row
      BY <2>1, <2>2, <1>t DEF BaseInv, TypeOK
    <3>2. conn'[c].status = "ERROR" /\ conn'[c].creds = conn[c].creds
      BY <3>1 DEF Row
    <3> QED BY <3>2 DEF Standing, Revoked
  <2> QED BY <1>6, <1>t, <2>1, <2>2
<1>9. CASE WorkerDies(w)
  BY <1>6, <1>9 DEF WorkerDies
<1>10. CASE MarkErrorFails(w)
  BY <1>6, <1>10 DEF MarkErrorFails, Finished, WAt, Busy
<1> QED BY <1>1, <1>3, <1>4, <1>5, <1>7, <1>8, <1>9, <1>10 DEF Work

(* Each connection lives the life that ConnectionLifecycle promises.         *)
THEOREM Implementation == Spec => ImplementsLifecycle
<1>1. Init => \A c \in Conns : Lifecycle(c)!LifecycleInit
  <2> SUFFICES ASSUME Init, NEW c \in Conns PROVE Lifecycle(c)!LifecycleInit
    OBVIOUS
  <2>1. conn[c].status = "none" /\ conn[c].creds = NoGrant
    BY DEF Init, NoRow
  <2>2. ~Asking(c)
    BY EmptyRecords DEF Init, Asking, At
  <2>3. Held(c) = {}
    BY EmptyRecords, CalendarAssumption DEF Init, Held
  <2> QED BY <2>1, <2>2, <2>3 DEF Lifecycle!LifecycleInit, Standing
<1>2. Init => GrantsAreHeld /\ SyncsHaveARow
  <2>1. Init => GrantsAreHeld
    BY EmptyRecords DEF Init, GrantsAreHeld, At
  <2>2. Init => SyncsHaveARow
    BY EmptyRecords DEF Init, SyncsHaveARow, SyncStages, Busy
  <2> QED BY <2>1, <2>2
<1>3. IInv /\ GrantsAreHeld /\ SyncsHaveARow /\ [Next]_vars => [\A c \in Conns : Lives(c)]_vars
  <2> SUFFICES ASSUME IInv, GrantsAreHeld, SyncsHaveARow, Next, NEW c \in Conns PROVE Lives(c)
    BY DEF Lives
  <2>1. BaseInv
    BY DEF IInv
  <2>2. ASSUME RowStays(c), UNCHANGED <<req, worker>> PROVE Lives(c)
    <3>1. Asking(c)' = Asking(c) /\ Held(c)' = Held(c)
      BY <2>2 DEF Asking, Held, At
    <3> QED BY <2>2, <3>1, Stutters
  <2>3. ASSUME NEW k \in Conns, Revoke(k) PROVE Lives(c)
    <3>1. /\ UNCHANGED <<req, worker>> /\ conn[k].status # "none"
          /\ conn' = [conn EXCEPT ![k] = RevokedRow(conn[k])]
      BY <2>3 DEF Revoke
    <3>2. CASE k # c
      BY <2>1, <2>2, <3>1, <3>2, RowsStay DEF BaseInv, TypeOK
    <3>3. CASE k = c
      <4>1. conn'[c] = [status |-> "REVOKED", creds |-> NoGrant]
        BY <2>1, <3>1, <3>3 DEF RevokedRow, BaseInv, TypeOK
      <4>2. Standing(c) # "absent" /\ Standing(c)' = "revoked" /\ conn'[c].creds = NoGrant
        BY <3>1, <3>3, <4>1 DEF Standing, Revoked
      <4>3. Asking(c)' = Asking(c) /\ Held(c)' = Held(c)
        BY <3>1 DEF Asking, Held, At
      <4>4. Lifecycle(c)!Revoke
        BY <4>2, <4>3 DEF Lifecycle!Revoke, Lifecycle!Become
      <4> QED BY <4>4 DEF Lives, Lifecycle!LifecycleNext
    <3> QED BY <3>2, <3>3
  <2>4. ASSUME \/ \E f \in Flows : StartOAuth(f) \/ ExpireState(f)
               \/ \E j \in Jobs : LoadFails(j)
               \/ \E k \in Conns : Edit(k)
               \/ SkipOnboarding \/ \E s \in Onboarding : MbtiWrites(s)
        PROVE  UNCHANGED <<conn, req, worker>>
    BY <2>4 DEF StartOAuth, ExpireState, LoadFails, Edit, SkipOnboarding, MbtiWrites, stored
  <2>5. ASSUME UNCHANGED <<conn, req, worker>> PROVE Lives(c)
    BY <2>2, <2>5, RowsStay
  <2> QED BY <2>1, <2>3, <2>4, <2>5, RequestLives, WorkerLives DEF Next
<1>4. IInv /\ GrantsAreHeld /\ SyncsHaveARow /\ [Next]_vars => (GrantsAreHeld /\ SyncsHaveARow)'
  BY GrantsStay, RowsCarryOver DEF IInv
<1> QED
  BY InductiveInvariant, <1>1, <1>2, <1>3, <1>4, PTL DEF Spec, ImplementsLifecycle, Lives
=============================================================================
