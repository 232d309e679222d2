--------------------------- MODULE RemindersProofs ---------------------------
(***************************************************************************)
(* The reminders, for every number of tasks, processes and minutes.        *)
(*                                                                         *)
(* Why a reminder is not sent twice without an excuse: one that was sent is *)
(* marked, or lost its mark, or a process is about to mark it; and two     *)
(* processes that passed the check of one reminder know of each other.     *)
(***************************************************************************)
EXTENDS Reminders, TLAPS

Process == [pc : {"idle", "loop", "check", "send", "mark"}, rows : [Tasks -> Row],
            todo : SUBSET Tasks, task : Tasks \cup {NoTask}]
Busy == {"check", "send", "mark"}
Excused == expired \cup unmarked \cup contended

\* A process is at a task of its snapshot whose reminder is set, and so are
\* those it has left.
Sound(p) ==
  /\ p \in Process
  /\ \A t \in p.todo : p.rows[t].at \in Times
  /\ p.pc \in Busy => p.task \in Tasks /\ p.rows[p.task].at \in Times

At2(w) == worker[w].pc \in {"send", "mark"}

\* What was sent is remembered, or its mark is on the way.
SentIsMarked ==
  \A x \in sent : \/ Marked(x) \/ x \in Excused
                  \/ \E w \in Workers : At(w, "mark") /\ Current(w) = x

\* Two processes past the check of one reminder.
RivalsAreNoted ==
  \A v, w \in Workers : v # w /\ At2(v) /\ At2(w) /\ Current(v) = Current(w) => Current(w) \in Excused

\* A process about to send what was sent is excused.
SendingIsExcused ==
  \A w \in Workers : At(w, "send") /\ Current(w) \in sent => Current(w) \in Excused

ProcessesAreSound == \A w \in Workers : Sound(worker[w])

IInv ==
  /\ TypeOK /\ ProcessesAreSound
  /\ SentIsMarked /\ RivalsAreNoted /\ SendingIsExcused
  /\ SentOnceUnlessExcused

(* A process with nothing to do.                                            *)
LEMMA BlankIsSound == Sound(Blank) /\ Blank.pc = "idle"
<1>1. Blank \in Process
  BY DEF Blank, Process, Row
<1> QED BY <1>1 DEF Sound, Blank, Busy

(* The reminder of a busy process.                                          *)
LEMMA CurrentIsReminder ==
  ASSUME ProcessesAreSound, NEW w \in Workers, worker[w].pc \in Busy
  PROVE  Current(w) \in Reminder
BY DEF ProcessesAreSound, Sound, Current, Reminder

(* A process that goes on keeps its snapshot and is past nothing.           *)
LEMMA ContinueFacts ==
  ASSUME TypeOK, ProcessesAreSound, NEW w \in Workers, Continue(w)
  PROVE  /\ worker' = [worker EXCEPT ![w] = worker'[w]]
         /\ Sound(worker'[w]) /\ worker'[w].pc \in {"idle", "loop"}
<1> DEFINE next == [worker[w] EXCEPT !.pc = "loop", !.task = NoTask]
<1>1. Sound(worker[w]) /\ worker[w] \in Process
  BY DEF ProcessesAreSound, Sound
<1>2. /\ next \in Process /\ next.pc = "loop" /\ next.todo = worker[w].todo
      /\ next.rows = worker[w].rows
  BY <1>1 DEF Process
<1>3. Sound(next)
  BY <1>1, <1>2 DEF Sound, Busy
<1> HIDE DEF next
<1>4. worker' = [worker EXCEPT ![w] = IF worker[w].todo = {} THEN Blank ELSE next]
  BY DEF Continue, next
<1>5. worker'[w] \in {Blank, next}
  BY <1>4 DEF TypeOK
<1> QED BY <1>2, <1>3, <1>4, <1>5, BlankIsSound DEF TypeOK

(* A process dies, its job fails, or it goes on to something before the     *)
(* check: the rest keeps what it knew.                                      *)
LEMMA Leaves ==
  ASSUME IInv, NEW w \in Workers,
         worker' = [worker EXCEPT ![w] = worker'[w]],
         Sound(worker'[w]), worker'[w].pc \in {"idle", "loop", "check"},
         \A x : Marked(x) => Marked(x)' \/ x \in Excused',
         Excused \subseteq Excused', sent' = sent, again' = again,
         \A x : At(w, "mark") /\ x = Current(w) => Marked(x)' \/ x \in Excused'
  PROVE  ProcessesAreSound' /\ SentIsMarked' /\ RivalsAreNoted' /\ SendingIsExcused'
         /\ SentOnceUnlessExcused'
<1> USE DEF IInv
<1>0. worker \in [Workers -> Process]
  BY DEF TypeOK, Process
<1>1. \A v \in Workers : v # w => worker'[v] = worker[v] /\ Current(v)' = Current(v)
  BY <1>0 DEF Current
<1>2. ProcessesAreSound'
  BY <1>1 DEF ProcessesAreSound
<1>3. SentIsMarked'
  <2> SUFFICES ASSUME NEW x \in sent
               PROVE  \/ Marked(x)' \/ x \in Excused'
                      \/ \E v \in Workers : At(v, "mark")' /\ Current(v)' = x
    BY DEF SentIsMarked
  <2>1. CASE Marked(x) \/ x \in Excused
    BY <2>1
  <2>2. ASSUME NEW v \in Workers, At(v, "mark"), Current(v) = x, v # w
        PROVE  At(v, "mark")' /\ Current(v)' = x
    BY <1>1, <2>2 DEF At
  <2>3. ASSUME At(w, "mark"), Current(w) = x
        PROVE  Marked(x)' \/ x \in Excused'
    BY <2>3
  <2> QED BY <2>1, <2>2, <2>3 DEF SentIsMarked
<1>4. RivalsAreNoted'
  BY <1>1 DEF RivalsAreNoted, At2
<1>5. SendingIsExcused'
  BY <1>1 DEF SendingIsExcused, At
<1>6. SentOnceUnlessExcused'
  BY DEF SentOnceUnlessExcused, Excused
<1> QED BY <1>2, <1>3, <1>4, <1>5, <1>6

(* The processes have the type of TypeOK.                                   *)
LEMMA SoundIsTyped ==
  ASSUME TypeOK, ProcessesAreSound', NEW w \in Workers,
         worker' = [worker EXCEPT ![w] = worker'[w]]
  PROVE  worker' \in [Workers -> Process]
BY DEF TypeOK, ProcessesAreSound, Sound, Process

LEMMA InitHolds == Init => IInv
<1> SUFFICES ASSUME Init PROVE IInv
  OBVIOUS
<1> USE RemindersAssumption DEF Init
<1>1. TypeOK
  <2>1. worker \in [Workers -> Process]
    BY BlankIsSound DEF Sound
  <2>2. now \in 0 .. MaxTime /\ edits \in 0 .. MaxEdits /\ crashes \in 0 .. MaxCrashes
    OBVIOUS
  <2>3. tasks \in [Tasks -> Row]
    BY DEF Row
  <2> QED BY <2>1, <2>2, <2>3 DEF TypeOK, Process
<1>2. ProcessesAreSound /\ \A w \in Workers : worker[w].pc = "idle"
  BY BlankIsSound DEF ProcessesAreSound
<1> QED
  BY <1>1, <1>2 DEF IInv, SentIsMarked, RivalsAreNoted, SendingIsExcused,
                    SentOnceUnlessExcused, At2, At

(* A step of the clients, the clock or the queue.                           *)
LEMMA OutsideStep ==
  ASSUME IInv, worker' = worker, sent' = sent, again' = again, TypeOK',
         \A x : Marked(x) => Marked(x)' \/ x \in Excused',
         Excused \subseteq Excused'
  PROVE  IInv'
<1> USE DEF IInv
<1>1. \A v : Current(v)' = Current(v)
  BY DEF Current
<1>2. ProcessesAreSound'
  BY DEF ProcessesAreSound
<1>3. SentIsMarked'
  BY <1>1 DEF SentIsMarked, At
<1>4. RivalsAreNoted' /\ SendingIsExcused'
  BY <1>1 DEF RivalsAreNoted, SendingIsExcused, At2, At
<1>5. SentOnceUnlessExcused'
  BY DEF SentOnceUnlessExcused, Excused
<1> QED BY <1>2, <1>3, <1>4, <1>5

LEMMA StepHolds == IInv /\ [Next]_vars => IInv'
<1> SUFFICES ASSUME IInv, [Next]_vars PROVE IInv'
  OBVIOUS
<1> USE RemindersAssumption
<1>t. TypeOK /\ ProcessesAreSound
  BY DEF IInv
<1>s. worker \in [Workers -> Process] /\ \A w \in Workers : Sound(worker[w])
  BY <1>t DEF TypeOK, ProcessesAreSound, Process
<1>0. CASE UNCHANGED vars
  <2>1. TypeOK'
    BY <1>0, <1>t DEF vars, history, TypeOK
  <2>2. \A x : Marked(x)' = Marked(x)
    BY <1>0 DEF vars, Marked
  <2> QED BY <1>0, <2>1, <2>2, OutsideStep DEF vars, history, Excused
<1>1. ASSUME NEW t \in Tasks, NEW row \in Row, Edit(t, row) PROVE IInv'
  <2>1. TypeOK'
    BY <1>1, <1>t DEF Edit, history, TypeOK
  <2>2. \A x : Marked(x)' = Marked(x)
    BY <1>1 DEF Edit, Marked
  <2> QED BY <1>1, <2>1, <2>2, OutsideStep DEF Edit, history, Excused
<1>2. CASE Tick
  <2> DEFINE gone == {m \in marks : m[2] <= now + 1}
  <2>1. marks' = marks \ gone /\ expired' = expired \cup {m[1] : m \in gone}
    BY <1>2 DEF Tick
  <2>2. gone \subseteq Reminder \X Nat /\ marks' \in SUBSET (Reminder \X Nat)
        /\ expired' \subseteq Reminder
    BY <1>t, <2>1 DEF TypeOK
  <2>3. now' \in 0 .. MaxTime
    BY <1>2, <1>t DEF Tick, TypeOK
  <2>4. TypeOK'
    BY <1>2, <1>t, <2>2, <2>3 DEF Tick, TypeOK
  <2>5. ASSUME NEW x, Marked(x) PROVE Marked(x)' \/ x \in Excused'
    <3>1. PICK m \in marks : m[1] = Key(x)
      BY <2>5 DEF Marked
    <3>2. CASE m \in gone
      <4>1. m[1] \in expired'
        BY <2>1, <3>2
      <4> QED BY <3>1, <4>1 DEF Key, Excused
    <3>3. CASE m \notin gone
      <4>1. m \in marks'
        BY <2>1, <3>1, <3>3
      <4> QED BY <3>1, <4>1 DEF Marked, Key
    <3> QED BY <3>2, <3>3
  <2>6. Excused \subseteq Excused'
    BY <1>2, <2>1 DEF Tick, Excused
  <2> QED BY <1>2, <2>4, <2>5, <2>6, OutsideStep DEF Tick
<1>3. CASE Cron
  <2>1. TypeOK'
    BY <1>3, <1>t DEF Cron, history, TypeOK
  <2>2. \A x : Marked(x)' = Marked(x)
    BY <1>3 DEF Cron, Marked
  <2> QED BY <1>3, <2>1, <2>2, OutsideStep DEF Cron, history, Excused
<1>4. ASSUME NEW w \in Workers, List(w) PROVE IInv'
  <2> DEFINE due == {t \in Tasks : Due(tasks[t])}
             next == [pc |-> "loop", todo |-> due, task |-> NoTask,
                      rows |-> [t \in Tasks |-> IF t \in due THEN tasks[t] ELSE Blank.rows[t]]]
  <2>1. next \in Process
    BY <1>t DEF TypeOK, Process, Blank, Row
  <2>2. \A t \in due : next.rows[t].at \in Times
    BY <1>t DEF TypeOK, Row, Due
  <2>3. Sound(next) /\ next.pc = "loop"
    BY <2>1, <2>2 DEF Sound, Busy
  <2>4. worker' = [worker EXCEPT ![w] = IF due = {} THEN Blank ELSE next]
    BY <1>4 DEF List
  <2> HIDE DEF next, due
  <2>5. /\ worker' = [worker EXCEPT ![w] = worker'[w]]
        /\ Sound(worker'[w]) /\ worker'[w].pc \in {"idle", "loop", "check"}
    BY <1>s, <2>3, <2>4, BlankIsSound
  <2>6. ProcessesAreSound' /\ SentIsMarked' /\ RivalsAreNoted' /\ SendingIsExcused'
        /\ SentOnceUnlessExcused'
    <3>1. ~At(w, "mark")
      BY <1>4 DEF List, At
    <3>2. \A x : Marked(x)' = Marked(x)
      BY <1>4 DEF List, Marked
    <3>3. Excused' = Excused /\ sent' = sent /\ again' = again
      BY <1>4 DEF List, Excused, history
    <3> QED BY <2>5, <3>1, <3>2, <3>3, Leaves
  <2>7. worker' \in [Workers -> Process]
    BY <1>t, <2>5, <2>6, SoundIsTyped
  <2>8. TypeOK'
    BY <1>t, <1>4, <2>7 DEF List, history, TypeOK, Process
  <2> QED BY <2>6, <2>8 DEF IInv
<1>5. ASSUME NEW w \in Workers, NEW t \in Tasks, Pick(w, t) PROVE IInv'
  <2> DEFINE old == worker[w]
             todo == old.todo \ {t}
             busy == [old EXCEPT !.pc = "check", !.task = t, !.todo = todo]
             over == [old EXCEPT !.todo = todo]
  <2>1. old \in Process /\ Sound(old) /\ t \in old.todo /\ old.pc = "loop"
    BY <1>5, <1>s DEF Pick, At
  <2>2. Sound(busy) /\ busy.pc = "check"
    <3>1. busy \in Process
      BY <2>1 DEF Process
    <3>2. busy.pc = "check" /\ busy.task = t /\ busy.todo = todo /\ busy.rows = old.rows
      BY <2>1 DEF Process
    <3> QED BY <2>1, <3>1, <3>2 DEF Sound, Busy
  <2>3. Sound(over) /\ over.pc = "loop"
    <3>1. over \in Process
      BY <2>1 DEF Process
    <3>2. over.pc = "loop" /\ over.todo = todo /\ over.rows = old.rows
      BY <2>1 DEF Process
    <3> QED BY <2>1, <3>1, <3>2 DEF Sound, Busy
  <2>4. worker' = [worker EXCEPT ![w] = IF old.rows[t].open THEN busy
                                        ELSE IF todo = {} THEN Blank ELSE over]
    BY <1>5 DEF Pick
  <2> HIDE DEF busy, over, todo
  <2>5. /\ worker' = [worker EXCEPT ![w] = worker'[w]]
        /\ Sound(worker'[w]) /\ worker'[w].pc \in {"idle", "loop", "check"}
    BY <1>s, <2>2, <2>3, <2>4, BlankIsSound
  <2>6. ProcessesAreSound' /\ SentIsMarked' /\ RivalsAreNoted' /\ SendingIsExcused'
        /\ SentOnceUnlessExcused'
    <3>1. ~At(w, "mark")
      BY <2>1 DEF At
    <3>2. \A x : Marked(x)' = Marked(x)
      BY <1>5 DEF Pick, Marked
    <3>3. Excused' = Excused /\ sent' = sent /\ again' = again
      BY <1>5 DEF Pick, Excused, history
    <3> QED BY <2>5, <3>1, <3>2, <3>3, Leaves
  <2>7. worker' \in [Workers -> Process]
    BY <1>t, <2>5, <2>6, SoundIsTyped
  <2>8. TypeOK'
    BY <1>t, <1>5, <2>7 DEF Pick, history, TypeOK, Process
  <2> QED BY <2>6, <2>8 DEF IInv
<1>6. ASSUME NEW w \in Workers, Check(w), Marked(Current(w)) PROVE IInv'
  <2>1. /\ worker' = [worker EXCEPT ![w] = worker'[w]]
        /\ Sound(worker'[w]) /\ worker'[w].pc \in {"idle", "loop"}
    <3>1. Continue(w)
      BY <1>6 DEF Check
    <3> QED BY <1>t, <3>1, ContinueFacts
  <2>2. ProcessesAreSound' /\ SentIsMarked' /\ RivalsAreNoted' /\ SendingIsExcused'
        /\ SentOnceUnlessExcused'
    <3>1. ~At(w, "mark")
      BY <1>6 DEF Check, At
    <3>2. \A x : Marked(x)' = Marked(x)
      BY <1>6 DEF Check, Marked
    <3>3. Excused' = Excused /\ sent' = sent /\ again' = again
      BY <1>6 DEF Check, Excused
    <3> QED BY <2>1, <3>1, <3>2, <3>3, Leaves
  <2>3. worker' \in [Workers -> Process]
    BY <1>t, <2>1, <2>2, SoundIsTyped
  <2>4. TypeOK'
    BY <1>t, <1>6, <2>3 DEF Check, TypeOK, Process
  <2> QED BY <2>2, <2>4 DEF IInv
<1>7. ASSUME NEW w \in Workers, Check(w), ~Marked(Current(w)) PROVE IInv'
  <2> DEFINE c == Current(w)
  <2>1. /\ At(w, "check") /\ worker' = [worker EXCEPT ![w].pc = "send"]
        /\ contended' = IF Rivals(w, c) THEN contended \cup {c} ELSE contended
        /\ marks' = marks /\ sent' = sent /\ again' = again
        /\ expired' = expired /\ unmarked' = unmarked
    BY <1>7 DEF Check
  <2>2. worker[w] \in Process /\ worker[w].pc = "check" /\ c \in Reminder
    BY <1>t, <1>s, <2>1, CurrentIsReminder DEF At, Busy
  <2>3. /\ worker'[w] = [worker[w] EXCEPT !.pc = "send"]
        /\ worker'[w].pc = "send" /\ worker'[w].rows = worker[w].rows
        /\ worker'[w].task = worker[w].task /\ worker'[w].todo = worker[w].todo
        /\ worker'[w] \in Process
    BY <1>s, <2>1, <2>2 DEF Process
  <2>4. \A v \in Workers : v # w => worker'[v] = worker[v]
    BY <1>s, <2>1
  <2>5. \A v \in Workers : Current(v)' = Current(v)
    BY <2>3, <2>4 DEF Current
  <2>6. \A v \in Workers : Sound(worker'[v])
    BY <1>s, <2>2, <2>3, <2>4 DEF Sound, Busy
  <2>7. worker' \in [Workers -> Process]
    BY <1>s, <2>1, <2>3, <2>4
  <2>8. TypeOK'
    BY <1>t, <1>7, <2>1, <2>2, <2>7 DEF Check, TypeOK, Process
  <2>9. Excused \subseteq Excused' /\ \A x : Marked(x)' = Marked(x)
    BY <2>1 DEF Excused, Marked
  <2>10. \A v \in Workers \ {w} : At2(v) /\ Current(v) = c => c \in Excused'
    BY <2>1 DEF Rivals, At2, Excused
  <2>11. SentIsMarked'
    <3> SUFFICES ASSUME NEW x \in sent
                 PROVE  \/ Marked(x)' \/ x \in Excused'
                        \/ \E v \in Workers : At(v, "mark")' /\ Current(v)' = x
      BY <2>1 DEF SentIsMarked
    <3>1. \/ Marked(x) \/ x \in Excused
          \/ \E v \in Workers : At(v, "mark") /\ Current(v) = x
      BY DEF IInv, SentIsMarked
    <3>2. ~At(w, "mark")
      BY <2>1 DEF At
    <3> QED BY <3>1, <3>2, <2>4, <2>5, <2>9 DEF At
  <2>12. RivalsAreNoted'
    <3> SUFFICES ASSUME NEW u \in Workers, NEW v \in Workers, u # v, At2(u)', At2(v)',
                        Current(u)' = Current(v)'
                 PROVE  Current(v)' \in Excused'
      BY DEF RivalsAreNoted
    <3>1. CASE u = w
      BY <3>1, <2>4, <2>5, <2>10 DEF At2
    <3>2. CASE v = w
      BY <3>2, <2>4, <2>5, <2>10 DEF At2
    <3>3. CASE u # w /\ v # w
      BY <3>3, <2>4, <2>5, <2>9 DEF At2, IInv, RivalsAreNoted
    <3> QED BY <3>1, <3>2, <3>3
  <2>13. SendingIsExcused'
    <3> SUFFICES ASSUME NEW v \in Workers, At(v, "send")', Current(v)' \in sent
                 PROVE  Current(v)' \in Excused'
      BY <2>1 DEF SendingIsExcused
    <3>1. CASE v = w
      <4>1. c \in sent /\ ~Marked(c)
        BY <1>7, <3>1, <2>5
      <4>2. c \in Excused \/ \E u \in Workers : At(u, "mark") /\ Current(u) = c
        BY <4>1 DEF IInv, SentIsMarked
      <4>3. ~At(w, "mark")
        BY <2>1 DEF At
      <4> QED BY <3>1, <4>2, <4>3, <2>5, <2>9, <2>10 DEF At, At2
    <3>2. CASE v # w
      BY <3>2, <2>4, <2>5, <2>9 DEF At, IInv, SendingIsExcused
    <3> QED BY <3>1, <3>2
  <2>14. SentOnceUnlessExcused'
    BY <2>1, <2>9 DEF IInv, SentOnceUnlessExcused, Excused
  <2> QED BY <2>6, <2>8, <2>11, <2>12, <2>13, <2>14 DEF IInv, ProcessesAreSound
<1>8. ASSUME NEW w \in Workers, Send(w) PROVE IInv'
  <2> DEFINE c == Current(w)
  <2>1. /\ At(w, "send") /\ worker' = [worker EXCEPT ![w].pc = "mark"]
        /\ sent' = sent \cup {c} /\ again' = again \cup ({c} \cap sent)
        /\ marks' = marks /\ Excused' = Excused
    BY <1>8 DEF Send, Excused
  <2>2. worker[w] \in Process /\ worker[w].pc = "send" /\ c \in Reminder
    BY <1>t, <1>s, <2>1, CurrentIsReminder DEF At, Busy
  <2>3. /\ worker'[w] = [worker[w] EXCEPT !.pc = "mark"]
        /\ worker'[w].pc = "mark" /\ worker'[w].rows = worker[w].rows
        /\ worker'[w].task = worker[w].task /\ worker'[w].todo = worker[w].todo
        /\ worker'[w] \in Process
    BY <1>s, <2>1, <2>2 DEF Process
  <2>4. \A v \in Workers : v # w => worker'[v] = worker[v]
    BY <1>s, <2>1
  <2>5. \A v \in Workers : Current(v)' = Current(v)
    BY <2>3, <2>4 DEF Current
  <2>6. \A v \in Workers : Sound(worker'[v])
    BY <1>s, <2>2, <2>3, <2>4 DEF Sound, Busy
  <2>7. worker' \in [Workers -> Process]
    BY <1>s, <2>1, <2>3, <2>4
  <2>8. TypeOK'
    BY <1>t, <1>8, <2>1, <2>2, <2>7 DEF Send, TypeOK, Process
  <2>9. \A x : Marked(x)' = Marked(x)
    BY <2>1 DEF Marked
  <2>10. \A v \in Workers : At2(v)' => At2(v)
    BY <2>2, <2>4 DEF At2
  <2>11. SentIsMarked'
    <3> SUFFICES ASSUME NEW x \in sent'
                 PROVE  \/ Marked(x)' \/ x \in Excused'
                        \/ \E v \in Workers : At(v, "mark")' /\ Current(v)' = x
      BY DEF SentIsMarked
    <3>1. CASE x = c
      BY <3>1, <2>3, <2>5 DEF At
    <3>2. CASE x \in sent
      <4>1. \/ Marked(x) \/ x \in Excused
            \/ \E v \in Workers : At(v, "mark") /\ Current(v) = x
        BY <3>2 DEF IInv, SentIsMarked
      <4>2. ~At(w, "mark")
        BY <2>1 DEF At
      <4> QED BY <4>1, <4>2, <2>1, <2>4, <2>5, <2>9 DEF At
    <3> QED BY <3>1, <3>2, <2>1
  <2>12. RivalsAreNoted'
    BY <2>1, <2>5, <2>10 DEF IInv, RivalsAreNoted
  <2>13. SendingIsExcused'
    <3> SUFFICES ASSUME NEW v \in Workers, At(v, "send")', Current(v)' \in sent'
                 PROVE  Current(v)' \in Excused'
      BY DEF SendingIsExcused
    <3>1. v # w /\ At(v, "send")
      BY <2>3, <2>4 DEF At
    <3>2. CASE Current(v) = c
      BY <3>1, <3>2, <2>1, <2>5 DEF IInv, RivalsAreNoted, At, At2
    <3>3. CASE Current(v) \in sent
      BY <3>1, <3>3, <2>1, <2>5 DEF IInv, SendingIsExcused
    <3> QED BY <3>2, <3>3, <2>1, <2>5
  <2>14. SentOnceUnlessExcused'
    <3>1. c \in sent => c \in Excused
      BY <2>1 DEF IInv, SendingIsExcused
    <3>2. again \subseteq Excused
      BY DEF IInv, SentOnceUnlessExcused, Excused
    <3>3. again' \subseteq Excused'
      BY <2>1, <3>1, <3>2
    <3> QED BY <3>3 DEF SentOnceUnlessExcused, Excused
  <2> QED BY <2>6, <2>8, <2>11, <2>12, <2>13, <2>14 DEF IInv, ProcessesAreSound
<1>9. ASSUME NEW w \in Workers, Mark(w) PROVE IInv'
  <2> DEFINE c == Current(w)
  <2>1. /\ worker' = [worker EXCEPT ![w] = worker'[w]]
        /\ Sound(worker'[w]) /\ worker'[w].pc \in {"idle", "loop"}
    <3>1. Continue(w)
      BY <1>9 DEF Mark
    <3> QED BY <1>t, <3>1, ContinueFacts
  <2>2. /\ At(w, "mark") /\ Excused' = Excused /\ sent' = sent /\ again' = again
        /\ marks' = {m \in marks : m[1] # c} \cup {<<c, now + TTL>>}
    BY <1>9 DEF Mark, Marking, Key, history, Excused
  <2>3. c \in Reminder
    BY <1>t, <2>2, CurrentIsReminder DEF At, Busy
  <2>4. \A x : x = c \/ Marked(x) => Marked(x)'
    <3>1. ASSUME NEW x, x = c PROVE Marked(x)'
      <4>1. <<x, now + TTL>> \in marks' /\ <<x, now + TTL>>[1] = x
        BY <2>2, <3>1
      <4> QED BY <4>1 DEF Marked, Key
    <3>2. ASSUME NEW x, Marked(x), x # c PROVE Marked(x)'
      <4>1. PICK m \in marks : m[1] = x
        BY <3>2 DEF Marked, Key
      <4>2. m \in marks'
        BY <2>2, <3>2, <4>1
      <4> QED BY <4>1, <4>2 DEF Marked, Key
    <3> QED BY <3>1, <3>2
  <2>5. ProcessesAreSound' /\ SentIsMarked' /\ RivalsAreNoted' /\ SendingIsExcused'
        /\ SentOnceUnlessExcused'
    BY <2>1, <2>2, <2>4, Leaves
  <2>6. worker' \in [Workers -> Process]
    BY <1>t, <2>1, <2>5, SoundIsTyped
  <2>7. marks' \in SUBSET (Reminder \X Nat)
    BY <1>t, <2>2, <2>3 DEF TypeOK
  <2>8. TypeOK'
    BY <1>t, <1>9, <2>6, <2>7 DEF Mark, history, TypeOK, Process
  <2> QED BY <2>5, <2>8 DEF IInv
<1>10. ASSUME NEW w \in Workers, Crash(w) \/ RedisFails(w) PROVE IInv'
  <2> DEFINE c == Current(w)
  <2>1. /\ worker' = [worker EXCEPT ![w] = Blank] /\ marks' = marks
        /\ sent' = sent /\ again' = again /\ expired' = expired /\ contended' = contended
        /\ unmarked' = IF At(w, "mark") THEN unmarked \cup {c} ELSE unmarked
    BY <1>10 DEF Crash, RedisFails
  <2>2. /\ worker' = [worker EXCEPT ![w] = worker'[w]] /\ worker'[w] = Blank
    BY <1>s, <2>1
  <2>3. At(w, "mark") => c \in Reminder
    BY <1>t, CurrentIsReminder DEF At, Busy
  <2>4. Excused \subseteq Excused' /\ \A x : At(w, "mark") /\ x = c => x \in Excused'
    BY <2>1 DEF Excused
  <2>5. ProcessesAreSound' /\ SentIsMarked' /\ RivalsAreNoted' /\ SendingIsExcused'
        /\ SentOnceUnlessExcused'
    <3>1. \A x : Marked(x)' = Marked(x)
      BY <2>1 DEF Marked
    <3> QED BY <2>1, <2>2, <2>4, <3>1, BlankIsSound, Leaves
  <2>6. worker' \in [Workers -> Process]
    BY <1>t, <2>2, <2>5, SoundIsTyped
  <2>7. crashes' \in 0 .. MaxCrashes /\ waiting' \in BOOLEAN
    <3>1. crashes \in 0 .. MaxCrashes /\ waiting \in BOOLEAN
      BY <1>t DEF TypeOK
    <3>2. crashes < MaxCrashes /\ crashes' = crashes + 1 /\ waiting' \in BOOLEAN
      BY <1>10, <3>1 DEF Crash, RedisFails
    <3> QED BY <3>1, <3>2
  <2>8. TypeOK'
    BY <1>t, <1>10, <2>1, <2>3, <2>6, <2>7 DEF Crash, RedisFails, TypeOK, Process
  <2> QED BY <2>5, <2>8 DEF IInv
<1> QED
  BY <1>0, <1>1, <1>2, <1>3, <1>4, <1>5, <1>6, <1>7, <1>8, <1>9, <1>10 DEF Next, Job

(* Every variable keeps the shape the worker, Redis and the queue give it.  *)
THEOREM TypeCorrect == Spec => []TypeOK
<1>1. IInv => TypeOK
  BY DEF IInv
<1> QED BY <1>1, InitHolds, StepHolds, PTL DEF Spec

(* For any number of processes and tasks, a reminder is sent again only if  *)
(* its mark expired, its sender died or failed before the mark, or two      *)
(* processes were at it.                                                    *)
THEOREM SentOnce == Spec => []SentOnceUnlessExcused
<1>1. IInv => SentOnceUnlessExcused
  BY DEF IInv
<1> QED BY <1>1, InitHolds, StepHolds, PTL DEF Spec
=============================================================================
