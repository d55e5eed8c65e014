--------------------------- MODULE ChatTurnProofs ---------------------------
(***************************************************************************)
(* What ChatTurn guarantees, for any number of turns, workers, deliveries  *)
(* and troubles: a turn-ending event follows its commit, a turn is         *)
(* answered once as long as nothing stalls, a live entry is taken away by  *)
(* its own turn only, and no one failure or stall gets a command acked     *)
(* before its turn has ended.                                              *)
(***************************************************************************)
EXTENDS ChatTurn, TLAPS

USE ZenonT(30)

Pcs == {"idle", "load", "orphan", "tell", "ackonly", "stale", "record", "missing",
        "claim", "start", "stream", "commit", "mark", "failed", "publish", "markpub",
        "ack", "release"}

\* The number of an answer may be anything here.
TaskRecord(n) == [pc : Pcs, worker : Workers \cup {None}, stop : BOOLEAN, way : Outcomes,
                  n : {n}, quiet : BOOLEAN]
LockRecord(n) == [turn : Turns \cup {None},
                  state : {"absent", "requested", "running"} \cup Outcomes,
                  worker : Workers \cup {None}, stop : BOOLEAN, published : BOOLEAN,
                  fresh : BOOLEAN, n : {n}]

TypeInv ==
  /\ api \in [Turns -> {"idle", "acquire", "create", "publish", "undo", "release",
                        "refused", "accepted", "dead"}]
  /\ cmd \in [Turns -> {"none", "queued", "delivered", "acked"}]
  /\ task = [k \in Tasks |-> task[k]]
  /\ \A k \in Tasks : task[k] \in TaskRecord(task[k].n)
  /\ lock \in LockRecord(lock.n)
  /\ lock.turn = None => lock = NoLock
  /\ lapses \in Nat /\ faults \in Nat

Committed(t, n) == [turn |-> t, n |-> n] \in answers
Answered(t) == \E a \in answers : a.turn = t

\* What a task, the entry and the events say of a whole or interrupted answer
\* is in the database; before it has one, a task holds a failure.
TaskOutcome(k) ==
  /\ task[k].pc \in {"missing", "mark", "publish", "markpub"} /\ task[k].way # "failed" =>
       Committed(k[1], task[k].n)
  /\ task[k].pc \in {"idle", "load", "orphan", "tell", "stale", "record", "claim", "start",
                     "stream", "failed"} => task[k].way = "failed"

OutcomeInv ==
  /\ \A k \in Tasks : TaskOutcome(k)
  /\ lock.state \in {"committed", "interrupted"} => Committed(lock.turn, lock.n)
  /\ OutcomeAfterCommit

\* A turn has no command before enqueue_turn publishes it, no entry before it
\* creates one, no answer and no task before there is a command.
Begins(t) ==
  /\ api[t] \in {"idle", "acquire", "create", "publish"} => cmd[t] = "none"
  /\ api[t] \in {"idle", "acquire", "create"} => lock.turn # t
  /\ cmd[t] = "none" => ~Answered(t)

BeginInv ==
  /\ \A t \in Turns : Begins(t)
  /\ \A k \in Tasks : Busy(k) => cmd[k[1]] # "none"

\* Without a lapse one task serves a turn at a time, and none while its command
\* is in the queue; a task on its way to a commit, and an entry nobody claimed,
\* belong to a turn without an answer.
Driving == {"start", "stream", "commit"}

Alone ==
  /\ \A k \in Tasks : Busy(k) => cmd[k[1]] # "queued"
  /\ \A k, l \in Tasks : k[1] = l[1] /\ Busy(k) /\ Busy(l) => k = l
  /\ \A k \in Tasks : task[k].pc \in {"claim"} \cup Driving => ~Answered(k[1])
  /\ lock.state = "requested" =>
       /\ ~Answered(lock.turn)
       /\ \A k \in Tasks : k[1] = lock.turn => task[k].pc \notin Driving

Inv == TypeInv /\ OutcomeInv /\ BeginInv /\ (lapses = 0 => Alone) /\ AnsweredOnce

-----------------------------------------------------------------------------
(***************************************************************************)
(* Steps of a task                                                         *)
(***************************************************************************)

\* Only task k moves, to a call, a way to end and the number of its answer.
Moves(k, pc, way, n) ==
  /\ task' = [j \in Tasks |-> task'[j]]
  /\ \A j \in Tasks : j # k => task'[j] = task[j]
  /\ task'[k] \in TaskRecord(n)
  /\ task'[k].pc = pc /\ task'[k].way = way /\ task'[k].n = n

LEMMA TaskType ==
  ASSUME TypeInv, NEW k \in Tasks
  PROVE  /\ task[k] \in TaskRecord(task[k].n) /\ task = [j \in Tasks |-> task[j]]
         /\ task[k].pc \in Pcs /\ task[k].way \in Outcomes /\ k[1] \in Turns
  BY DEF TypeInv, TaskRecord, Tasks

LEMMA SetMoves ==
  ASSUME TypeInv, NEW k \in Tasks, NEW n, NEW r \in TaskRecord(n), task' = [task EXCEPT ![k] = r]
  PROVE  Moves(k, r.pc, r.way, n)
<1>1. task = [j \in Tasks |-> task[j]]
  BY DEF TypeInv
<1>2. task' = [j \in Tasks |-> IF j = k THEN r ELSE task[j]]
  BY <1>1
<1>3. r.n = n
  BY DEF TaskRecord
<1> QED
  BY <1>2, <1>3 DEF Moves

LEMMA GotoMoves ==
  ASSUME TypeInv, NEW k \in Tasks, NEW pc \in Pcs, Goto(k, pc)
  PROVE  Moves(k, pc, task[k].way, task[k].n)
<1> DEFINE r == [task[k] EXCEPT !.pc = pc]
<1>1. task[k] \in TaskRecord(task[k].n) /\ task = [j \in Tasks |-> task[j]]
  BY TaskType
<1>2. r \in TaskRecord(task[k].n) /\ r.pc = pc /\ r.way = task[k].way
  BY <1>1 DEF TaskRecord
<1>3. task' = [task EXCEPT ![k] = r]
  BY <1>1 DEF Goto
<1> HIDE DEF r
<1> QED
  BY <1>2, <1>3, SetMoves

LEMMA QuitMoves ==
  ASSUME TypeInv, NEW k \in Tasks, Quit(k)
  PROVE  Moves(k, "idle", "failed", 0)
<1>1. IdleTask \in TaskRecord(0) /\ IdleTask.pc = "idle" /\ IdleTask.way = "failed"
  BY DEF IdleTask, TaskRecord, Pcs, Outcomes
<1> QED
  BY <1>1, SetMoves DEF Quit

LEMMA FailMoves ==
  ASSUME TypeInv, NEW k \in Tasks, Fail(k)
  PROVE  Moves(k, "idle", "failed", 0) \/ Moves(k, "ack", task[k].way, task[k].n)
<1>1. "ack" \in Pcs
  BY DEF Pcs
<1> QED
  BY <1>1, GotoMoves, QuitMoves DEF Fail

LEMMA FailOwnedMoves ==
  ASSUME TypeInv, NEW k \in Tasks, NEW q \in BOOLEAN, FailOwned(k, q)
  PROVE  Moves(k, "mark", "failed", 0)
<1> DEFINE r == [task[k] EXCEPT !.pc = "mark", !.way = "failed", !.n = 0, !.quiet = q]
<1>1. task[k] \in TaskRecord(task[k].n) /\ task = [j \in Tasks |-> task[j]]
  BY TaskType
<1>2. r \in TaskRecord(0) /\ r.pc = "mark" /\ r.way = "failed"
  BY <1>1 DEF TaskRecord, Pcs, Outcomes
<1>3. task' = [task EXCEPT ![k] = r]
  BY <1>1 DEF FailOwned
<1> HIDE DEF r
<1> QED
  BY <1>2, <1>3, SetMoves

-----------------------------------------------------------------------------
(***************************************************************************)
(* Steps that commit nothing, create no entry and deliver nothing          *)
(***************************************************************************)

\* A task stays where it was as far as the invariant can tell: it starts
\* nothing, and it drives the turn only if it did or holds the entry.
TaskKept(k) ==
  /\ task'[k] \in TaskRecord(task'[k].n)
  /\ TaskOutcome(k)'
  /\ Busy(k)' => Busy(k)
  /\ task'[k].pc \in {"claim"} \cup Driving =>
       task[k].pc \in {"claim"} \cup Driving \/ (lock.state = "requested" /\ lock.turn = k[1])
  /\ task'[k].pc \in Driving =>
       task[k].pc \in Driving \/ lock'.state # "requested" \/ lock'.turn # k[1]

TasksKept == task' = [k \in Tasks |-> task'[k]] /\ \A k \in Tasks : TaskKept(k)

\* The entry is the same turn's or gone, and asks for no more than it did.
LockMilder ==
  /\ lock' \in LockRecord(lock'.n)
  /\ lock'.turn = None => lock' = NoLock
  /\ lock'.turn \in {lock.turn, None}
  /\ lock'.state = "requested" => lock.state = "requested" /\ lock'.turn = lock.turn
  /\ lock'.state \in {"committed", "interrupted"} => Committed(lock'.turn, lock'.n)

\* No request goes back, and a command is queued for a turn without a task only.
CallKept(t) ==
  /\ api'[t] \in {"idle", "acquire", "create", "publish"} => cmd'[t] = "none"
  /\ api'[t] \in {"idle", "acquire", "create"} => api[t] \in {"idle", "acquire", "create"}
  /\ cmd'[t] = "none" => cmd[t] = "none"
  /\ cmd'[t] = "queued" =>
       cmd[t] = "queued" \/ lapses' # 0 \/ \A k \in Tasks : k[1] = t => ~Busy(k)

CallsTyped ==
  /\ api' \in [Turns -> {"idle", "acquire", "create", "publish", "undo", "release",
                         "refused", "accepted", "dead"}]
  /\ cmd' \in [Turns -> {"none", "queued", "delivered", "acked"}]

BudgetKept == lapses' \in Nat /\ faults' \in Nat /\ (lapses' = 0 => lapses = 0)

EventsKept == \A e \in events' : e \in events \/ e.way = "failed" \/ Committed(e.turn, e.n)

LEMMA KeptStep ==
  ASSUME Inv, TasksKept, LockMilder, CallsTyped, \A t \in Turns : CallKept(t), BudgetKept,
         EventsKept, answers' = answers
  PROVE  Inv'
<1>1. TypeInv'
  BY DEF TasksKept, TaskKept, LockMilder, CallsTyped, BudgetKept, TypeInv
<1>2. OutcomeInv'
  <2>1. \A k \in Tasks : TaskOutcome(k)'
    BY DEF TasksKept, TaskKept
  <2>2. (lock.state \in {"committed", "interrupted"} => Committed(lock.turn, lock.n))'
    BY DEF LockMilder, Committed
  <2>3. OutcomeAfterCommit'
    BY DEF Inv, OutcomeInv, OutcomeAfterCommit, EventsKept, Committed
  <2> QED
    BY <2>1, <2>2, <2>3 DEF OutcomeInv
<1>3. BeginInv'
  <2>1. ASSUME NEW t \in Turns PROVE Begins(t)'
    <3>1. Begins(t) /\ CallKept(t) /\ None # t
      BY ChatAssumption DEF Inv, BeginInv
    <3> QED
      BY <3>1 DEF Begins, CallKept, LockMilder, Answered
  <2>2. ASSUME NEW k \in Tasks, Busy(k)' PROVE cmd'[k[1]] # "none"
    <3>1. k[1] \in Turns
      BY DEF Tasks
    <3>2. Busy(k) /\ cmd[k[1]] # "none"
      BY <2>2 DEF TasksKept, TaskKept, Inv, BeginInv
    <3> QED
      BY <3>1, <3>2 DEF CallKept
  <2> QED
    BY <2>1, <2>2 DEF BeginInv
<1>4. ASSUME lapses' = 0 PROVE Alone'
  <2>0. Alone
    BY <1>4 DEF Inv, BudgetKept
  <2>1. ASSUME NEW k \in Tasks, Busy(k)' PROVE cmd'[k[1]] # "queued"
    <3>1. k[1] \in Turns
      BY SMT DEF Tasks
    <3>2. Busy(k) /\ cmd[k[1]] # "queued"
      BY <2>0, <2>1 DEF TasksKept, TaskKept, Alone
    <3> QED
      BY <3>1, <3>2, <1>4 DEF CallKept
  <2>2. ASSUME NEW k \in Tasks, NEW l \in Tasks, k[1] = l[1], Busy(k)', Busy(l)'
        PROVE  k = l
    BY <2>0, <2>2 DEF TasksKept, TaskKept, Alone
  <2>3. ASSUME NEW k \in Tasks, (task[k].pc \in {"claim"} \cup Driving)' PROVE ~Answered(k[1])'
    <3>1. ~Answered(k[1])
      BY <2>0, <2>3 DEF TasksKept, TaskKept, Alone, Driving
    <3> QED
      BY <3>1 DEF Answered
  <2>4. ASSUME lock'.state = "requested" PROVE ~Answered(lock.turn)'
    BY <2>0, <2>4 DEF Alone, LockMilder, Answered
  <2>5. ASSUME lock'.state = "requested", NEW k \in Tasks, k[1] = lock'.turn
        PROVE  (task[k].pc \notin Driving)'
    BY <2>0, <2>5 DEF Alone, LockMilder, TasksKept, TaskKept, Driving
  <2> QED
    BY <2>1, <2>2, <2>3, <2>4, <2>5 DEF Alone, Driving
<1>5. AnsweredOnce'
  BY DEF Inv, AnsweredOnce, BudgetKept
<1> QED
  BY <1>1, <1>2, <1>3, <1>4, <1>5 DEF Inv

LEMMA SameTasks ==
  ASSUME Inv, UNCHANGED <<task, answers>>, LockMilder
  PROVE  TasksKept
<1>1. \A k \in Tasks : TaskOutcome(k)'
  BY DEF Inv, OutcomeInv, TaskOutcome, Committed
<1> QED
  BY <1>1 DEF Inv, TypeInv, TasksKept, TaskKept, Busy

LEMMA SameLock ==
  ASSUME Inv, UNCHANGED lock
  PROVE  LockMilder
  BY DEF Inv, TypeInv, OutcomeInv, LockMilder

LEMMA NoLockType ==
  /\ NoLock \in LockRecord(0) /\ NoLock.n = 0 /\ NoLock.turn = None /\ NoLock.state = "absent"
  BY DEF NoLock, LockRecord

LEMMA GoneLock ==
  ASSUME lock' = NoLock
  PROVE  LockMilder
  BY NoLockType DEF LockMilder

LEMMA SameCalls ==
  ASSUME Inv, UNCHANGED <<api, cmd>>
  PROVE  CallsTyped /\ \A t \in Turns : CallKept(t)
  BY DEF Inv, TypeInv, BeginInv, Begins, CallsTyped, CallKept

LEMMA BudgetSteps ==
  ASSUME Inv, UNCHANGED budget \/ Spend \/ Lapse
  PROVE  BudgetKept
  BY SMT DEF Inv, TypeInv, BudgetKept, budget, Spend, Lapse

LEMMA SameEvents ==
  ASSUME UNCHANGED events
  PROVE  EventsKept
  BY DEF EventsKept

\* Where a busy task may go.
Allowed(k, pc, way, n) ==
  /\ pc \in {"missing", "mark", "publish", "markpub"} /\ way # "failed" => Committed(k[1], n)
  /\ pc \in {"idle", "load", "orphan", "tell", "stale", "record", "claim", "start",
             "stream", "failed"} => way = "failed"
  /\ pc \in {"claim"} \cup Driving =>
       task[k].pc \in {"claim"} \cup Driving \/ (lock.state = "requested" /\ lock.turn = k[1])
  /\ pc \in Driving => task[k].pc \in Driving \/ lock'.state # "requested" \/ lock'.turn # k[1]

LEMMA AlwaysAllowed ==
  ASSUME NEW k \in Tasks, NEW way, NEW n
  PROVE  /\ Allowed(k, "ack", way, n) /\ Allowed(k, "ackonly", way, n)
         /\ Allowed(k, "release", way, n)
         /\ Allowed(k, "idle", "failed", n) /\ Allowed(k, "mark", "failed", n)
  BY DEF Allowed, Driving

LEMMA MovedTasks ==
  ASSUME Inv, UNCHANGED answers, NEW k \in Tasks, NEW pc, NEW way, NEW n,
         Moves(k, pc, way, n), LockMilder, Busy(k), Allowed(k, pc, way, n)
  PROVE  TasksKept
<1>1. TaskKept(k)
  <2>1. TaskOutcome(k)'
    BY DEF Moves, TaskOutcome, Committed, Allowed
  <2> QED
    BY <2>1 DEF Moves, TaskKept, Driving, Allowed
<1>2. ASSUME NEW j \in Tasks, j # k PROVE TaskKept(j)
  <2>1. task'[j] = task[j] /\ task[j] \in TaskRecord(task[j].n)
    BY <1>2 DEF Moves, Inv, TypeInv
  <2>2. TaskOutcome(j)'
    BY <2>1 DEF Inv, OutcomeInv, TaskOutcome, Committed
  <2> QED
    BY <2>1, <2>2 DEF TaskKept, Busy
<1> QED
  BY <1>1, <1>2 DEF TasksKept, Moves

-----------------------------------------------------------------------------
(***************************************************************************)
(* The api-service, time and crashes                                       *)
(***************************************************************************)

\* A turn's request and command move on; every other turn's stay.
CallMoves(t, a, c) ==
  /\ CallsTyped
  /\ api'[t] = a /\ cmd'[t] = c
  /\ \A s \in Turns : s # t => api'[s] = api[s] /\ cmd'[s] = cmd[s]

LEMMA ApiMoves ==
  ASSUME Inv, NEW t \in Turns, UNCHANGED cmd,
         NEW a \in {"acquire", "create", "publish", "undo", "release", "refused", "dead"},
         api' = [api EXCEPT ![t] = a]
  PROVE  CallMoves(t, a, cmd[t])
  BY DEF Inv, TypeInv, CallMoves, CallsTyped

LEMMA CmdMoves ==
  ASSUME Inv, NEW t \in Turns, UNCHANGED api, NEW c \in {"queued", "delivered", "acked"},
         cmd' = [cmd EXCEPT ![t] = c]
  PROVE  CallMoves(t, api[t], c)
  BY DEF Inv, TypeInv, CallMoves, CallsTyped

LEMMA MovedCalls ==
  ASSUME Inv, NEW t \in Turns, NEW a, NEW c, CallMoves(t, a, c),
         a \in {"idle", "acquire", "create", "publish"} => c = "none",
         a \in {"idle", "acquire", "create"} => api[t] \in {"idle", "acquire", "create"},
         c = "none" => cmd[t] = "none",
         c = "queued" => \/ cmd[t] = "queued" \/ lapses' # 0
                         \/ \A k \in Tasks : k[1] = t => ~Busy(k)
  PROVE  CallsTyped /\ \A s \in Turns : CallKept(s)
<1>1. CallKept(t)
  BY DEF CallMoves, CallKept
<1>2. ASSUME NEW s \in Turns, s # t PROVE CallKept(s)
  BY <1>2 DEF CallMoves, CallKept, Inv, BeginInv, Begins
<1> QED
  BY <1>1, <1>2 DEF CallMoves

LEMMA AssertParentTailStep ==
  ASSUME Inv, NEW t \in Turns, AssertParentTail(t)
  PROVE  Inv'
<1>1. LockMilder /\ TasksKept /\ EventsKept /\ BudgetKept
  BY SameLock, SameTasks, SameEvents, BudgetSteps DEF AssertParentTail, busVars, dbVars
<1>2. CallsTyped /\ \A s \in Turns : CallKept(s)
  <2>1. CallMoves(t, "acquire", cmd[t])
    BY ApiMoves DEF AssertParentTail, busVars
  <2>2. cmd[t] = "none" /\ api[t] = "idle"
    BY DEF AssertParentTail, Inv, BeginInv, Begins
  <2> QED
    BY <2>1, <2>2, MovedCalls
<1> QED
  BY <1>1, <1>2, KeptStep DEF AssertParentTail, dbVars

LEMMA AcquireLockStep ==
  ASSUME Inv, NEW t \in Turns, AcquireLock(t)
  PROVE  Inv'
<1>0. LockMilder
  BY SameLock, GoneLock DEF AcquireLock
<1>1. TasksKept /\ EventsKept /\ BudgetKept
  BY <1>0, SameTasks, SameEvents, BudgetSteps DEF AcquireLock, busVars, dbVars
<1>2. CallsTyped /\ \A s \in Turns : CallKept(s)
  <2>1. CallMoves(t, "refused", cmd[t]) \/ CallMoves(t, "create", cmd[t])
    BY ApiMoves DEF AcquireLock, busVars
  <2>2. cmd[t] = "none" /\ api[t] = "acquire"
    BY DEF AcquireLock, Inv, BeginInv, Begins
  <2> QED
    BY <2>1, <2>2, MovedCalls
<1> QED
  BY <1>0, <1>1, <1>2, KeptStep DEF AcquireLock, dbVars

\* The entry of a turn that has no command yet, hence no task and no answer.
LEMMA CreateLockStep ==
  ASSUME Inv, NEW t \in Turns, CreateLock(t)
  PROVE  Inv'
<1>0. /\ api[t] = "create" /\ cmd[t] = "none" /\ lock.turn # t /\ ~Answered(t) /\ None # t
      /\ UNCHANGED <<cmd, events, task, answers, faults, lapses>>
  BY ChatAssumption DEF CreateLock, Inv, BeginInv, Begins, busVars, dbVars, budget
<1>1. CASE lock # NoLock
  <2>1. LockMilder /\ TasksKept /\ EventsKept /\ BudgetKept
    BY <1>1, SameLock, SameTasks, SameEvents, BudgetSteps
    DEF CreateLock, busVars, dbVars
  <2>2. CallMoves(t, "refused", cmd[t])
    BY <1>1, ApiMoves DEF CreateLock, busVars
  <2>3. CallsTyped /\ \A s \in Turns : CallKept(s)
    BY <1>0, <2>2, MovedCalls
  <2> QED
    BY <1>0, <2>1, <2>3, KeptStep
<1>2. CASE lock = NoLock
  <2>1. CallMoves(t, "publish", cmd[t])
    BY <1>2, ApiMoves DEF CreateLock, busVars
  <2>2. lock' \in LockRecord(lock'.n) /\ lock'.turn = t /\ lock'.state = "requested"
    BY <1>2 DEF CreateLock, Requested, NoLock, LockRecord
  <2>3. TypeInv'
    BY <1>0, <2>1, <2>2 DEF Inv, TypeInv, CallMoves, CallsTyped
  <2>4. OutcomeInv'
    <3>1. \A k \in Tasks : TaskOutcome(k)'
      BY <1>0 DEF Inv, OutcomeInv, TaskOutcome, Committed
    <3>2. OutcomeAfterCommit'
      BY <1>0 DEF Inv, OutcomeInv, OutcomeAfterCommit
    <3> QED
      BY <2>2, <3>1, <3>2 DEF OutcomeInv
  <2>5. BeginInv'
    <3>1. ASSUME NEW s \in Turns PROVE Begins(s)'
      BY <1>0, <2>1, <2>2 DEF CallMoves, Inv, BeginInv, Begins, Answered
    <3>2. \A k \in Tasks : Busy(k)' => cmd'[k[1]] # "none"
      BY <1>0 DEF Inv, BeginInv, Busy
    <3> QED
      BY <3>1, <3>2 DEF BeginInv
  <2>6. ASSUME lapses' = 0 PROVE Alone'
    <3>1. Alone
      BY <1>0, <2>6 DEF Inv
    <3>2. ~Answered(t)' /\ \A k \in Tasks : k[1] = t => (task[k].pc \notin Driving)'
      BY <1>0 DEF Inv, BeginInv, Busy, Driving, Answered
    <3>3. \A k \in Tasks : (task[k].pc \in {"claim"} \cup Driving)' => ~Answered(k[1])'
      BY <1>0, <3>1 DEF Alone, Answered, Driving
    <3> QED
      BY <1>0, <2>2, <3>1, <3>2, <3>3 DEF Alone, Busy
  <2>7. AnsweredOnce'
    BY <1>0 DEF Inv, AnsweredOnce
  <2> QED
    BY <2>3, <2>4, <2>5, <2>6, <2>7 DEF Inv
<1> QED
  BY <1>1, <1>2

\* A command is stored for a turn that no task serves yet.
LEMMA PublishCommandStep ==
  ASSUME Inv, NEW t \in Turns, PublishCommand(t)
  PROVE  Inv'
<1>0. cmd[t] = "none" /\ \A k \in Tasks : k[1] = t => ~Busy(k)
  BY DEF PublishCommand, Inv, BeginInv, Begins
<1>1. LockMilder /\ TasksKept /\ EventsKept /\ BudgetKept
  BY SameLock, SameTasks, SameEvents, BudgetSteps DEF PublishCommand, dbVars
<1>2. CallsTyped /\ \A s \in Turns : CallKept(s)
  <2>1. \/ CallMoves(t, "accepted", "queued") \/ CallMoves(t, "undo", "queued")
        \/ CallMoves(t, "undo", "none")
    BY <1>0 DEF PublishCommand, Inv, TypeInv, CallMoves, CallsTyped
  <2> QED
    BY <1>0, <2>1, MovedCalls
<1> QED
  BY <1>1, <1>2, KeptStep DEF PublishCommand, dbVars

LEMMA UndoRecordStep ==
  ASSUME Inv, NEW t \in Turns, UndoRecord(t)
  PROVE  Inv'
<1>1. LockMilder /\ TasksKept /\ EventsKept /\ BudgetKept
  BY SameLock, SameTasks, SameEvents, BudgetSteps DEF UndoRecord, busVars
<1>2. CallsTyped /\ \A s \in Turns : CallKept(s)
  <2>1. CallMoves(t, "release", cmd[t])
    BY ApiMoves DEF UndoRecord, busVars
  <2> QED
    BY <2>1, MovedCalls
<1> QED
  BY <1>1, <1>2, KeptStep DEF UndoRecord

LEMMA PurgeLock ==
  ASSUME Inv, NEW t, Purge(t)
  PROVE  LockMilder
  BY SameLock, GoneLock DEF Purge

LEMMA UndoReleaseStep ==
  ASSUME Inv, NEW t \in Turns, UndoRelease(t)
  PROVE  Inv'
<1>0. LockMilder
  BY SameLock, PurgeLock DEF UndoRelease
<1>1. TasksKept /\ EventsKept /\ BudgetKept
  BY <1>0, SameTasks, SameEvents, BudgetSteps DEF UndoRelease, busVars, dbVars
<1>2. CallsTyped /\ \A s \in Turns : CallKept(s)
  <2>1. CallMoves(t, "refused", cmd[t])
    BY ApiMoves DEF UndoRelease, busVars
  <2> QED
    BY <2>1, MovedCalls
<1> QED
  BY <1>0, <1>1, <1>2, KeptStep DEF UndoRelease, dbVars

LEMMA ApiCrashStep ==
  ASSUME Inv, NEW t \in Turns, ApiCrash(t)
  PROVE  Inv'
<1>1. LockMilder /\ TasksKept /\ EventsKept /\ BudgetKept
  BY SameLock, SameTasks, SameEvents, BudgetSteps DEF ApiCrash, busVars, dbVars
<1>2. CallsTyped /\ \A s \in Turns : CallKept(s)
  <2>1. CallMoves(t, "dead", cmd[t])
    BY ApiMoves DEF ApiCrash, busVars
  <2> QED
    BY <2>1, MovedCalls
<1> QED
  BY <1>1, <1>2, KeptStep DEF ApiCrash, dbVars

\* A flag of the entry changes, or its lease.
LEMMA FlaggedLock ==
  ASSUME Inv, \/ lock' = [lock EXCEPT !.stop = TRUE] \/ lock' = [lock EXCEPT !.fresh = FALSE]
              \/ lock' = [lock EXCEPT !.published = TRUE],
         lock.turn # None
  PROVE  LockMilder
<1>1. lock \in LockRecord(lock.n)
  BY DEF Inv, TypeInv
<1>2. /\ lock' \in LockRecord(lock.n)
      /\ lock'.turn = lock.turn /\ lock'.state = lock.state /\ lock'.n = lock.n
  BY <1>1 DEF LockRecord
<1> QED
  BY <1>2 DEF Inv, OutcomeInv, LockMilder

LEMMA StopTurnStep ==
  ASSUME Inv, StopTurn
  PROVE  Inv'
<1>0. LockMilder
  BY GoneLock, FlaggedLock DEF StopTurn, Inv, TypeInv
<1>1. TasksKept /\ EventsKept /\ BudgetKept
  BY <1>0, SameTasks, SameEvents, BudgetSteps DEF StopTurn, dbVars
<1> QED
  BY <1>0, <1>1, SameCalls, KeptStep DEF StopTurn, dbVars, apiVars

LEMMA LeaseExpiresStep ==
  ASSUME Inv, LeaseExpires
  PROVE  Inv'
<1>0. LockMilder
  <2>1. lock.turn # None
    BY SMT DEF LeaseExpires, Inv, TypeInv, NoLock
  <2> QED
    BY <2>1, FlaggedLock DEF LeaseExpires
<1>1. TasksKept /\ EventsKept /\ BudgetKept
  BY <1>0, SameTasks, SameEvents, BudgetSteps DEF LeaseExpires, busVars, dbVars
<1> QED
  BY <1>0, <1>1, SameCalls, KeptStep DEF LeaseExpires, busVars, dbVars, apiVars

LEMMA KeyExpiresStep ==
  ASSUME Inv, KeyExpires
  PROVE  Inv'
<1>0. LockMilder
  BY GoneLock DEF KeyExpires
<1>1. TasksKept /\ EventsKept /\ BudgetKept
  BY <1>0, SameTasks, SameEvents, BudgetSteps DEF KeyExpires, busVars, dbVars
<1> QED
  BY <1>0, <1>1, SameCalls, KeptStep DEF KeyExpires, busVars, dbVars, apiVars

\* Without a lapse a command comes again for a turn that no task serves.
LEMMA AckWaitStep ==
  ASSUME Inv, NEW t \in Turns, AckWait(t)
  PROVE  Inv'
<1>1. LockMilder /\ TasksKept /\ EventsKept /\ BudgetKept
  BY SameLock, SameTasks, SameEvents, BudgetSteps DEF AckWait, dbVars
<1>2. CallsTyped /\ \A s \in Turns : CallKept(s)
  <2>1. CallMoves(t, api[t], "queued")
    BY CmdMoves DEF AckWait, apiVars
  <2>2. lapses' # 0 \/ \A k \in Tasks : k[1] = t => ~Busy(k)
    <3>1. CASE Lapse
      BY SMT, <3>1 DEF Lapse, Inv, TypeInv
    <3>2. CASE ~Served(t)
      BY SMT, <3>2 DEF Served, Tasks
    <3> QED
      BY <3>1, <3>2 DEF AckWait
  <2>3. api[t] \notin {"idle", "acquire", "create", "publish"}
    BY DEF AckWait, Inv, BeginInv, Begins
  <2> QED
    BY <2>1, <2>2, <2>3, MovedCalls
<1> QED
  BY <1>1, <1>2, KeptStep DEF AckWait, dbVars

LEMMA IdleType ==
  /\ IdleTask \in TaskRecord(0) /\ IdleTask.pc = "idle" /\ IdleTask.way = "failed"
  /\ IdleTask.n = 0
  BY DEF IdleTask, TaskRecord, Pcs, Outcomes

LEMMA CrashStep ==
  ASSUME Inv, NEW w \in Workers, Crash(w)
  PROVE  Inv'
<1>0. LockMilder /\ EventsKept /\ BudgetKept
  BY SameLock, SameEvents, BudgetSteps DEF Crash
<1>1. TasksKept
  <2>1. ASSUME NEW k \in Tasks PROVE TaskKept(k)
    <3>1. CASE task'[k] = IdleTask
      BY <3>1, IdleType DEF TaskKept, TaskOutcome, Busy, Driving
    <3>2. CASE task'[k] = task[k]
      <4>1. TaskOutcome(k)'
        BY <3>2 DEF Crash, dbVars, Inv, OutcomeInv, TaskOutcome, Committed
      <4> QED
        BY <3>2, <4>1 DEF Inv, TypeInv, TaskKept, Busy
    <3> QED
      BY <3>1, <3>2 DEF Crash
  <2> QED
    BY <2>1 DEF Crash, TasksKept
<1> QED
  BY <1>0, <1>1, SameCalls, KeptStep DEF Crash, apiVars, dbVars

\* A delivery takes the command from the queue, where it is only while no task
\* serves the turn.
LEMMA DeliverStep ==
  ASSUME Inv, NEW k \in Tasks, Deliver(k)
  PROVE  Inv'
<1>0. /\ k[1] \in Turns /\ cmd[k[1]] = "queued" /\ ~Busy(k)
      /\ UNCHANGED <<api, lock, events, answers, faults, lapses>>
  BY TaskType DEF Deliver, Inv, apiVars, dbVars, budget
<1>1. CallMoves(k[1], api[k[1]], "delivered")
  BY <1>0, CmdMoves DEF Deliver
<1>2. Moves(k, "load", "failed", 0)
  <2>1. PICK w \in Workers :
          task' = [task EXCEPT ![k] = [IdleTask EXCEPT !.pc = "load", !.worker = w]]
    BY DEF Deliver
  <2> DEFINE r == [IdleTask EXCEPT !.pc = "load", !.worker = w]
  <2>2. r \in TaskRecord(0) /\ r.pc = "load" /\ r.way = "failed"
    BY DEF IdleTask, TaskRecord, Pcs, Outcomes
  <2>3. task' = [task EXCEPT ![k] = r]
    BY <2>1
  <2> HIDE DEF r
  <2> QED
    BY <2>2, <2>3, SetMoves DEF Inv
<1>3. TypeInv'
  BY <1>0, <1>1, <1>2 DEF Inv, TypeInv, CallMoves, CallsTyped, Moves
<1>4. OutcomeInv'
  <2>1. ASSUME NEW j \in Tasks PROVE TaskOutcome(j)'
    BY <1>0, <1>2 DEF Inv, OutcomeInv, TaskOutcome, Committed, Moves
  <2> QED
    BY <1>0, <2>1 DEF Inv, OutcomeInv, Committed, OutcomeAfterCommit
<1>5. BeginInv'
  <2>1. ASSUME NEW t \in Turns PROVE Begins(t)'
    BY <1>0, <1>1 DEF CallMoves, Inv, BeginInv, Begins, Answered
  <2>2. ASSUME NEW j \in Tasks, Busy(j)' PROVE cmd'[j[1]] # "none"
    <3>1. j[1] \in Turns
      BY DEF Tasks
    <3> QED
      BY <1>0, <1>1, <1>2, <2>2, <3>1 DEF CallMoves, Moves, Inv, BeginInv, Busy
  <2> QED
    BY <2>1, <2>2 DEF BeginInv
<1>6. ASSUME lapses' = 0 PROVE Alone'
  <2>0. Alone
    BY <1>0, <1>6 DEF Inv
  <2>1. \A j \in Tasks : j[1] = k[1] => ~Busy(j)
    BY <1>0, <2>0 DEF Alone
  <2>2. \A j \in Tasks : Busy(j)' => j = k \/ (Busy(j) /\ j[1] # k[1])
    BY <1>2, <2>1 DEF Moves, Busy
  <2>3. \A j \in Tasks : (task[j].pc \in {"claim"} \cup Driving)' =>
          task[j].pc \in {"claim"} \cup Driving
    BY <1>2 DEF Moves, Driving
  <2>4. \A j \in Tasks : (task[j].pc \in Driving)' => task[j].pc \in Driving
    BY <1>2 DEF Moves, Driving
  <2>5. \A j \in Tasks : Busy(j)' => cmd'[j[1]] # "queued"
    <3>1. \A j \in Tasks : j[1] \in Turns
      BY DEF Tasks
    <3> QED
      BY <1>0, <1>1, <2>0, <2>2, <3>1 DEF CallMoves, Alone
  <2>6. \A t : Answered(t)' => Answered(t)
    BY <1>0 DEF Answered
  <2> QED
    BY <1>0, <2>0, <2>2, <2>3, <2>4, <2>5, <2>6 DEF Alone
<1>7. AnsweredOnce'
  BY <1>0 DEF Inv, AnsweredOnce
<1> QED
  BY <1>3, <1>4, <1>5, <1>6, <1>7 DEF Inv

-----------------------------------------------------------------------------
(***************************************************************************)
(* run_turn and drive_turn                                                 *)
(***************************************************************************)

\* What a task step that tells nobody comes to.
Ran(k) == \E pc, way, n : Moves(k, pc, way, n) /\ Allowed(k, pc, way, n)

LEMMA RunStep ==
  ASSUME Inv, NEW k \in Tasks, Busy(k), Ran(k), LockMilder, EventsKept,
         UNCHANGED <<api, cmd, answers>>, UNCHANGED budget \/ Spend
  PROVE  Inv'
<1>1. TasksKept
  BY MovedTasks DEF Ran
<1> QED
  BY <1>1, KeptStep, SameCalls, BudgetSteps

LEMMA QuitRan ==
  ASSUME Inv, NEW k \in Tasks, Quit(k)
  PROVE  Ran(k)
  BY QuitMoves, AlwaysAllowed DEF Inv, Ran

LEMMA FailRan ==
  ASSUME Inv, NEW k \in Tasks, Fail(k)
  PROVE  Ran(k)
  BY FailMoves, AlwaysAllowed DEF Inv, Ran

LEMMA FailOwnedRan ==
  ASSUME Inv, NEW k \in Tasks, NEW q \in BOOLEAN, FailOwned(k, q)
  PROVE  Ran(k)
  BY FailOwnedMoves, AlwaysAllowed DEF Inv, Ran

LEMMA GotoRan ==
  ASSUME Inv, NEW k \in Tasks, NEW pc \in Pcs, Goto(k, pc),
         Allowed(k, pc, task[k].way, task[k].n)
  PROVE  Ran(k)
  BY GotoMoves DEF Inv, Ran

LEMMA ThenRan ==
  ASSUME Inv, NEW k \in Tasks, NEW pc \in Pcs, Then(k, pc),
         Allowed(k, pc, task[k].way, task[k].n)
  PROVE  Ran(k) /\ (UNCHANGED budget \/ Spend)
  BY GotoRan, FailRan DEF Then

LEMMA LoadLockStep ==
  ASSUME Inv, NEW k \in Tasks, LoadLock(k)
  PROVE  Inv'
<1>0. task[k].pc = "load" /\ task[k].way = "failed" /\ Busy(k)
  BY DEF LoadLock, At, Inv, OutcomeInv, TaskOutcome, Busy
<1>1. LockMilder /\ EventsKept
  BY SameLock, SameEvents DEF LoadLock, busVars
<1>2. Ran(k)
  <2>0. {"orphan", "ack", "stale", "claim"} \subseteq Pcs
    BY DEF Pcs
  <2>1. CASE Quit(k)
    BY <2>1, QuitRan
  <2>2. CASE Goto(k, "orphan") \/ Goto(k, "ack") \/ Goto(k, "stale")
    <3>1. \A pc \in {"orphan", "ack", "stale"} : Allowed(k, pc, task[k].way, task[k].n)
      BY <1>0 DEF Allowed, Driving
    <3> QED
      BY <2>0, <2>2, <3>1, GotoRan
  <2>3. CASE lock.turn = k[1] /\ lock.state = "requested" /\ Goto(k, "claim")
    <3>1. Allowed(k, "claim", task[k].way, task[k].n)
      BY <1>0, <2>3 DEF Allowed, Driving
    <3> QED
      BY <2>0, <2>3, <3>1, GotoRan
  <2>4. CASE /\ lock.turn = k[1] /\ Terminal(lock)
             /\ task' = [task EXCEPT ![k].pc = "missing", ![k].way = lock.state,
                                     ![k].n = lock.n]
    <3> DEFINE r == [task[k] EXCEPT !.pc = "missing", !.way = lock.state, !.n = lock.n]
    <3>1. task[k] \in TaskRecord(task[k].n) /\ task = [j \in Tasks |-> task[j]]
      BY TaskType DEF Inv
    <3>2. r \in TaskRecord(lock.n) /\ r.pc = "missing" /\ r.way = lock.state
      BY <2>4, <3>1 DEF TaskRecord, Pcs, Terminal
    <3>3. task' = [task EXCEPT ![k] = r]
      BY <2>4, <3>1
    <3> HIDE DEF r
    <3>4. Moves(k, "missing", lock.state, lock.n)
      BY <3>2, <3>3, SetMoves DEF Inv
    <3>5. Allowed(k, "missing", lock.state, lock.n)
      BY <2>4 DEF Allowed, Driving, Inv, OutcomeInv, Terminal, Outcomes
    <3> QED
      BY <3>4, <3>5 DEF Ran
  <2> QED
    BY <2>1, <2>2, <2>3, <2>4 DEF LoadLock
<1> QED
  BY <1>0, <1>1, <1>2, RunStep DEF LoadLock, apiVars, busVars, dbVars

\* An entry that is given an outcome has it committed or failed.
LEMMA EndedLock ==
  ASSUME Inv, NEW way \in Outcomes, NEW n, lock.turn # None,
         lock' = [lock EXCEPT !.state = way, !.published = FALSE, !.fresh = TRUE, !.n = n],
         way # "failed" => Committed(lock.turn, n)
  PROVE  LockMilder /\ lock'.state # "requested"
<1>1. lock \in LockRecord(lock.n)
  BY DEF Inv, TypeInv
<1>2. /\ lock' \in LockRecord(n)
      /\ lock'.turn = lock.turn /\ lock'.state = way /\ lock'.n = n
  BY <1>1 DEF LockRecord
<1> QED
  BY <1>2 DEF LockMilder, Outcomes

LEMMA MarkStaleStep ==
  ASSUME Inv, NEW k \in Tasks, MarkStale(k)
  PROVE  Inv'
<1>0. task[k].pc = "stale" /\ task[k].way = "failed" /\ Busy(k) /\ k[1] # None
  BY ChatAssumption, TaskType DEF MarkStale, At, Inv, OutcomeInv, TaskOutcome, Busy
<1>1. LockMilder
  <2>1. "failed" \in Outcomes
    BY DEF Outcomes
  <2> QED
    BY <1>0, <2>1, SameLock, EndedLock DEF MarkStale
<1>2. Ran(k) /\ (UNCHANGED budget \/ Spend)
  <2>1. "record" \in Pcs /\ Allowed(k, "record", task[k].way, task[k].n)
    BY <1>0 DEF Allowed, Driving, Pcs
  <2> QED
    BY <2>1, QuitRan, ThenRan DEF MarkStale
<1>3. EventsKept
  BY SameEvents DEF MarkStale, busVars
<1> QED
  BY <1>0, <1>1, <1>2, <1>3, RunStep DEF MarkStale, apiVars, busVars, dbVars

LEMMA RecordStaleStep ==
  ASSUME Inv, NEW k \in Tasks, RecordStale(k)
  PROVE  Inv'
<1>0. task[k].pc = "record" /\ task[k].way = "failed" /\ Busy(k)
  BY DEF RecordStale, At, Inv, OutcomeInv, TaskOutcome, Busy
<1>1. LockMilder /\ EventsKept
  BY SameLock, SameEvents DEF RecordStale, busVars
<1>2. Ran(k) /\ (UNCHANGED budget \/ Spend)
  <2>1. "missing" \in Pcs /\ Allowed(k, "missing", task[k].way, task[k].n)
    BY <1>0 DEF Allowed, Driving, Pcs
  <2> QED
    BY <2>1, ThenRan DEF RecordStale
<1> QED
  BY <1>0, <1>1, <1>2, RunStep DEF RecordStale, apiVars, busVars

LEMMA RecordFailedStep ==
  ASSUME Inv, NEW k \in Tasks, RecordFailed(k)
  PROVE  Inv'
<1>0. task[k].way = "failed" /\ Busy(k)
  BY DEF RecordFailed, Inv, OutcomeInv, TaskOutcome, Busy
<1>1. LockMilder /\ EventsKept
  BY SameLock, SameEvents DEF RecordFailed, busVars
<1>2. Ran(k)
  <2>1. {"tell", "publish"} \subseteq Pcs
    BY DEF Pcs
  <2>2. \A pc \in {"tell", "publish"} : Allowed(k, pc, task[k].way, task[k].n)
    BY <1>0 DEF Allowed, Driving
  <2> QED
    BY <2>1, <2>2, GotoRan DEF RecordFailed
<1> QED
  BY <1>0, <1>1, <1>2, RunStep DEF RecordFailed, apiVars, busVars

LEMMA PublishOutcomeStep ==
  ASSUME Inv, NEW k \in Tasks, PublishOutcome(k)
  PROVE  Inv'
<1>0. /\ task[k].pc \in {"tell", "missing", "publish"} /\ Busy(k)
      /\ task[k].way # "failed" => Committed(k[1], task[k].n)
  BY DEF PublishOutcome, Inv, OutcomeInv, TaskOutcome, Busy
<1>1. LockMilder
  BY SameLock DEF PublishOutcome
<1>2. EventsKept
  <2> DEFINE e0 == [turn |-> k[1], way |-> task[k].way, n |-> task[k].n]
  <2>1. e0.turn = k[1] /\ e0.way = task[k].way /\ e0.n = task[k].n
    OBVIOUS
  <2>2. events' = events \cup {e0}
    BY DEF PublishOutcome
  <2> HIDE DEF e0
  <2> QED
    BY <1>0, <2>1, <2>2 DEF EventsKept
<1>3. Ran(k) /\ (UNCHANGED budget \/ Spend)
  <2>1. {"ackonly", "markpub"} \subseteq Pcs
    BY DEF Pcs
  <2>2. \A pc \in {"ackonly", "markpub"} : Allowed(k, pc, task[k].way, task[k].n)
    BY <1>0 DEF Allowed, Driving
  <2> QED
    BY <2>1, <2>2, ThenRan DEF PublishOutcome
<1> QED
  BY <1>0, <1>1, <1>2, <1>3, RunStep DEF PublishOutcome, apiVars, dbVars

\* A task that claims the entry serves a turn without an answer, and leaves the
\* entry claimed.
LEMMA ClaimMoves ==
  ASSUME TypeInv, NEW k \in Tasks,
         task' = [task EXCEPT ![k].pc = "start", ![k].stop = lock.stop]
  PROVE  Moves(k, "start", task[k].way, task[k].n)
<1> DEFINE r == [task[k] EXCEPT !.pc = "start", !.stop = lock.stop]
<1>1. task[k] \in TaskRecord(task[k].n) /\ task = [j \in Tasks |-> task[j]]
  BY TaskType
<1>2. lock.stop \in BOOLEAN
  BY DEF TypeInv, LockRecord
<1>3. r \in TaskRecord(task[k].n) /\ r.pc = "start" /\ r.way = task[k].way
  BY <1>1, <1>2 DEF TaskRecord, Pcs
<1>4. task' = [task EXCEPT ![k] = r]
  BY <1>1
<1> HIDE DEF r
<1> QED
  BY <1>3, <1>4, SetMoves

LEMMA ClaimLockStep ==
  ASSUME Inv, NEW k \in Tasks, ClaimLock(k)
  PROVE  Inv'
<1>0. task[k].pc = "claim" /\ task[k].way = "failed" /\ Busy(k) /\ k[1] # None
  BY ChatAssumption, TaskType DEF ClaimLock, At, Inv, OutcomeInv, TaskOutcome, Busy
<1>1. LockMilder /\ (lock' = lock \/ lock'.state = "running")
  <2>1. CASE lock' = lock
    BY <2>1, SameLock
  <2>2. CASE /\ lock.turn = k[1]
             /\ lock' = [lock EXCEPT !.state = "running", !.worker = task[k].worker]
    <3>1. lock \in LockRecord(lock.n) /\ task[k].worker \in Workers \cup {None}
      BY DEF Inv, TypeInv, TaskRecord
    <3>2. /\ lock' \in LockRecord(lock.n)
          /\ lock'.turn = lock.turn /\ lock'.state = "running" /\ lock'.n = lock.n
      BY <2>2, <3>1 DEF LockRecord
    <3> QED
      BY <1>0, <2>2, <3>2 DEF LockMilder
  <2> QED
    BY <2>1, <2>2 DEF ClaimLock
<1>2. Ran(k) /\ (UNCHANGED budget \/ Spend)
  <2>1. CASE Quit(k) /\ UNCHANGED budget
    BY <2>1, QuitRan
  <2>2. CASE Spend /\ Fail(k)
    BY <2>2, FailRan
  <2>3. CASE /\ lock'.state # "requested" /\ UNCHANGED budget
             /\ task' = [task EXCEPT ![k].pc = "start", ![k].stop = lock.stop]
    <3>1. Moves(k, "start", task[k].way, task[k].n)
      BY <2>3, ClaimMoves DEF Inv
    <3>2. Allowed(k, "start", task[k].way, task[k].n)
      BY <1>0, <2>3 DEF Allowed, Driving
    <3> QED
      BY <2>3, <3>1, <3>2 DEF Ran
  <2>4. Terminal(lock) => lock.state # "requested"
    BY DEF Terminal, Outcomes
  <2>5. lock' = [lock EXCEPT !.state = "running", !.worker = task[k].worker] =>
          lock'.state # "requested"
    BY DEF Inv, TypeInv, LockRecord
  <2> QED
    BY <2>1, <2>2, <2>3, <2>4, <2>5 DEF ClaimLock
<1>3. EventsKept
  BY SameEvents DEF ClaimLock, busVars
<1> QED
  BY <1>0, <1>1, <1>2, <1>3, RunStep DEF ClaimLock, apiVars, busVars, dbVars

LEMMA CommitNext ==
  ASSUME Inv, NEW k \in Tasks, task[k].pc \in Driving, NEW way \in Outcomes,
         task' = [task EXCEPT ![k].pc = "commit", ![k].way = way]
  PROVE  Ran(k)
<1> DEFINE r == [task[k] EXCEPT !.pc = "commit", !.way = way]
<1>1. task[k] \in TaskRecord(task[k].n) /\ task = [j \in Tasks |-> task[j]]
  BY TaskType DEF Inv
<1>2. r \in TaskRecord(task[k].n) /\ r.pc = "commit" /\ r.way = way
  BY <1>1 DEF TaskRecord, Pcs
<1>3. task' = [task EXCEPT ![k] = r]
  BY <1>1
<1> HIDE DEF r
<1>4. Moves(k, "commit", way, task[k].n)
  <2>1. Moves(k, r.pc, r.way, task[k].n)
    BY <1>2, <1>3, SetMoves DEF Inv
  <2> QED
    BY <1>2, <2>1
<1>5. Allowed(k, "commit", way, task[k].n)
  BY DEF Allowed, Driving
<1> QED
  BY <1>4, <1>5 DEF Ran

LEMMA StartTurnStep ==
  ASSUME Inv, NEW k \in Tasks, StartTurn(k)
  PROVE  Inv'
<1>0. task[k].pc = "start" /\ task[k].pc \in Driving /\ task[k].way = "failed" /\ Busy(k)
  BY DEF StartTurn, At, Inv, OutcomeInv, TaskOutcome, Busy, Driving
<1>1. LockMilder /\ EventsKept
  BY SameLock, SameEvents DEF StartTurn, busVars
<1>2. Ran(k)
  <2>1. "stream" \in Pcs /\ Allowed(k, "stream", task[k].way, task[k].n)
    BY <1>0 DEF Allowed, Driving, Pcs
  <2>2. "interrupted" \in Outcomes
    BY DEF Outcomes
  <2> QED
    BY <1>0, <2>1, <2>2, GotoRan, CommitNext, FailOwnedRan DEF StartTurn
<1> QED
  BY <1>0, <1>1, <1>2, RunStep DEF StartTurn, apiVars, busVars, dbVars

LEMMA StreamAnswerStep ==
  ASSUME Inv, NEW k \in Tasks, StreamAnswer(k)
  PROVE  Inv'
<1>0. task[k].pc \in Driving /\ Busy(k)
  BY DEF StreamAnswer, At, Busy, Driving
<1>1. LockMilder /\ EventsKept
  BY SameLock, SameEvents DEF StreamAnswer, busVars
<1>2. Ran(k)
  <2>1. {"committed", "interrupted"} \subseteq Outcomes
    BY DEF Outcomes
  <2> QED
    BY <1>0, <2>1, CommitNext, FailOwnedRan DEF StreamAnswer
<1> QED
  BY <1>0, <1>1, <1>2, RunStep DEF StreamAnswer, apiVars, busVars, dbVars

\* The step that adds an answer.
LEMMA AnswerStep ==
  ASSUME Inv, NEW k \in Tasks, task[k].pc = "commit", NEW n, NEW way, NEW m,
         Moves(k, "mark", way, m), way # "failed" => m = n,
         answers' = answers \cup {[turn |-> k[1], n |-> n]},
         UNCHANGED <<api, cmd, events, lock>>, BudgetKept
  PROVE  Inv'
<1>0. Busy(k) /\ cmd[k[1]] # "none"
  BY DEF Inv, BeginInv, Busy
<1>1. \A t, i : Committed(t, i) => Committed(t, i)'
  BY DEF Committed
<1>2. Committed(k[1], n)'
  BY DEF Committed
<1>3. \A t : Answered(t)' => Answered(t) \/ t = k[1]
  <2> DEFINE a0 == [turn |-> k[1], n |-> n]
  <2>1. a0.turn = k[1] /\ answers' = answers \cup {a0}
    OBVIOUS
  <2> HIDE DEF a0
  <2> QED
    BY <2>1 DEF Answered
<1>4. TypeInv'
  BY DEF Inv, TypeInv, Moves, BudgetKept
<1>5. OutcomeInv'
  <2>1. ASSUME NEW j \in Tasks, j # k PROVE TaskOutcome(j)'
    BY <1>1, <2>1 DEF Inv, OutcomeInv, TaskOutcome, Moves
  <2>2. TaskOutcome(k)'
    BY <1>2 DEF TaskOutcome, Moves
  <2>3. OutcomeAfterCommit'
    BY DEF Inv, OutcomeInv, OutcomeAfterCommit
  <2> QED
    BY <1>1, <2>1, <2>2, <2>3 DEF Inv, OutcomeInv
<1>6. BeginInv'
  <2>1. ASSUME NEW t \in Turns PROVE Begins(t)'
    BY <1>0, <1>3 DEF Inv, BeginInv, Begins
  <2> QED
    BY <1>0, <2>1 DEF Inv, BeginInv, Moves, Busy
<1>7. ASSUME lapses' = 0 PROVE Alone' /\ ~Answered(k[1])
  <2>0. Alone /\ ~Answered(k[1])
    BY <1>7 DEF Inv, BudgetKept, Alone, Driving
  <2>1. \A j \in Tasks : Busy(j)' => Busy(j)
    BY <1>0 DEF Moves, Busy
  <2>2. \A j \in Tasks : (task[j].pc \in {"claim"} \cup Driving)' =>
          /\ task[j].pc \in {"claim"} \cup Driving
          /\ j[1] # k[1]
    BY <1>0, <2>0 DEF Moves, Busy, Driving, Alone
  <2>3. lock'.state = "requested" => ~Answered(lock.turn)'
    BY <1>3, <2>0 DEF Alone, Driving
  <2>4. \A j \in Tasks : (task[j].pc \in Driving)' => task[j].pc \in Driving
    BY DEF Moves, Driving
  <2> QED
    BY <1>3, <2>0, <2>1, <2>2, <2>3, <2>4 DEF Alone
<1>8. AnsweredOnce'
  <2> DEFINE a0 == [turn |-> k[1], n |-> n]
  <2>1. a0.turn = k[1] /\ answers' = answers \cup {a0}
    BY SMT
  <2> HIDE DEF a0
  <2>2. ASSUME lapses' = 0 PROVE \A a \in answers : a.turn # k[1]
    BY <1>7, <2>2 DEF Answered
  <2> QED
    BY <2>1, <2>2 DEF Inv, AnsweredOnce, BudgetKept
<1> QED
  BY <1>4, <1>5, <1>6, <1>7, <1>8 DEF Inv

LEMMA CommitTurnStep ==
  ASSUME Inv, NEW k \in Tasks, CommitTurn(k)
  PROVE  Inv'
<1> DEFINE n == Cardinality({a \in answers : a.turn = k[1]}) + 1
<1> HIDE DEF n
<1>0. /\ task[k].pc = "commit" /\ Busy(k)
      /\ UNCHANGED <<api, cmd, events, lock>>
  BY DEF CommitTurn, At, Busy, apiVars, busVars
<1>1. UNCHANGED budget \/ Spend
  BY DEF CommitTurn
<1>2. BudgetKept
  BY <1>1, BudgetSteps
<1>3. CASE UNCHANGED answers /\ FailOwned(k, TRUE)
  <2>1. Ran(k) /\ LockMilder /\ EventsKept
    BY <1>0, <1>3, FailOwnedRan, SameLock, SameEvents
  <2> QED
    BY <1>0, <1>1, <1>3, <2>1, RunStep
<1>4. CASE answers' = answers \cup {[turn |-> k[1], n |-> n]} /\ FailOwned(k, TRUE)
  <2>1. Moves(k, "mark", "failed", 0)
    BY <1>4, FailOwnedMoves DEF Inv
  <2> QED
    BY <1>0, <1>2, <1>4, <2>1, AnswerStep
<1>5. CASE /\ answers' = answers \cup {[turn |-> k[1], n |-> n]}
           /\ task' = [task EXCEPT ![k].pc = "mark", ![k].n = n]
  <2> DEFINE r == [task[k] EXCEPT !.pc = "mark", !.n = n]
  <2>1. task[k] \in TaskRecord(task[k].n) /\ task = [j \in Tasks |-> task[j]]
    BY SMT, TaskType DEF Inv
  <2>2. r \in TaskRecord(n) /\ r.pc = "mark" /\ r.way = task[k].way
    BY <2>1 DEF TaskRecord, Pcs
  <2>3. task' = [task EXCEPT ![k] = r]
    BY <1>5, <2>1
  <2> HIDE DEF r
  <2>4. Moves(k, r.pc, r.way, n)
    BY <2>2, <2>3, SetMoves DEF Inv
  <2>5. Moves(k, "mark", task[k].way, n)
    BY <2>2, <2>4
  <2> QED
    BY <1>0, <1>2, <1>5, <2>5, AnswerStep
<1> QED
  BY <1>3, <1>4, <1>5 DEF CommitTurn, dbVars, n

LEMMA MarkTerminalStep ==
  ASSUME Inv, NEW k \in Tasks, MarkTerminal(k)
  PROVE  Inv'
<1>0. /\ task[k].pc = "mark" /\ Busy(k) /\ k[1] # None /\ task[k].way \in Outcomes
      /\ task[k].way # "failed" => Committed(k[1], task[k].n)
  <2>1. task[k].pc = "mark" /\ Busy(k)
    BY DEF MarkTerminal, At, Busy
  <2>2. k[1] # None /\ task[k].way \in Outcomes
    BY ChatAssumption, TaskType DEF Inv
  <2> QED
    BY <2>1, <2>2 DEF Inv, OutcomeInv, TaskOutcome
<1>1. LockMilder
  BY <1>0, SameLock, EndedLock DEF MarkTerminal
<1>2. Ran(k) /\ (UNCHANGED budget \/ Spend)
  <2>1. {"failed", "publish"} \subseteq Pcs
    BY DEF Pcs
  <2>2. /\ task[k].way = "failed" => Allowed(k, "failed", task[k].way, task[k].n)
        /\ Allowed(k, "publish", task[k].way, task[k].n)
    BY <1>0 DEF Allowed, Driving
  <2> QED
    BY <2>1, <2>2, FailRan, ThenRan DEF MarkTerminal
<1>3. EventsKept
  BY SameEvents DEF MarkTerminal, busVars
<1> QED
  BY <1>0, <1>1, <1>2, <1>3, RunStep DEF MarkTerminal, apiVars, busVars, dbVars

LEMMA MarkPublishedStep ==
  ASSUME Inv, NEW k \in Tasks, MarkPublished(k)
  PROVE  Inv'
<1>0. Busy(k) /\ k[1] # None
  BY ChatAssumption, TaskType DEF MarkPublished, At, Busy, Inv
<1>1. LockMilder /\ EventsKept
  BY <1>0, SameLock, FlaggedLock, SameEvents DEF MarkPublished, busVars
<1>2. Ran(k) /\ (UNCHANGED budget \/ Spend)
  <2>1. "ack" \in Pcs
    BY SMT DEF Pcs
  <2> QED
    BY <2>1, AlwaysAllowed, ThenRan DEF MarkPublished
<1> QED
  BY <1>0, <1>1, <1>2, RunStep DEF MarkPublished, apiVars, busVars, dbVars

LEMMA AckCommandStep ==
  ASSUME Inv, NEW k \in Tasks, AckCommand(k)
  PROVE  Inv'
<1>0. Busy(k) /\ k[1] \in Turns /\ cmd[k[1]] # "none"
  BY TaskType DEF AckCommand, Busy, Inv, BeginInv
<1>1. LockMilder /\ EventsKept /\ BudgetKept
  BY SameLock, SameEvents, BudgetSteps DEF AckCommand
<1>2. TasksKept
  <2>1. Ran(k)
    <3>1. "release" \in Pcs
      BY DEF Pcs
    <3> QED
      BY <3>1, AlwaysAllowed, GotoRan, QuitRan DEF AckCommand
  <2> QED
    BY <1>0, <1>1, <2>1, MovedTasks DEF Ran, AckCommand, dbVars
<1>3. CallsTyped /\ \A t \in Turns : CallKept(t)
  <2>1. CASE UNCHANGED cmd
    BY <2>1, SameCalls DEF AckCommand, apiVars
  <2>2. CASE cmd' = [cmd EXCEPT ![k[1]] = "acked"]
    <3>1. CallMoves(k[1], api[k[1]], "acked")
      BY <1>0, <2>2, CmdMoves DEF AckCommand, apiVars
    <3>2. api[k[1]] \notin {"idle", "acquire", "create", "publish"}
      BY <1>0 DEF Inv, BeginInv, Begins
    <3> QED
      BY <1>0, <3>1, <3>2, MovedCalls
  <2> QED
    BY <2>1, <2>2 DEF AckCommand
<1> QED
  BY <1>1, <1>2, <1>3, KeptStep DEF AckCommand, dbVars

LEMMA ReleaseLockStep ==
  ASSUME Inv, NEW k \in Tasks, ReleaseLock(k)
  PROVE  Inv'
<1>1. Busy(k) /\ LockMilder /\ EventsKept /\ Ran(k)
  BY PurgeLock, SameEvents, QuitRan DEF ReleaseLock, At, Busy, busVars
<1> QED
  BY <1>1, RunStep DEF ReleaseLock, apiVars, busVars, dbVars

LEMMA CallFailsStep ==
  ASSUME Inv, NEW k \in Tasks, CallFails(k)
  PROVE  Inv'
<1>1. Busy(k) /\ LockMilder /\ EventsKept /\ Ran(k)
  BY SameLock, SameEvents, FailRan DEF CallFails, Busy, busVars
<1> QED
  BY <1>1, RunStep DEF CallFails, apiVars, busVars, dbVars

-----------------------------------------------------------------------------
(***************************************************************************)
(* The invariant                                                           *)
(***************************************************************************)

LEMMA InitInv == Init => Inv
<1> SUFFICES ASSUME Init PROVE Inv
  OBVIOUS
<1>1. TypeInv
  <2>1. lock = NoLock /\ NoLock \in LockRecord(NoLock.n)
    BY NoLockType DEF Init
  <2>2. \A k \in Tasks : task[k] \in TaskRecord(task[k].n)
    BY IdleType DEF Init
  <2>3. task = [k \in Tasks |-> task[k]]
    BY DEF Init
  <2>4. lapses \in Nat /\ faults \in Nat
    BY DEF Init
  <2> QED
    BY <2>1, <2>2, <2>3, <2>4 DEF Init, TypeInv
<1>2. OutcomeInv
  BY IdleType, NoLockType DEF Init, OutcomeInv, TaskOutcome, OutcomeAfterCommit
<1>3. BeginInv
  BY IdleType, NoLockType, ChatAssumption DEF Init, BeginInv, Begins, Busy, Answered
<1>4. Alone
  BY IdleType, NoLockType DEF Init, Alone, Busy, Driving
<1>5. AnsweredOnce
  BY DEF Init, AnsweredOnce
<1> QED
  BY <1>1, <1>2, <1>3, <1>4, <1>5 DEF Inv

LEMMA StutterInv ==
  ASSUME Inv, UNCHANGED vars
  PROVE  Inv'
<1>1. /\ UNCHANGED <<task, answers, events, lock, api, cmd>> /\ UNCHANGED budget
  BY DEF vars, apiVars, busVars, dbVars
<1>2. LockMilder /\ EventsKept /\ BudgetKept
  BY <1>1, SameLock, SameEvents, BudgetSteps
<1>3. TasksKept
  BY <1>1, <1>2, SameTasks
<1> QED
  BY <1>1, <1>2, <1>3, SameCalls, KeptStep

LEMMA NextInv == Inv /\ [Next]_vars => Inv'
<1> SUFFICES ASSUME Inv, [Next]_vars PROVE Inv'
  OBVIOUS
<1>1. ASSUME NEW t \in Turns, Request(t) \/ ApiCrash(t) \/ AckWait(t) PROVE Inv'
  BY <1>1, AssertParentTailStep, AcquireLockStep, CreateLockStep, PublishCommandStep,
     UndoRecordStep, UndoReleaseStep, ApiCrashStep, AckWaitStep DEF Request
<1>2. ASSUME StopTurn \/ LeaseExpires \/ KeyExpires PROVE Inv'
  BY <1>2, StopTurnStep, LeaseExpiresStep, KeyExpiresStep
<1>3. ASSUME NEW k \in Tasks, Run(k) PROVE Inv'
  BY <1>3, LoadLockStep, MarkStaleStep, RecordStaleStep, RecordFailedStep,
     PublishOutcomeStep, ClaimLockStep, StartTurnStep, StreamAnswerStep, CommitTurnStep,
     MarkTerminalStep, MarkPublishedStep, AckCommandStep, ReleaseLockStep DEF Run
<1> QED
  BY <1>1, <1>2, <1>3, CrashStep, DeliverStep, CallFailsStep, StutterInv DEF Next

\* Finish and Interrupted name an answer that commit_pg_turn has put into the
\* database, whichever of the deliveries of a turn publishes them.
THEOREM EventsFollowCommits == Spec => []OutcomeAfterCommit
<1>1. Inv => OutcomeAfterCommit
  BY DEF Inv, OutcomeInv
<1> QED
  BY <1>1, InitInv, NextInv, PTL DEF Spec

\* As long as no lease and no ack wait runs out under a live task, no number of
\* crashes, lost replies and deliveries makes commit_pg_turn answer a turn twice.
THEOREM TurnsAnsweredOnce == Spec => []AnsweredOnce
<1>1. Inv => AnsweredOnce
  BY DEF Inv
<1> QED
  BY <1>1, InitInv, NextInv, PTL DEF Spec

-----------------------------------------------------------------------------
(***************************************************************************)
(* Who takes a live entry away                                             *)
(***************************************************************************)

\* The entry a step leaves is another turn's, or none, only if it was not
\* live, or if this turn gives it back.
Keeps(t) ==
  lock.turn = t /\ lock.fresh /\ lock'.turn # t =>
    \/ api[t] = "release" /\ api'[t] # "release"
    \/ \E i \in Slots : task[<<t, i>>].pc = "release" /\ task'[<<t, i>>].pc # "release"

LEMMA KeepsEntry ==
  ASSUME Inv, [Next]_vars, NEW t \in Turns
  PROVE  Keeps(t)
<1> SUFFICES ASSUME lock.turn = t, lock.fresh, lock'.turn # t
             PROVE  \/ api[t] = "release" /\ api'[t] # "release"
                    \/ \E i \in Slots : /\ task[<<t, i>>].pc = "release"
                                        /\ task'[<<t, i>>].pc # "release"
  BY DEF Keeps
<1>0. lock # NoLock /\ lock' # lock
  BY SMT, ChatAssumption DEF NoLock
<1>1. \A s \in Turns : ~(AssertParentTail(s) \/ PublishCommand(s) \/ UndoRecord(s)
                         \/ ApiCrash(s) \/ AckWait(s) \/ AcquireLock(s) \/ CreateLock(s))
  BY <1>0 DEF AssertParentTail, PublishCommand, UndoRecord, ApiCrash, AckWait,
                     AcquireLock, CreateLock
<1>2. /\ lock' # [lock EXCEPT !.stop = TRUE] /\ lock' # [lock EXCEPT !.fresh = FALSE]
      /\ lock' # [lock EXCEPT !.published = TRUE]
      /\ \A way, n : lock' # [lock EXCEPT !.state = way, !.published = FALSE,
                                          !.fresh = TRUE, !.n = n]
      /\ \A way, w : lock' # [lock EXCEPT !.state = way, !.worker = w]
  BY DEF Inv, TypeInv, LockRecord
<1>3. ~(StopTurn \/ LeaseExpires \/ KeyExpires) /\ \A w \in Workers : ~Crash(w)
  BY <1>0, <1>2 DEF StopTurn, LeaseExpires, KeyExpires, Crash
<1>4. \A k \in Tasks : ~(Deliver(k) \/ CallFails(k) \/ LoadLock(k) \/ RecordStale(k)
                         \/ RecordFailed(k) \/ PublishOutcome(k) \/ StartTurn(k)
                         \/ StreamAnswer(k) \/ CommitTurn(k) \/ AckCommand(k))
  BY <1>0 DEF Deliver, CallFails, LoadLock, RecordStale, RecordFailed, PublishOutcome,
                     StartTurn, StreamAnswer, CommitTurn, AckCommand
<1>5. \A k \in Tasks : ~(MarkStale(k) \/ ClaimLock(k) \/ MarkTerminal(k) \/ MarkPublished(k))
  <2> TAKE k \in Tasks
  <2>1. ~MarkStale(k)
    BY <1>0, <1>2 DEF MarkStale
  <2>2. ~ClaimLock(k)
    <3>1. lock' # [lock EXCEPT !.state = "running", !.worker = task[k].worker]
      BY <1>2
    <3> QED
      BY <1>0, <3>1 DEF ClaimLock
  <2>3. ~MarkTerminal(k)
    <3>1. lock' # [lock EXCEPT !.state = task[k].way, !.published = FALSE,
                               !.fresh = TRUE, !.n = task[k].n]
      BY <1>2
    <3> QED
      BY <1>0, <3>1 DEF MarkTerminal
  <2>4. ~MarkPublished(k)
    BY <1>0, <1>2 DEF MarkPublished
  <2> QED
    BY <2>1, <2>2, <2>3, <2>4
<1>6. ASSUME NEW s \in Turns, UndoRelease(s) PROVE api[t] = "release" /\ api'[t] # "release"
  <2>1. s = t
    BY <1>0, <1>6 DEF UndoRelease, Purge
  <2>2. CallMoves(t, "refused", cmd[t])
    BY <1>6, <2>1, ApiMoves DEF UndoRelease, busVars
  <2> QED
    BY <1>6, <2>1, <2>2 DEF UndoRelease, CallMoves
<1>7. ASSUME NEW k \in Tasks, ReleaseLock(k)
      PROVE  \E i \in Slots : task[<<t, i>>].pc = "release" /\ task'[<<t, i>>].pc # "release"
  <2>1. k[1] = t
    BY <1>0, <1>7 DEF ReleaseLock, Purge
  <2>2. k = <<t, k[2]>> /\ k[2] \in Slots
    BY SMT, <2>1 DEF Tasks
  <2>3. Moves(k, "idle", "failed", 0)
    BY <1>7, QuitMoves DEF ReleaseLock, Inv
  <2>4. task[k].pc = "release" /\ task'[k].pc # "release"
    BY <1>7, <2>3 DEF ReleaseLock, At, Moves
  <2> QED
    BY <2>2, <2>4
<1>8. ~UNCHANGED vars
  BY <1>0 DEF vars
<1> QED
  BY <1>1, <1>3, <1>4, <1>5, <1>6, <1>7, <1>8 DEF Next, Request, Run

\* release_lock of a turn that is over, a request for the next one, a stop and
\* an expiry never take a live entry from the turn that holds it.
THEOREM LiveEntryKept == Spec => LockKept
<1>1. Inv /\ [Next]_vars => \A t \in Turns : Keeps(t)
  BY KeepsEntry
<1>2. Inv /\ [Next]_vars =>
        [\A t \in Turns : lock.turn = t /\ lock.fresh /\ lock'.turn # t =>
           \/ api[t] = "release" /\ api'[t] # "release"
           \/ \E i \in Slots : /\ task[<<t, i>>].pc = "release"
                               /\ task'[<<t, i>>].pc # "release"]_vars
  BY <1>1 DEF Keeps
<1> QED
  BY <1>2, InitInv, NextInv, PTL DEF Spec, LockKept

-----------------------------------------------------------------------------
(***************************************************************************)
(* A command is acked when its turn has ended                              *)
(***************************************************************************)

\* The turn has ended in CHAT_EVENTS; the turn is one AckedIsSettled speaks of;
\* the entry is the task's and live.
Told(t) == \E e \in events : e.turn = t
Fine(t) == faults + lapses <= 1 /\ HasParent(t)
Owns(k) == lock.turn = k[1] /\ lock.worker = task[k].worker /\ lock.fresh

\* A failing call counts for nothing only in a task whose commit failed.  Such a
\* commit was the one fault, so the task still has its entry and nothing fails
\* until the turn is told.
Quiet == {"mark", "failed", "publish", "markpub", "ack", "release"}
TaskSettles(k) ==
  /\ task[k].quiet => task[k].pc \in Quiet
  /\ task[k].pc \in {"markpub", "ackonly"} => Told(k[1])
  /\ task[k].pc = "ack" /\ Fine(k[1]) => Told(k[1])
  /\ task[k].quiet /\ task[k].pc \in {"mark", "failed", "publish"} /\ Fine(k[1]) =>
       faults # 0 /\ lapses = 0
  /\ task[k].quiet /\ task[k].pc = "mark" /\ Fine(k[1]) =>
       Owns(k) /\ api[k[1]] \notin {"undo", "release"}
  /\ faults + lapses = 0 /\ task[k].pc \in Driving => Owns(k)
  /\ lapses = 0 /\ task[k].pc = "claim" /\ lock.turn = k[1] => ~Terminal(lock)

\* An answer that was removed does not come back: each has a number of its own.
MsgInv ==
  /\ IsFiniteSet(answers)
  /\ \A a \in answers : /\ a.n \in Nat
                        /\ a.n <= Cardinality({b \in answers : b.turn = a.turn})
  /\ msgs \in Seq(answers)
  /\ parent \in [Turns -> answers \cup {NoAnswer}]

SettleInv ==
  /\ \A k \in Tasks : TaskSettles(k)
  /\ lock.published => Told(lock.turn)
  /\ \A t \in Turns : cmd[t] = "acked" /\ Fine(t) => Told(t)
  /\ faults = 0 => \A t \in Turns : api[t] \notin {"undo", "release"}
  /\ MsgInv

-----------------------------------------------------------------------------
\* Nothing told is untold, no budget is given back, a removed parent stays
\* removed, and enqueue_turn takes its request back only after a fault.
Undoing == {"undo", "release"}

\* The turn has ended after the step.
ToldNow(t) == \E e \in events' : e.turn = t

Forward ==
  /\ events \subseteq events'
  /\ faults' \in Nat /\ lapses' \in Nat /\ faults <= faults' /\ lapses <= lapses'
  /\ \A t \in Turns : api[t] # "idle" /\ HasParent(t)' => HasParent(t)
  /\ \A t \in Turns : api'[t] \in Undoing => api[t] \in Undoing \/ faults' # faults
  /\ MsgInv'

LEMMA BudgetForward ==
  ASSUME Inv, UNCHANGED budget \/ Spend \/ Lapse
  PROVE  faults' \in Nat /\ lapses' \in Nat /\ faults <= faults' /\ lapses <= lapses'
  BY SMT DEF Inv, TypeInv, budget, Spend, Lapse

LEMMA SameMsgs ==
  ASSUME MsgInv, UNCHANGED <<parent, msgs, answers>>
  PROVE  MsgInv' /\ \A t \in Turns : HasParent(t)' => HasParent(t)
  BY DEF MsgInv, HasParent

LEMMA SameForward ==
  ASSUME Inv, SettleInv, UNCHANGED <<api, parent, msgs, answers>>, events \subseteq events',
         UNCHANGED budget \/ Spend \/ Lapse
  PROVE  Forward
  BY SameMsgs, BudgetForward DEF SettleInv, Forward

LEMMA FineBack ==
  ASSUME Inv, Forward, NEW t \in Turns, api[t] # "idle", Fine(t)'
  PROVE  Fine(t) /\ (faults # 0 => lapses' = 0 /\ faults' = faults)
<1>1. HasParent(t)
  BY DEF Forward, Fine
<1>2. faults + lapses <= 1 /\ (faults # 0 => lapses' = 0 /\ faults' = faults)
  BY SMT DEF Inv, TypeInv, Forward, Fine
<1> QED
  BY <1>1, <1>2 DEF Fine

LEMMA NoneBefore ==
  ASSUME Inv, Forward
  PROVE  /\ faults' + lapses' = 0 => faults + lapses = 0 /\ faults = 0 /\ lapses' = 0
         /\ lapses' = 0 => lapses = 0
         /\ faults' = 0 => faults = 0
  BY SMT DEF Inv, TypeInv, Forward

LEMMA BusyCalled ==
  ASSUME Inv, NEW k \in Tasks, Busy(k)
  PROVE  k[1] \in Turns /\ api[k[1]] # "idle"
<1>1. k[1] \in Turns
  BY SMT DEF Tasks
<1> QED
  BY <1>1 DEF Inv, BeginInv, Begins

\* A task that stands still keeps the entry it drives, and finds none that has
\* ended under the claim it is about to make.
Undisturbed(j) ==
  Busy(j) /\ lapses' = 0 =>
    /\ Owns(j) /\ api[j[1]] \notin Undoing /\ task[j].pc \in Driving \cup {"mark"} =>
         lock'.turn = j[1] /\ lock'.worker = task[j].worker /\ lock'.fresh
    /\ task[j].pc = "claim" /\ lock'.turn = j[1] /\ Terminal(lock') =>
         lock.turn = j[1] /\ Terminal(lock)

LEMMA StandsStill ==
  ASSUME Inv, SettleInv, Forward, NEW j \in Tasks, task'[j] = task[j], Undisturbed(j)
  PROVE  TaskSettles(j)'
<1>0. TaskSettles(j)
  BY DEF SettleInv
<1>1. CASE ~Busy(j)
  BY <1>0, <1>1 DEF TaskSettles, Busy, Quiet, Driving
<1>2. CASE Busy(j)
  <2> DEFINE t == j[1]
  <2>0. t \in Turns /\ api[t] # "idle"
    BY <1>2, BusyCalled
  <2>1. Told(t) => Told(t)'
    BY DEF Told, Forward
  <2>2. Fine(t)' => Fine(t) /\ (faults # 0 => lapses' = 0 /\ faults' = faults)
    BY <2>0, FineBack
  <2> HIDE DEF t
  <2>3. (task[j].quiet => task[j].pc \in Quiet)'
    BY <1>0 DEF TaskSettles
  <2>4. (task[j].pc \in {"markpub", "ackonly"} => Told(t))'
    BY <1>0, <2>1 DEF TaskSettles, t
  <2>5. (task[j].pc = "ack" /\ Fine(t) => Told(t))'
    BY <1>0, <2>1, <2>2 DEF TaskSettles, t
  <2>6. (task[j].quiet /\ task[j].pc \in {"mark", "failed", "publish"} /\ Fine(t) =>
           faults # 0 /\ lapses = 0)'
    BY <1>0, <2>2 DEF TaskSettles, t
  <2>7. (task[j].quiet /\ task[j].pc = "mark" /\ Fine(t) => Owns(j) /\ api[t] \notin Undoing)'
    <3>1. ASSUME task[j].quiet, task[j].pc = "mark", Fine(t)'
          PROVE  /\ Owns(j) /\ api[t] \notin Undoing
                 /\ lapses' = 0 /\ faults' = faults
      BY <1>0, <2>2, <3>1 DEF TaskSettles, t, Undoing
    <3> QED
      BY <1>2, <2>0, <3>1 DEF Undisturbed, Owns, t, Forward
  <2>8. (faults + lapses = 0 /\ task[j].pc \in Driving => Owns(j))'
    <3>1. ASSUME faults' + lapses' = 0, task[j].pc \in Driving
          PROVE  Owns(j) /\ api[t] \notin Undoing /\ lapses' = 0
      BY <1>0, <2>0, <3>1, NoneBefore DEF TaskSettles, SettleInv, Undoing
    <3> QED
      BY <1>2, <3>1 DEF Undisturbed, Owns, t
  <2>9. (lapses = 0 /\ task[j].pc = "claim" /\ lock.turn = t => ~Terminal(lock))'
    BY <1>0, <1>2, NoneBefore DEF TaskSettles, Undisturbed, t
  <2> QED
    BY <2>3, <2>4, <2>5, <2>6, <2>7, <2>8, <2>9 DEF TaskSettles, t, Undoing
<1> QED
  BY <1>1, <1>2

\* What is left of SettleInv once every task is looked at.
LEMMA SettleStep ==
  ASSUME Inv, SettleInv, Forward, \A k \in Tasks : TaskSettles(k)',
         lock'.published => (lock.published /\ lock'.turn = lock.turn) \/ ToldNow(lock'.turn),
         \A t \in Turns : cmd'[t] = "acked" => cmd[t] = "acked" \/ (Fine(t)' => Told(t)')
  PROVE  SettleInv'
<1>1. ASSUME NEW t, Told(t) PROVE Told(t)'
  BY <1>1 DEF Told, Forward
<1>2. (lock.published => Told(lock.turn))'
  <2>1. lock.published => Told(lock.turn)
    BY DEF SettleInv
  <2>2. ASSUME NEW t, Told(t) PROVE ToldNow(t)
    BY <2>2 DEF Told, Forward, ToldNow
  <2>3. lock'.published => ToldNow(lock'.turn)
    BY <2>1, <2>2
  <2> QED
    BY <2>3 DEF Told, ToldNow
<1>3. ASSUME NEW t \in Turns, cmd'[t] = "acked", Fine(t)' PROVE Told(t)'
  <2>1. CASE cmd[t] = "acked"
    <3>1. api[t] # "idle"
      BY <2>1 DEF Inv, BeginInv, Begins
    <3> QED
      BY <1>1, <1>3, <2>1, <3>1, FineBack DEF SettleInv
  <2> QED
    BY <1>3, <2>1
<1>4. ASSUME faults' = 0, NEW t \in Turns PROVE api'[t] \notin Undoing
  BY <1>4, NoneBefore DEF Forward, SettleInv, Undoing
<1> QED
  BY <1>2, <1>3, <1>4 DEF SettleInv, Forward, Undoing

-----------------------------------------------------------------------------
\* Steps outside run_turn.
LEMMA EveryoneStands ==
  ASSUME Inv, SettleInv, Forward, UNCHANGED task, \A j \in Tasks : Undisturbed(j),
         lock'.published => lock.published /\ lock'.turn = lock.turn,
         \A t \in Turns : cmd'[t] = "acked" => cmd[t] = "acked"
  PROVE  SettleInv'
  BY StandsStill, SettleStep

LEMMA LockAlone ==
  ASSUME UNCHANGED lock, NEW j \in Tasks
  PROVE  Undisturbed(j)
  BY DEF Undisturbed, Owns

\* An entry that is not there or has expired is nobody's.
LEMMA DeadLockGone ==
  ASSUME Inv, ~lock.fresh, lock' = NoLock, NEW j \in Tasks
  PROVE  Undisturbed(j)
<1>1. ~Terminal(lock')
  BY NoLockType DEF Terminal, Outcomes
<1> QED
  BY <1>1 DEF Undisturbed, Owns

LEMMA NoLockSilent == ~NoLock.published /\ ~NoLock.fresh
  BY DEF NoLock

LEMMA AssertParentTailSettles ==
  ASSUME Inv, SettleInv, NEW t \in Turns, AssertParentTail(t)
  PROVE  SettleInv'
<1>1. CallMoves(t, "acquire", cmd[t])
  BY ApiMoves DEF AssertParentTail, busVars
<1>2. LastAnswer \in answers \cup {NoAnswer}
  <2>1. msgs \in Seq(answers)
    BY DEF SettleInv, MsgInv
  <2>2. msgs # <<>> => msgs[Len(msgs)] \in answers
    BY SMT, <2>1
  <2> QED
    BY <2>2 DEF LastAnswer
<1>3. MsgInv'
  <2>1. parent' \in [Turns -> answers \cup {NoAnswer}]
    BY <1>2 DEF SettleInv, MsgInv, AssertParentTail
  <2> QED
    BY <2>1 DEF SettleInv, MsgInv, AssertParentTail, dbVars
<1>4. ASSUME NEW s \in Turns, api[s] # "idle", HasParent(s)' PROVE HasParent(s)
  <2>1. parent'[s] = parent[s]
    BY <1>4 DEF SettleInv, MsgInv, AssertParentTail
  <2> QED
    BY <1>4, <2>1 DEF HasParent, AssertParentTail, dbVars
<1>5. Forward
  BY <1>1, <1>3, <1>4, BudgetForward
  DEF Forward, CallMoves, AssertParentTail, busVars, Undoing
<1> QED
  BY <1>5, LockAlone, EveryoneStands DEF AssertParentTail, busVars

\* Other steps of a request leave the messages alone.
LEMMA RequestForward ==
  ASSUME Inv, SettleInv, NEW t \in Turns, NEW a, NEW c, CallMoves(t, a, c),
         UNCHANGED <<parent, msgs, answers, events>>,
         UNCHANGED budget \/ Spend,
         a \in Undoing => api[t] \in Undoing \/ Spend
  PROVE  Forward
<1>1. Spend => faults' # faults
  BY SMT DEF Spend, Inv, TypeInv
<1> QED
  BY <1>1, SameMsgs, BudgetForward DEF SettleInv, Forward, CallMoves

LEMMA AcquireLockSettles ==
  ASSUME Inv, SettleInv, NEW t \in Turns, AcquireLock(t)
  PROVE  SettleInv'
<1>1. CallMoves(t, "refused", cmd[t]) \/ CallMoves(t, "create", cmd[t])
  BY ApiMoves DEF AcquireLock, busVars
<1>2. Forward
  BY <1>1, RequestForward DEF AcquireLock, busVars, dbVars, Undoing
<1>3. \A j \in Tasks : Undisturbed(j)
  BY LockAlone, DeadLockGone DEF AcquireLock
<1> QED
  BY <1>2, <1>3, NoLockSilent, EveryoneStands DEF AcquireLock, busVars

LEMMA CreateLockSettles ==
  ASSUME Inv, SettleInv, NEW t \in Turns, CreateLock(t)
  PROVE  SettleInv'
<1>1. CallMoves(t, "refused", cmd[t]) \/ CallMoves(t, "publish", cmd[t])
  BY ApiMoves DEF CreateLock, busVars
<1>2. Forward
  BY <1>1, RequestForward DEF CreateLock, busVars, dbVars, Undoing
<1>3. CASE UNCHANGED lock
  BY <1>2, <1>3, LockAlone, EveryoneStands DEF CreateLock, busVars
<1>4. CASE lock = NoLock /\ lock' = Requested(t)
  <2>1. ~lock'.published /\ ~Terminal(lock')
    BY <1>4 DEF Requested, NoLock, Terminal, Outcomes
  <2>2. \A j \in Tasks : Undisturbed(j)
    BY <1>4, <2>1, NoLockSilent DEF Undisturbed, Owns
  <2> QED
    BY <1>2, <2>1, <2>2, EveryoneStands DEF CreateLock, busVars
<1> QED
  BY <1>3, <1>4 DEF CreateLock

LEMMA PublishCommandSettles ==
  ASSUME Inv, SettleInv, NEW t \in Turns, PublishCommand(t)
  PROVE  SettleInv'
<1>1. \/ CallMoves(t, "accepted", "queued")
      \/ Spend /\ \E c \in {"queued", "none"} : CallMoves(t, "undo", c)
  <2>1. cmd[t] = "none"
    BY DEF PublishCommand, Inv, BeginInv, Begins
  <2> QED
    BY SMT, <2>1 DEF PublishCommand, Inv, TypeInv, CallMoves, CallsTyped
<1>2. UNCHANGED <<parent, msgs, answers, events, lock, task>> /\ (UNCHANGED budget \/ Spend)
  BY DEF PublishCommand, dbVars
<1>3. Forward
  BY <1>1, <1>2, RequestForward DEF Undoing
<1>4. \A s \in Turns : cmd'[s] = "acked" => cmd[s] = "acked"
  BY <1>1 DEF CallMoves
<1> QED
  BY <1>2, <1>3, <1>4, LockAlone, EveryoneStands

LEMMA UndoRecordSettles ==
  ASSUME Inv, SettleInv, NEW t \in Turns, UndoRecord(t)
  PROVE  SettleInv'
<1>1. CallMoves(t, "release", cmd[t])
  BY ApiMoves DEF UndoRecord, busVars
<1>2. Forward
  BY <1>1, RequestForward DEF UndoRecord, busVars, Undoing
<1> QED
  BY <1>2, LockAlone, EveryoneStands DEF UndoRecord, busVars

LEMMA UndoReleaseSettles ==
  ASSUME Inv, SettleInv, NEW t \in Turns, UndoRelease(t)
  PROVE  SettleInv'
<1>1. CallMoves(t, "refused", cmd[t])
  BY ApiMoves DEF UndoRelease, busVars
<1>2. Forward
  BY <1>1, RequestForward DEF UndoRelease, busVars, dbVars, Undoing
<1>3. UNCHANGED lock \/ (lock.turn = t /\ lock' = NoLock)
  BY DEF UndoRelease, Purge
<1>4. ASSUME NEW j \in Tasks PROVE Undisturbed(j)
  <2>1. CASE lock.turn = t /\ lock' = NoLock
    <3>1. ~Terminal(lock')
      BY <2>1, NoLockType DEF Terminal, Outcomes
    <3>2. api[t] \in Undoing
      BY DEF UndoRelease, Undoing
    <3> QED
      BY <2>1, <3>1, <3>2 DEF Undisturbed, Owns
  <2> QED
    BY <1>3, <2>1, LockAlone
<1> QED
  BY <1>2, <1>3, <1>4, NoLockSilent, EveryoneStands DEF UndoRelease, busVars

LEMMA ApiCrashSettles ==
  ASSUME Inv, SettleInv, NEW t \in Turns, ApiCrash(t)
  PROVE  SettleInv'
<1>1. CallMoves(t, "dead", cmd[t])
  BY ApiMoves DEF ApiCrash, busVars
<1>2. Forward
  BY <1>1, RequestForward DEF ApiCrash, busVars, dbVars, Undoing
<1> QED
  BY <1>2, LockAlone, EveryoneStands DEF ApiCrash, busVars

LEMMA StopTurnSettles ==
  ASSUME Inv, SettleInv, StopTurn
  PROVE  SettleInv'
<1>1. Forward
  BY SameForward DEF StopTurn, apiVars, dbVars
<1>2. CASE ~lock.fresh /\ lock' = NoLock
  BY <1>1, <1>2, DeadLockGone, NoLockSilent, EveryoneStands DEF StopTurn
<1>3. CASE lock' = [lock EXCEPT !.stop = TRUE]
  <2>1. /\ lock'.turn = lock.turn /\ lock'.worker = lock.worker /\ lock'.fresh = lock.fresh
        /\ lock'.state = lock.state /\ lock'.published = lock.published
    BY <1>3 DEF Inv, TypeInv, LockRecord
  <2>2. \A j \in Tasks : Undisturbed(j)
    BY <2>1 DEF Undisturbed, Owns, Terminal
  <2> QED
    BY <1>1, <2>1, <2>2, EveryoneStands DEF StopTurn
<1> QED
  BY <1>2, <1>3 DEF StopTurn

\* A lease in the hands of whoever drives the turn runs out by a lapse only.
LEMMA LeaseExpiresSettles ==
  ASSUME Inv, SettleInv, LeaseExpires
  PROVE  SettleInv'
<1>1. Forward
  BY SameForward DEF LeaseExpires, apiVars, busVars, dbVars
<1>2. /\ lock'.turn = lock.turn /\ lock'.state = lock.state
      /\ lock'.published = lock.published
  BY DEF LeaseExpires, Inv, TypeInv, LockRecord
<1>3. ASSUME NEW j \in Tasks PROVE Undisturbed(j)
  <2>1. SUFFICES ASSUME lapses' = 0, lock.turn = j[1], task[j].pc \in Driving \cup {"mark"}
                 PROVE  FALSE
    BY <1>2 DEF Undisturbed, Owns, Terminal
  <2>2. ~Lapse
    BY SMT, <2>1 DEF Lapse, Inv, TypeInv
  <2>3. ~Renewed(lock.turn)
    BY <2>2 DEF LeaseExpires
  <2>4. j[2] \in Slots /\ j = <<j[1], j[2]>>
    BY SMT DEF Tasks
  <2>5. task[<<j[1], j[2]>>].pc \in {"start", "stream", "commit", "mark"}
    BY <2>1, <2>4 DEF Driving
  <2> QED
    BY <2>1, <2>3, <2>4, <2>5 DEF Renewed
<1> QED
  BY <1>1, <1>2, <1>3, EveryoneStands DEF LeaseExpires, busVars

LEMMA KeyExpiresSettles ==
  ASSUME Inv, SettleInv, KeyExpires
  PROVE  SettleInv'
<1>1. Forward
  BY SameForward DEF KeyExpires, apiVars, busVars, dbVars
<1> QED
  BY <1>1, DeadLockGone, NoLockSilent, EveryoneStands DEF KeyExpires, busVars

LEMMA AckWaitSettles ==
  ASSUME Inv, SettleInv, NEW t \in Turns, AckWait(t)
  PROVE  SettleInv'
<1>1. Forward
  BY SameForward DEF AckWait, apiVars, dbVars
<1>2. CallMoves(t, api[t], "queued")
  BY CmdMoves DEF AckWait, apiVars
<1>3. \A s \in Turns : cmd'[s] = "acked" => cmd[s] = "acked"
  BY <1>2 DEF CallMoves
<1> QED
  BY <1>1, <1>3, LockAlone, EveryoneStands DEF AckWait

-----------------------------------------------------------------------------
\* Task k goes on to a call, and its failures count (~quiet) or not.
Goes(k, pc, quiet) ==
  /\ \A j \in Tasks : j # k => task'[j] = task[j]
  /\ task'[k].pc = pc /\ task'[k].quiet = quiet
  /\ pc # "idle" => task'[k].worker = task[k].worker

LEMMA SetGoes ==
  ASSUME TypeInv, NEW k \in Tasks, NEW r, task' = [task EXCEPT ![k] = r],
         r.worker = task[k].worker \/ r.pc = "idle"
  PROVE  Goes(k, r.pc, r.quiet)
  BY SMT DEF TypeInv, Goes

LEMMA GotoGoes ==
  ASSUME TypeInv, NEW k \in Tasks, NEW pc, Goto(k, pc)
  PROVE  Goes(k, pc, task[k].quiet)
<1> DEFINE r == [task[k] EXCEPT !.pc = pc]
<1>1. task[k] \in TaskRecord(task[k].n) /\ task = [j \in Tasks |-> task[j]]
  BY SMT, TaskType
<1>2. r.pc = pc /\ r.quiet = task[k].quiet /\ r.worker = task[k].worker
  BY <1>1 DEF TaskRecord
<1>3. task' = [task EXCEPT ![k] = r]
  BY <1>1 DEF Goto
<1> HIDE DEF r
<1> QED
  BY <1>2, <1>3, SetGoes

LEMMA QuitGoes ==
  ASSUME TypeInv, NEW k \in Tasks, Quit(k)
  PROVE  Goes(k, "idle", FALSE)
<1>1. IdleTask.pc = "idle" /\ IdleTask.quiet = FALSE
  BY SMT DEF IdleTask
<1> QED
  BY <1>1, SetGoes DEF Quit

LEMMA FailOwnedGoes ==
  ASSUME TypeInv, NEW k \in Tasks, NEW q, FailOwned(k, q)
  PROVE  Goes(k, "mark", q)
<1> DEFINE r == [task[k] EXCEPT !.pc = "mark", !.way = "failed", !.n = 0, !.quiet = q]
<1>1. task[k] \in TaskRecord(task[k].n) /\ task = [j \in Tasks |-> task[j]]
  BY SMT, TaskType
<1>2. r.pc = "mark" /\ r.quiet = q /\ r.worker = task[k].worker
  BY <1>1 DEF TaskRecord
<1>3. task' = [task EXCEPT ![k] = r]
  BY <1>1 DEF FailOwned
<1> HIDE DEF r
<1> QED
  BY <1>2, <1>3, SetGoes

LEMMA WayGoes ==
  ASSUME TypeInv, NEW k \in Tasks, NEW pc, NEW way,
         task' = [task EXCEPT ![k].pc = pc, ![k].way = way]
  PROVE  Goes(k, pc, task[k].quiet)
<1> DEFINE r == [task[k] EXCEPT !.pc = pc, !.way = way]
<1>1. task[k] \in TaskRecord(task[k].n) /\ task = [j \in Tasks |-> task[j]]
  BY SMT, TaskType
<1>2. r.pc = pc /\ r.quiet = task[k].quiet /\ r.worker = task[k].worker
  BY <1>1 DEF TaskRecord
<1>3. task' = [task EXCEPT ![k] = r]
  BY <1>1
<1> HIDE DEF r
<1> QED
  BY <1>2, <1>3, SetGoes

-----------------------------------------------------------------------------
\* A step of task k that settles its own claims: the others stand still.
LEMMA RunSettles ==
  ASSUME Inv, SettleInv, Forward, NEW k \in Tasks, NEW pc, NEW q, Goes(k, pc, q),
         TaskSettles(k)', \A j \in Tasks : j # k => Undisturbed(j),
         lock'.published => (lock.published /\ lock'.turn = lock.turn) \/ ToldNow(lock'.turn),
         \A t \in Turns : cmd'[t] = "acked" => cmd[t] = "acked" \/ (Fine(t)' => Told(t)')
  PROVE  SettleInv'
<1>1. \A j \in Tasks : j # k => TaskSettles(j)'
  BY StandsStill DEF Goes
<1> QED
  BY <1>1, SettleStep

\* A task that holds its turn's entry disturbs nobody as long as nothing lapsed.
LEMMA OwnEntry ==
  ASSUME Inv, Forward, NEW k \in Tasks, Busy(k), lock.turn = k[1],
         lock'.turn \in {k[1], None}, NEW j \in Tasks, j # k
  PROVE  Undisturbed(j)
<1>1. SUFFICES ASSUME Busy(j), lapses' = 0 PROVE Undisturbed(j)
  BY DEF Undisturbed
<1>2. Alone
  BY <1>1, NoneBefore DEF Inv
<1>3. j[1] # k[1] /\ j[1] # None
  BY <1>1, <1>2, BusyCalled, ChatAssumption DEF Alone
<1> QED
  BY <1>3 DEF Undisturbed, Owns

\* Where nothing is asked of a task.
Easy == {"idle", "load", "orphan", "tell", "stale", "record", "missing"}

LEMMA EasySettles ==
  ASSUME NEW k \in Tasks, NEW pc, NEW q, Goes(k, pc, q),
         \/ pc \in Easy \cup {"mark", "failed", "publish"} /\ q = FALSE
         \/ pc = "release"
  PROVE  TaskSettles(k)'
  BY DEF Goes, TaskSettles, Easy, Quiet, Driving

LEMMA ToldSettles ==
  ASSUME NEW k \in Tasks, NEW pc, NEW q, Goes(k, pc, q), Fine(k[1])' => Told(k[1])',
         \/ pc = "ack"
         \/ Told(k[1])' /\ (pc = "markpub" \/ (pc = "ackonly" /\ q = FALSE))
  PROVE  TaskSettles(k)'
  BY DEF Goes, TaskSettles, Quiet, Driving

\* A failure that is dropped on the way to the ack was not the first trouble,
\* or the turn is told.
LEMMA FailSettles ==
  ASSUME Inv, SettleInv, Forward, NEW k \in Tasks, Busy(k), Fail(k),
         \/ Spend
         \/ task[k].pc = "mark" /\ ~Owns(k)
  PROVE  (\E pc, q : Goes(k, pc, q)) /\ TaskSettles(k)'
<1>0. TaskSettles(k) /\ TypeInv
  BY DEF SettleInv, Inv
<1>1. CASE Quit(k)
  <2>1. Goes(k, "idle", FALSE)
    BY <1>0, <1>1, QuitGoes
  <2> QED
    BY <2>1, EasySettles DEF Easy
<1>2. CASE /\ task[k].quiet /\ task[k].pc \in {"mark", "failed", "publish", "markpub"}
           /\ Goto(k, "ack")
  <2>1. Goes(k, "ack", task[k].quiet)
    BY <1>0, <1>2, GotoGoes
  <2>2. k[1] \in Turns /\ api[k[1]] # "idle"
    BY BusyCalled
  <2>3. ASSUME Fine(k[1])' PROVE Told(k[1])'
    <3>1. Fine(k[1]) /\ (faults # 0 => faults' = faults)
      BY <2>2, <2>3, FineBack
    <3>2. Spend => faults' # faults
      BY SMT, <1>0 DEF Spend, TypeInv
    <3>3. Told(k[1])
      BY <1>0, <1>2, <3>1, <3>2 DEF TaskSettles
    <3> QED
      BY <3>3 DEF Told, Forward
  <2> QED
    BY <2>1, <2>3, ToldSettles
<1> QED
  BY <1>1, <1>2 DEF Fail

\* Such a failure with nothing else done.
LEMMA FailStep ==
  ASSUME Inv, SettleInv, NEW k \in Tasks, Busy(k), Fail(k), UNCHANGED <<lock, cmd>>,
         UNCHANGED <<api, parent, msgs, answers>>, events \subseteq events',
         Spend \/ (UNCHANGED budget /\ task[k].pc = "mark" /\ ~Owns(k))
  PROVE  SettleInv'
<1>1. Forward
  BY SameForward
<1> QED
  BY <1>1, FailSettles, LockAlone, RunSettles

\* A step with no write to the entry or the queue.
LEMMA SilentStep ==
  ASSUME Inv, SettleInv, Forward, NEW k \in Tasks, NEW pc, NEW q, Goes(k, pc, q),
         TaskSettles(k)', UNCHANGED <<lock, cmd>>
  PROVE  SettleInv'
  BY LockAlone, RunSettles

-----------------------------------------------------------------------------
LEMMA CrashSettles ==
  ASSUME Inv, SettleInv, NEW w \in Workers, Crash(w)
  PROVE  SettleInv'
<1>1. Forward
  BY SameForward DEF Crash, apiVars, dbVars
<1>2. IdleTask.pc = "idle" /\ ~IdleTask.quiet
  BY DEF IdleTask
<1>3. ASSUME NEW j \in Tasks PROVE TaskSettles(j)'
  <2>1. CASE task'[j] = IdleTask
    BY <1>2, <2>1 DEF TaskSettles, Driving
  <2>2. CASE task'[j] = task[j]
    BY <1>1, <2>2, StandsStill, LockAlone DEF Crash
  <2> QED
    BY <2>1, <2>2 DEF Crash
<1> QED
  BY <1>1, <1>3, SettleStep DEF Crash

LEMMA DeliverSettles ==
  ASSUME Inv, SettleInv, NEW k \in Tasks, Deliver(k)
  PROVE  SettleInv'
<1>1. Forward
  BY SameForward DEF Deliver, apiVars, dbVars
<1>2. PICK w \in Workers :
        task' = [task EXCEPT ![k] = [IdleTask EXCEPT !.pc = "load", !.worker = w]]
  BY DEF Deliver
<1>3. PICK r : r = [IdleTask EXCEPT !.pc = "load", !.worker = w]
  OBVIOUS
<1>4. r.pc = "load" /\ ~r.quiet
  BY <1>3 DEF IdleTask
<1>5. task'[k] = r /\ \A j \in Tasks : j # k => task'[j] = task[j]
  BY SMT, <1>2, <1>3 DEF Inv, TypeInv
<1>6. ASSUME NEW j \in Tasks PROVE TaskSettles(j)'
  <2>1. CASE j = k
    BY <1>4, <1>5, <2>1 DEF TaskSettles, Driving
  <2>2. CASE j # k
    BY <1>1, <1>5, <2>2, StandsStill, LockAlone DEF Deliver
  <2> QED
    BY <2>1, <2>2
<1>7. \A s \in Turns : cmd'[s] = "acked" => cmd[s] = "acked"
  <2>1. k[1] \in Turns
    BY SMT DEF Tasks
  <2>2. CallMoves(k[1], api[k[1]], "delivered")
    BY <2>1, CmdMoves DEF Deliver, apiVars
  <2> QED
    BY <2>2 DEF CallMoves
<1> QED
  BY <1>1, <1>6, <1>7, SettleStep DEF Deliver

\* What a task in the middle of run_turn has to start from.
LEMMA AtWork ==
  ASSUME Inv, SettleInv, NEW k \in Tasks, Busy(k)
  PROVE  /\ TypeInv /\ TaskSettles(k) /\ k[1] \in Turns /\ api[k[1]] # "idle"
         /\ task[k].pc \notin Quiet => task[k].quiet = FALSE
<1>1. TypeInv /\ TaskSettles(k) /\ k[1] \in Turns /\ api[k[1]] # "idle"
  BY BusyCalled DEF Inv, SettleInv
<1>2. task[k].quiet \in BOOLEAN
  BY <1>1, TaskType DEF TaskRecord
<1>3. task[k].pc \notin Quiet => ~task[k].quiet
  BY <1>1 DEF TaskSettles
<1> QED
  BY <1>1, <1>2, <1>3

LEMMA LoadLockSettles ==
  ASSUME Inv, SettleInv, NEW k \in Tasks, LoadLock(k)
  PROVE  SettleInv'
<1>0. task[k].pc = "load" /\ Busy(k)
  BY DEF LoadLock, At, Busy
<1>1. TypeInv /\ task[k].quiet = FALSE
  BY <1>0, AtWork DEF Quiet
<1>2. Forward /\ UNCHANGED <<lock, cmd>>
  BY SameForward DEF LoadLock, apiVars, busVars, dbVars
<1>3. CASE Quit(k)
  <2>1. Goes(k, "idle", FALSE)
    BY <1>1, <1>3, QuitGoes
  <2> QED
    BY <1>2, <2>1, EasySettles, SilentStep DEF Easy
<1>4. CASE Goto(k, "orphan") \/ Goto(k, "stale")
  <2>1. PICK pc \in {"orphan", "stale"} : Goes(k, pc, task[k].quiet)
    BY <1>1, <1>4, GotoGoes
  <2> QED
    <3>1. TaskSettles(k)'
      BY <1>1, <2>1, EasySettles DEF Easy
    <3> QED
      BY <1>2, <2>1, <3>1, SilentStep
<1>5. CASE lock.published /\ lock.turn = k[1] /\ Goto(k, "ack")
  <2>1. Goes(k, "ack", task[k].quiet)
    BY <1>1, <1>5, GotoGoes
  <2>2. Told(k[1])'
    BY <1>2, <1>5 DEF SettleInv, Told, Forward
  <2> QED
    BY <1>2, <2>1, <2>2, ToldSettles, SilentStep
<1>6. CASE task' = [task EXCEPT ![k].pc = "missing", ![k].way = lock.state, ![k].n = lock.n]
  <2> DEFINE r == [task[k] EXCEPT !.pc = "missing", !.way = lock.state, !.n = lock.n]
  <2>1. task[k] \in TaskRecord(task[k].n) /\ task = [j \in Tasks |-> task[j]]
    BY <1>1, TaskType
  <2>2. r.pc = "missing" /\ r.quiet = task[k].quiet /\ r.worker = task[k].worker
    BY <2>1 DEF TaskRecord
  <2>3. task' = [task EXCEPT ![k] = r]
    BY <1>6, <2>1
  <2> HIDE DEF r
  <2>4. Goes(k, "missing", task[k].quiet)
    BY <1>1, <2>2, <2>3, SetGoes
  <2> QED
    <3>1. TaskSettles(k)'
      BY <1>1, <2>4, EasySettles DEF Easy
    <3> QED
      BY <1>2, <2>4, <3>1, SilentStep
<1>7. CASE lock.state = "requested" /\ Goto(k, "claim")
  <2>1. Goes(k, "claim", task[k].quiet)
    BY <1>1, <1>7, GotoGoes
  <2>2. ~Terminal(lock')
    BY <1>2, <1>7 DEF Terminal, Outcomes
  <2>3. TaskSettles(k)'
    BY <1>1, <2>1, <2>2 DEF Goes, TaskSettles, Driving
  <2> QED
    BY <1>2, <2>1, <2>3, SilentStep
<1> QED
  BY <1>3, <1>4, <1>5, <1>6, <1>7 DEF LoadLock

\* The fields of an entry that was marked terminal.
LEMMA MarkedLock ==
  ASSUME TypeInv, NEW way, NEW n,
         lock' = [lock EXCEPT !.state = way, !.published = FALSE, !.fresh = TRUE, !.n = n]
  PROVE  lock'.turn = lock.turn /\ ~lock'.published
  BY DEF TypeInv, LockRecord

LEMMA MarkStaleSettles ==
  ASSUME Inv, SettleInv, NEW k \in Tasks, MarkStale(k)
  PROVE  SettleInv'
<1>0. task[k].pc = "stale" /\ Busy(k)
  BY DEF MarkStale, At, Busy
<1>1. TypeInv /\ task[k].quiet = FALSE
  BY <1>0, AtWork DEF Quiet
<1>2. Forward /\ UNCHANGED cmd
  BY SameForward DEF MarkStale, Then, apiVars, busVars, dbVars
<1>3. CASE Quit(k) /\ UNCHANGED lock
  <2>1. Goes(k, "idle", FALSE)
    BY <1>1, <1>3, QuitGoes
  <2> QED
    BY <1>2, <1>3, <2>1, EasySettles, SilentStep DEF Easy
<1>4. CASE /\ lock.turn = k[1]
           /\ lock' = [lock EXCEPT !.state = "failed", !.published = FALSE,
                                   !.fresh = TRUE, !.n = 0]
           /\ Then(k, "record")
  <2>1. lock'.turn = k[1] /\ ~lock'.published
    BY <1>1, <1>4, MarkedLock
  <2>2. \A j \in Tasks : j # k => Undisturbed(j)
    BY <1>0, <1>2, <1>4, <2>1, OwnEntry
  <2>3. CASE Goto(k, "record")
    <3>1. Goes(k, "record", task[k].quiet)
      BY <1>1, <2>3, GotoGoes
    <3>2. TaskSettles(k)'
      BY <1>1, <3>1, EasySettles DEF Easy
    <3> QED
      BY <1>2, <2>1, <2>2, <3>1, <3>2, RunSettles
  <2>4. CASE Spend /\ Fail(k)
    BY <1>0, <1>2, <2>1, <2>2, <2>4, FailSettles, RunSettles
  <2> QED
    BY <1>4, <2>3, <2>4 DEF Then
<1> QED
  BY <1>3, <1>4 DEF MarkStale

\* Then(k, pc) with the entry and the queue left alone.
LEMMA ThenStep ==
  ASSUME Inv, SettleInv, Forward, NEW k \in Tasks, Busy(k), NEW pc, Then(k, pc),
         UNCHANGED <<lock, cmd>>, Goes(k, pc, task[k].quiet) => TaskSettles(k)'
  PROVE  SettleInv'
<1>1. CASE Goto(k, pc)
  <2>1. Goes(k, pc, task[k].quiet)
    BY <1>1, GotoGoes DEF Inv
  <2> QED
    BY <2>1, SilentStep
<1>2. CASE Spend /\ Fail(k)
  BY <1>2, FailSettles, SilentStep
<1> QED
  BY <1>1, <1>2 DEF Then

LEMMA RecordStaleSettles ==
  ASSUME Inv, SettleInv, NEW k \in Tasks, RecordStale(k)
  PROVE  SettleInv'
<1>0. task[k].pc = "record" /\ Busy(k)
  BY DEF RecordStale, At, Busy
<1>1. TypeInv /\ task[k].quiet = FALSE
  BY <1>0, AtWork DEF Quiet
<1>2. Forward
  BY SameForward DEF RecordStale, Then, apiVars, busVars
<1>3. Goes(k, "missing", task[k].quiet) => TaskSettles(k)'
  BY <1>1, EasySettles DEF Easy
<1> QED
  BY <1>0, <1>2, <1>3, ThenStep DEF RecordStale, busVars

\* A task whose failures are dropped goes on without another one.
LEMMA QuietGoes ==
  ASSUME Inv, SettleInv, Forward, NEW k \in Tasks, task[k].pc \in {"mark", "failed"},
         NEW pc \in {"failed", "publish"}, Goes(k, pc, task[k].quiet)
  PROVE  TaskSettles(k)'
<1>0. Busy(k)
  BY DEF Busy
<1>1. TaskSettles(k) /\ k[1] \in Turns /\ api[k[1]] # "idle"
  BY <1>0, AtWork
<1>2. ASSUME task[k].quiet, Fine(k[1])' PROVE faults' # 0 /\ lapses' = 0
  <2>1. Fine(k[1]) /\ (faults # 0 => lapses' = 0 /\ faults' = faults)
    BY <1>1, <1>2, FineBack
  <2> QED
    BY <1>1, <1>2, <2>1 DEF TaskSettles
<1> QED
  BY <1>2 DEF TaskSettles, Goes, Quiet, Driving

LEMMA RecordFailedSettles ==
  ASSUME Inv, SettleInv, NEW k \in Tasks, RecordFailed(k)
  PROVE  SettleInv'
<1>1. Forward /\ UNCHANGED <<lock, cmd>> /\ TypeInv
  BY SameForward DEF RecordFailed, apiVars, busVars, Inv
<1>2. CASE task[k].pc = "orphan"
  <2>1. Goes(k, "tell", task[k].quiet)
    BY <1>1, <1>2, GotoGoes DEF RecordFailed, At
  <2>2. task[k].quiet = FALSE
    BY <1>2, AtWork DEF Quiet, Busy
  <2>3. TaskSettles(k)'
    BY <2>1, <2>2, EasySettles DEF Easy
  <2> QED
    BY <1>1, <2>1, <2>3, SilentStep
<1>3. CASE task[k].pc = "failed"
  <2>1. Goes(k, "publish", task[k].quiet)
    BY <1>1, <1>3, GotoGoes DEF RecordFailed, At
  <2>2. TaskSettles(k)'
    BY <1>1, <1>3, <2>1, QuietGoes
  <2> QED
    BY <1>1, <2>1, <2>2, SilentStep
<1> QED
  BY <1>2, <1>3 DEF RecordFailed

LEMMA PublishOutcomeSettles ==
  ASSUME Inv, SettleInv, NEW k \in Tasks, PublishOutcome(k)
  PROVE  SettleInv'
<1>0. Busy(k)
  BY DEF PublishOutcome, Busy
<1>1. Forward
  BY SameForward DEF PublishOutcome, Then, apiVars, dbVars
<1>2. Told(k[1])'
  <2>1. [turn |-> k[1], way |-> task[k].way, n |-> task[k].n].turn = k[1]
    OBVIOUS
  <2>2. [turn |-> k[1], way |-> task[k].way, n |-> task[k].n] \in events'
    BY DEF PublishOutcome
  <2> QED
    BY <2>1, <2>2 DEF Told
<1>3. task[k].pc = "tell" => task[k].quiet = FALSE
  BY <1>0, AtWork DEF Quiet
<1>4. PICK pc : Then(k, pc) /\ ((pc = "ackonly" /\ task[k].quiet = FALSE) \/ pc = "markpub")
  BY <1>3 DEF PublishOutcome, At
<1>5. Goes(k, pc, task[k].quiet) => TaskSettles(k)'
  BY <1>2, <1>4, ToldSettles
<1> QED
  BY <1>0, <1>1, <1>4, <1>5, ThenStep DEF PublishOutcome

LEMMA StopGoes ==
  ASSUME TypeInv, NEW k \in Tasks, NEW pc, NEW stop,
         task' = [task EXCEPT ![k].pc = pc, ![k].stop = stop]
  PROVE  Goes(k, pc, task[k].quiet)
<1> DEFINE r == [task[k] EXCEPT !.pc = pc, !.stop = stop]
<1>1. task[k] \in TaskRecord(task[k].n) /\ task = [j \in Tasks |-> task[j]]
  BY SMT, TaskType
<1>2. r.pc = pc /\ r.quiet = task[k].quiet /\ r.worker = task[k].worker
  BY <1>1 DEF TaskRecord
<1>3. task' = [task EXCEPT ![k] = r]
  BY <1>1
<1> HIDE DEF r
<1> QED
  BY <1>2, <1>3, SetGoes

LEMMA AnswerGoes ==
  ASSUME TypeInv, NEW k \in Tasks, NEW pc, NEW n,
         task' = [task EXCEPT ![k].pc = pc, ![k].n = n]
  PROVE  Goes(k, pc, task[k].quiet)
<1> DEFINE r == [task[k] EXCEPT !.pc = pc, !.n = n]
<1>1. task[k] \in TaskRecord(task[k].n) /\ task = [j \in Tasks |-> task[j]]
  BY SMT, TaskType
<1>2. r.pc = pc /\ r.quiet = task[k].quiet /\ r.worker = task[k].worker
  BY <1>1 DEF TaskRecord
<1>3. task' = [task EXCEPT ![k] = r]
  BY <1>1
<1> HIDE DEF r
<1> QED
  BY <1>2, <1>3, SetGoes

\* A turn driven by a task that has its entry unless there was trouble.
LEMMA DrivesOn ==
  ASSUME NEW k \in Tasks, NEW pc \in Driving, NEW q, Goes(k, pc, q), q = FALSE,
         (faults + lapses = 0)' =>
           lock'.turn = k[1] /\ lock'.worker = task[k].worker /\ lock'.fresh
  PROVE  TaskSettles(k)'
<1>1. (faults + lapses = 0)' => Owns(k)'
  BY DEF Owns, Goes, Driving
<1> QED
  BY <1>1 DEF TaskSettles, Goes, Driving

LEMMA ClaimLockSettles ==
  ASSUME Inv, SettleInv, NEW k \in Tasks, ClaimLock(k)
  PROVE  SettleInv'
<1>0. task[k].pc = "claim" /\ Busy(k)
  BY DEF ClaimLock, At, Busy
<1>1. TypeInv /\ TaskSettles(k) /\ task[k].quiet = FALSE
  BY <1>0, AtWork DEF Quiet
<1>2. Forward /\ UNCHANGED cmd
  BY SameForward DEF ClaimLock, apiVars, busVars, dbVars
<1>3. CASE /\ lock.turn = k[1] /\ Terminal(lock)
           /\ task' = [task EXCEPT ![k].pc = "start", ![k].stop = lock.stop]
           /\ UNCHANGED lock
  <2>1. Goes(k, "start", task[k].quiet)
    BY <1>1, <1>3, StopGoes
  <2>2. lapses # 0
    BY <1>0, <1>1, <1>3 DEF TaskSettles
  <2>3. (faults + lapses = 0)' => FALSE
    BY <1>2, <2>2, NoneBefore
  <2>4. TaskSettles(k)'
    BY <1>1, <2>1, <2>3, DrivesOn DEF Driving
  <2> QED
    BY <1>2, <1>3, <2>1, <2>4, SilentStep
<1>4. CASE /\ lock.turn = k[1] /\ lock.fresh
           /\ lock' = [lock EXCEPT !.state = "running", !.worker = task[k].worker]
           /\ \/ task' = [task EXCEPT ![k].pc = "start", ![k].stop = lock.stop]
              \/ Spend /\ Fail(k)
  <2>1. /\ lock'.turn = k[1] /\ lock'.worker = task[k].worker /\ lock'.fresh
        /\ lock'.published = lock.published
    BY <1>1, <1>4 DEF TypeInv, LockRecord
  <2>2. \A j \in Tasks : j # k => Undisturbed(j)
    BY <1>0, <1>2, <1>4, <2>1, OwnEntry
  <2>3. CASE task' = [task EXCEPT ![k].pc = "start", ![k].stop = lock.stop]
    <3>1. Goes(k, "start", task[k].quiet)
      BY <1>1, <2>3, StopGoes
    <3>2. TaskSettles(k)'
      BY <1>1, <2>1, <3>1, DrivesOn DEF Driving
    <3> QED
      BY <1>2, <1>4, <2>1, <2>2, <3>1, <3>2, RunSettles
  <2>4. CASE Spend /\ Fail(k)
    BY <1>0, <1>2, <1>4, <2>1, <2>2, <2>4, FailSettles, RunSettles
  <2> QED
    BY <1>4, <2>3, <2>4
<1>5. CASE Quit(k) /\ UNCHANGED lock
  <2>1. Goes(k, "idle", FALSE)
    BY <1>1, <1>5, QuitGoes
  <2> QED
    BY <1>2, <1>5, <2>1, EasySettles, SilentStep DEF Easy
<1> QED
  BY <1>3, <1>4, <1>5 DEF ClaimLock

LEMMA DriveStep ==
  ASSUME Inv, SettleInv, NEW k \in Tasks, task[k].pc \in Driving,
         UNCHANGED <<apiVars, busVars, lock, dbVars, budget>>,
         (\E pc \in Driving : Goes(k, pc, task[k].quiet)) \/ FailOwned(k, FALSE)
  PROVE  SettleInv'
<1>0. Busy(k)
  BY DEF Busy, Driving
<1>1. TypeInv /\ TaskSettles(k) /\ task[k].quiet = FALSE
  BY <1>0, AtWork DEF Quiet, Driving
<1>2. Forward /\ UNCHANGED <<lock, cmd>>
  BY SameForward DEF apiVars, busVars, dbVars
<1>3. CASE FailOwned(k, FALSE)
  <2>1. Goes(k, "mark", FALSE)
    BY <1>1, <1>3, FailOwnedGoes
  <2> QED
    BY <1>2, <2>1, EasySettles, SilentStep
<1>4. ASSUME NEW pc \in Driving, Goes(k, pc, task[k].quiet) PROVE SettleInv'
  <2>1. (faults + lapses = 0)' => Owns(k)
    BY <1>1, <1>2, NoneBefore DEF TaskSettles
  <2>2. TaskSettles(k)'
    BY <1>1, <1>2, <1>4, <2>1, DrivesOn DEF Owns
  <2> QED
    BY <1>2, <1>4, <2>2, SilentStep
<1> QED
  BY <1>3, <1>4

LEMMA StartTurnSettles ==
  ASSUME Inv, SettleInv, NEW k \in Tasks, StartTurn(k)
  PROVE  SettleInv'
<1>1. (\E pc \in Driving : Goes(k, pc, task[k].quiet)) \/ FailOwned(k, FALSE)
  <2>1. CASE task' = [task EXCEPT ![k].pc = "commit", ![k].way = "interrupted"]
    BY <2>1, WayGoes DEF Driving, Inv
  <2>2. CASE Goto(k, "stream")
    BY <2>2, GotoGoes DEF Driving, Inv
  <2> QED
    BY <2>1, <2>2 DEF StartTurn
<1> QED
  BY <1>1, DriveStep DEF StartTurn, At, Driving

LEMMA StreamAnswerSettles ==
  ASSUME Inv, SettleInv, NEW k \in Tasks, StreamAnswer(k)
  PROVE  SettleInv'
<1>1. (\E pc \in Driving : Goes(k, pc, task[k].quiet)) \/ FailOwned(k, FALSE)
  <2>1. ASSUME NEW way, task' = [task EXCEPT ![k].pc = "commit", ![k].way = way]
        PROVE  \E pc \in Driving : Goes(k, pc, task[k].quiet)
    BY <2>1, WayGoes DEF Driving, Inv
  <2> QED
    BY <2>1 DEF StreamAnswer
<1> QED
  BY <1>1, DriveStep DEF StreamAnswer, At, Driving

\* A commit that fails is the one fault there may be, so its task has the entry;
\* or its message is gone.
LEMMA CommitFails ==
  ASSUME Inv, SettleInv, Forward, NEW k \in Tasks, task[k].pc = "commit",
         FailOwned(k, TRUE), UNCHANGED <<lock, api>>, Spend \/ ~Fine(k[1])'
  PROVE  Goes(k, "mark", TRUE) /\ TaskSettles(k)'
<1>0. Busy(k) /\ task[k].pc \in Driving
  BY DEF Busy, Driving
<1>1. TypeInv /\ TaskSettles(k) /\ k[1] \in Turns
  BY <1>0, AtWork
<1>2. Goes(k, "mark", TRUE)
  BY <1>1, FailOwnedGoes
<1>3. ASSUME Fine(k[1])'
      PROVE  faults' # 0 /\ lapses' = 0 /\ Owns(k) /\ api[k[1]] \notin Undoing
  <2>1. faults + lapses = 0 /\ faults = 0 /\ faults' # 0 /\ lapses' = 0
    BY SMT, <1>1, <1>3 DEF Spend, Fine, TypeInv
  <2>2. Owns(k)
    BY <1>0, <1>1, <2>1 DEF TaskSettles
  <2>3. api[k[1]] \notin Undoing
    BY <1>1, <2>1 DEF SettleInv, Undoing
  <2> QED
    BY <2>1, <2>2, <2>3
<1>4. Owns(k) => Owns(k)'
  BY <1>2 DEF Owns, Goes
<1>5. Fine(k[1])' => (faults # 0 /\ lapses = 0 /\ Owns(k) /\ api[k[1]] \notin Undoing)'
  BY <1>3, <1>4
<1> QED
  BY <1>2, <1>5 DEF TaskSettles, Goes, Quiet, Driving, Undoing

LEMMA MarkTerminalSettles ==
  ASSUME Inv, SettleInv, NEW k \in Tasks, MarkTerminal(k)
  PROVE  SettleInv'
<1>0. task[k].pc = "mark" /\ Busy(k)
  BY DEF MarkTerminal, At, Busy
<1>1. TypeInv
  BY DEF Inv
<1>2. UNCHANGED <<api, parent, msgs, answers, events, cmd>>
  BY DEF MarkTerminal, apiVars, busVars, dbVars
<1>3. CASE /\ ~(lock.turn = k[1] /\ lock.worker = task[k].worker)
           /\ Fail(k) /\ UNCHANGED <<lock, budget>>
  BY <1>0, <1>2, <1>3, FailStep DEF Owns
<1>4. CASE /\ lock.turn = k[1]
           /\ lock' = [lock EXCEPT !.state = task[k].way, !.published = FALSE,
                                   !.fresh = TRUE, !.n = task[k].n]
           /\ Then(k, IF task[k].way = "failed" THEN "failed" ELSE "publish")
  <2>0. Forward
    BY <1>2, <1>4, SameForward DEF Then
  <2>1. lock'.turn = k[1] /\ ~lock'.published
    BY <1>1, <1>4, MarkedLock
  <2>2. \A j \in Tasks : j # k => Undisturbed(j)
    BY <1>0, <1>4, <2>0, <2>1, OwnEntry
  <2>3. PICK pc \in {"failed", "publish"} : Then(k, pc)
    BY <1>4
  <2>4. CASE Goto(k, pc)
    <3>1. Goes(k, pc, task[k].quiet)
      BY <1>1, <2>4, GotoGoes
    <3>2. TaskSettles(k)'
      BY <1>0, <2>0, <3>1, QuietGoes
    <3> QED
      BY <1>2, <2>0, <2>1, <2>2, <3>1, <3>2, RunSettles
  <2>5. CASE Spend /\ Fail(k)
    BY <1>0, <1>2, <2>0, <2>1, <2>2, <2>5, FailSettles, RunSettles
  <2> QED
    BY <2>3, <2>4, <2>5 DEF Then
<1> QED
  BY <1>3, <1>4 DEF MarkTerminal

LEMMA MarkPublishedSettles ==
  ASSUME Inv, SettleInv, NEW k \in Tasks, MarkPublished(k)
  PROVE  SettleInv'
<1>0. task[k].pc = "markpub" /\ Busy(k)
  BY DEF MarkPublished, At, Busy
<1>1. TypeInv /\ TaskSettles(k)
  BY <1>0, AtWork
<1>2. Forward /\ UNCHANGED cmd
  BY SameForward DEF MarkPublished, Then, apiVars, busVars, dbVars
<1>3. Told(k[1])' /\ ToldNow(k[1])
  BY <1>0, <1>1, <1>2 DEF TaskSettles, Told, ToldNow, Forward
<1>4. lock' = lock \/ (lock.turn = k[1] /\ lock' = [lock EXCEPT !.published = TRUE])
  BY DEF MarkPublished
<1>5. /\ lock'.turn = lock.turn /\ lock'.state = lock.state
      /\ lock'.worker = lock.worker /\ lock'.fresh = lock.fresh
  BY <1>1, <1>4 DEF TypeInv, LockRecord
<1>6. \A j \in Tasks : Undisturbed(j)
  BY <1>5 DEF Undisturbed, Owns, Terminal
<1>7. lock'.published => (lock.published /\ lock'.turn = lock.turn) \/ ToldNow(lock'.turn)
  BY <1>3, <1>4, <1>5
<1>8. CASE Goto(k, "ack")
  <2>1. Goes(k, "ack", task[k].quiet)
    BY <1>1, <1>8, GotoGoes
  <2>2. TaskSettles(k)'
    BY <1>3, <2>1, ToldSettles
  <2> QED
    BY <1>2, <1>6, <1>7, <2>1, <2>2, RunSettles
<1>9. CASE Spend /\ Fail(k)
  BY <1>0, <1>2, <1>6, <1>7, <1>9, FailSettles, RunSettles
<1> QED
  BY <1>8, <1>9 DEF MarkPublished, Then

LEMMA AckCommandSettles ==
  ASSUME Inv, SettleInv, NEW k \in Tasks, AckCommand(k)
  PROVE  SettleInv'
<1>0. Busy(k)
  BY DEF AckCommand, Busy
<1>1. TypeInv /\ TaskSettles(k) /\ k[1] \in Turns /\ api[k[1]] # "idle"
  BY <1>0, AtWork
<1>2. Forward /\ UNCHANGED lock
  BY SameForward DEF AckCommand, apiVars, dbVars
<1>3. Fine(k[1])' => Told(k[1])'
  <2>1. Fine(k[1]) => Told(k[1])
    BY <1>1 DEF AckCommand, TaskSettles
  <2>2. Fine(k[1])' => Fine(k[1])
    BY <1>1, <1>2, FineBack
  <2> QED
    BY <1>2, <2>1, <2>2 DEF Told, Forward
<1>4. \A t \in Turns : cmd'[t] = "acked" => cmd[t] = "acked" \/ (Fine(t)' => Told(t)')
  <2>1. \A t \in Turns : t # k[1] => cmd'[t] = cmd[t]
    BY SMT, <1>1 DEF AckCommand, TypeInv
  <2> QED
    BY <1>3, <2>1
<1>5. CASE Goto(k, "release")
  <2>1. Goes(k, "release", task[k].quiet)
    BY <1>1, <1>5, GotoGoes
  <2>2. TaskSettles(k)'
    BY <2>1, EasySettles
  <2> QED
    BY <1>2, <1>4, <2>1, <2>2, LockAlone, RunSettles
<1>6. CASE Quit(k)
  <2>1. Goes(k, "idle", FALSE)
    BY <1>1, <1>6, QuitGoes
  <2>2. TaskSettles(k)'
    BY <2>1, EasySettles DEF Easy
  <2> QED
    BY <1>2, <1>4, <2>1, <2>2, LockAlone, RunSettles
<1> QED
  BY <1>5, <1>6 DEF AckCommand

LEMMA ReleaseLockSettles ==
  ASSUME Inv, SettleInv, NEW k \in Tasks, ReleaseLock(k)
  PROVE  SettleInv'
<1>0. Busy(k) /\ TypeInv
  BY DEF ReleaseLock, At, Busy, Inv
<1>1. Forward /\ UNCHANGED cmd
  BY SameForward DEF ReleaseLock, apiVars, busVars, dbVars
<1>2. Goes(k, "idle", FALSE)
  BY <1>0, QuitGoes DEF ReleaseLock
<1>3. TaskSettles(k)'
  BY <1>2, EasySettles DEF Easy
<1>4. CASE UNCHANGED lock
  BY <1>1, <1>2, <1>3, <1>4, SilentStep
<1>5. CASE lock.turn = k[1] /\ lock' = NoLock
  <2>1. lock'.turn = None /\ ~lock'.published
    BY <1>5, NoLockType, NoLockSilent
  <2>2. \A j \in Tasks : j # k => Undisturbed(j)
    BY <1>0, <1>1, <1>5, <2>1, OwnEntry
  <2> QED
    BY <1>1, <1>2, <1>3, <2>1, <2>2, RunSettles
<1> QED
  BY <1>4, <1>5 DEF ReleaseLock, Purge

LEMMA CallFailsSettles ==
  ASSUME Inv, SettleInv, NEW k \in Tasks, CallFails(k)
  PROVE  SettleInv'
<1>0. Busy(k)
  BY DEF CallFails, Busy
<1> QED
  BY <1>0, FailStep DEF CallFails, apiVars, busVars, dbVars

-----------------------------------------------------------------------------
INSTANCE FiniteSetTheorems

-----------------------------------------------------------------------------
\* What is left up to a parent was there before.
LEMMA UpToLeaves ==
  ASSUME msgs \in Seq(answers), NEW p
  PROVE  /\ UpTo(p) \in Seq(answers)
         /\ \A i \in 1..Len(UpTo(p)) : \E j \in 1..Len(msgs) : UpTo(p)[i] = msgs[j]
<1> DEFINE kept == {i \in 1..Len(msgs) : \E j \in i..Len(msgs) : msgs[j] = p}
<1>1. Len(msgs) \in Nat /\ kept \in SUBSET (1..Len(msgs))
  BY SMT
<1>2. IsFiniteSet(1..Len(msgs)) /\ Cardinality(1..Len(msgs)) = Len(msgs)
  <2>1. PICK m \in Nat : m = Len(msgs)
    BY <1>1
  <2>2. 1 \in Int /\ m \in Int /\ (IF 1 > m THEN 0 ELSE m - 1 + 1) = m
    BY SMT
  <2>3. IsFiniteSet(1..m) /\ Cardinality(1..m) = m
    BY <2>2, FS_Interval
  <2> QED
    BY <2>1, <2>3
<1> HIDE DEF kept
<1>3. Cardinality(kept) \in Nat /\ Cardinality(kept) <= Len(msgs)
  <2>1. IsFiniteSet(kept) /\ Cardinality(kept) <= Cardinality(1..Len(msgs))
    BY <1>1, <1>2, FS_Subset
  <2> QED
    BY SMT, <1>2, <2>1, FS_CardinalityType
<1>4. PICK c \in 0..Len(msgs) : c = Cardinality(kept)
  BY SMT, <1>1, <1>3
<1>5. UpTo(p) = SubSeq(msgs, 1, c)
  BY <1>4 DEF UpTo, kept
<1> QED
  BY SMT, <1>5

LEMMA AppendFacts ==
  ASSUME NEW S, NEW s \in Seq(S), NEW a \in S
  PROVE  /\ Append(s, a) \in Seq(S) /\ Len(s) \in Nat
         /\ \A i \in 1..Len(Append(s, a)) :
              \/ i \in 1..Len(s) /\ Append(s, a)[i] = s[i]
              \/ Append(s, a)[i] = a
  BY SMT

\* A commit adds an answer that never was, so no removed parent comes back.
LEMMA CommitMsgs ==
  ASSUME MsgInv, NEW t \in Turns, NEW n, n = Cardinality({a \in answers : a.turn = t}) + 1,
         msgs' = Append(UpTo(parent[t]), [turn |-> t, n |-> n]),
         answers' = answers \cup {[turn |-> t, n |-> n]}, UNCHANGED parent
  PROVE  MsgInv' /\ \A s \in Turns : HasParent(s)' => HasParent(s)
<1>1. PICK new : new = [turn |-> t, n |-> n]
  OBVIOUS
<1>2. new.turn = t /\ new.n = n
  BY <1>1
<1> DEFINE Of(s) == {a \in answers : a.turn = s}
<1>3. ASSUME NEW s PROVE IsFiniteSet(Of(s)) /\ Cardinality(Of(s)) \in Nat
  <2>1. IsFiniteSet(Of(s))
    BY FS_Subset DEF MsgInv
  <2> QED
    BY <2>1, FS_CardinalityType
<1> PICK m \in Nat : m = Cardinality(Of(t))
  BY <1>3
<1>4. n = m + 1 /\ n \in Nat /\ m <= n /\ n <= n /\ ~(n <= m)
  <2>1. n = m + 1
    OBVIOUS
  <2> QED
    BY SMT, <2>1
<1>5. new \notin answers
  <2>1. ASSUME new \in answers PROVE n <= m
    BY <1>2, <2>1 DEF MsgInv
  <2> QED
    BY <1>4, <2>1
<1>6. Of(t)' = Of(t) \cup {new} /\ \A s : s # t => Of(s)' = Of(s)
  BY <1>1, <1>2
<1>7. Cardinality(Of(t)') = n
  <2>1. new \notin Of(t)
    BY <1>5
  <2>2. Cardinality(Of(t) \cup {new}) = Cardinality(Of(t)) + 1
    <3> HIDE DEF Of
    <3> QED
      BY <1>3, <2>1, FS_AddElement
  <2> QED
    BY <1>4, <1>6, <2>2
<1>8. IsFiniteSet(answers')
  BY FS_AddElement DEF MsgInv
<1>9. ASSUME NEW a \in answers'
      PROVE  a.n \in Nat /\ a.n <= Cardinality(Of(a.turn)')
  <2>1. CASE a = new
    BY <1>2, <1>4, <1>7, <2>1
  <2>2. CASE a \in answers
    <3>1. a.n \in Nat /\ a.n <= Cardinality(Of(a.turn))
      BY <2>2 DEF MsgInv
    <3>2. CASE a.turn = t
      <4>1. a.n <= m
        BY <3>1, <3>2
      <4>2. a.n <= n
        BY SMT, <1>4, <3>1, <4>1
      <4> QED
        BY <1>7, <3>1, <3>2, <4>2
    <3>3. CASE a.turn # t
      BY <1>6, <3>1, <3>3
    <3> QED
      BY <3>2, <3>3
  <2> QED
    BY <1>1, <2>1, <2>2
<1> DEFINE u == UpTo(parent[t])
<1>10. /\ u \in Seq(answers)
       /\ \A i \in 1..Len(u) : \E j \in 1..Len(msgs) : u[i] = msgs[j]
  BY UpToLeaves DEF MsgInv
<1> HIDE DEF u, Of
<1>11. msgs' = Append(u, new)
  BY <1>1 DEF u
<1>12. msgs' \in Seq(answers')
  <2>1. answers' = answers \cup {new}
    BY <1>1
  <2> QED
    <3>1. new \in answers \cup {new} /\ u \in Seq(answers \cup {new})
      BY SMT, <1>10
    <3>2. Append(u, new) \in Seq(answers \cup {new})
      BY <3>1, AppendFacts
    <3> QED
      BY <1>11, <2>1, <3>2
<1>13. MsgInv'
  <2>1. parent' \in [Turns -> answers' \cup {NoAnswer}]
    BY DEF MsgInv
  <2> QED
    BY <1>8, <1>9, <1>12, <2>1 DEF MsgInv, Of
<1>14. ASSUME NEW s \in Turns, HasParent(s)' PROVE HasParent(s)
  <2>1. SUFFICES ASSUME parent[s] # NoAnswer PROVE HasParent(s)
    BY DEF HasParent
  <2>2. PICK i \in 1..Len(msgs') : msgs'[i] = parent[s]
    BY <1>14, <2>1 DEF HasParent
  <2>3. parent[s] \in answers /\ parent[s] # new
    BY <1>5, <2>1 DEF MsgInv
  <2>4. i \in 1..Len(u) /\ msgs'[i] = u[i]
    <3>1. new \in answers \cup {new} /\ u \in Seq(answers \cup {new})
      BY SMT, <1>10
    <3>2. \A l \in 1..Len(Append(u, new)) :
            (l \in 1..Len(u) /\ Append(u, new)[l] = u[l]) \/ Append(u, new)[l] = new
      BY <3>1, AppendFacts
    <3> QED
      BY <1>11, <2>2, <2>3, <3>2
  <2> QED
    BY <1>10, <2>2, <2>4 DEF HasParent
<1> QED
  BY <1>13, <1>14

LEMMA CommitTurnSettles ==
  ASSUME Inv, SettleInv, NEW k \in Tasks, CommitTurn(k)
  PROVE  SettleInv'
<1>0. task[k].pc = "commit" /\ Busy(k)
  BY DEF CommitTurn, At, Busy
<1>1. TypeInv /\ k[1] \in Turns /\ task[k].quiet = FALSE
  BY <1>0, AtWork DEF Quiet
<1>2. UNCHANGED <<lock, cmd, api, parent, events>>
  BY DEF CommitTurn, apiVars, busVars
<1> DEFINE n == Cardinality({a \in answers : a.turn = k[1]}) + 1
<1>3. CASE /\ msgs' = Append(UpTo(parent[k[1]]), [turn |-> k[1], n |-> n])
           /\ answers' = answers \cup {[turn |-> k[1], n |-> n]}
           /\ \/ task' = [task EXCEPT ![k].pc = "mark", ![k].n = n] /\ UNCHANGED budget
              \/ Spend /\ FailOwned(k, TRUE)
  <2> HIDE DEF n
  <2>1. MsgInv' /\ \A s \in Turns : HasParent(s)' => HasParent(s)
    BY <1>1, <1>2, <1>3, CommitMsgs DEF SettleInv, n
  <2>2. Forward
    BY <1>2, <1>3, <2>1, BudgetForward DEF Forward
  <2>3. CASE task' = [task EXCEPT ![k].pc = "mark", ![k].n = n]
    <3>1. Goes(k, "mark", task[k].quiet)
      BY <1>1, <2>3, AnswerGoes
    <3>2. TaskSettles(k)'
      BY <1>1, <3>1, EasySettles
    <3> QED
      BY <1>2, <2>2, <3>1, <3>2, SilentStep
  <2>4. CASE Spend /\ FailOwned(k, TRUE)
    BY <1>0, <1>2, <2>2, <2>4, CommitFails, SilentStep
  <2> QED
    BY <1>3, <2>3, <2>4
<1>4. CASE /\ \/ ~HasParent(k[1]) /\ UNCHANGED budget
              \/ HasParent(k[1]) /\ Spend
           /\ FailOwned(k, TRUE)
           /\ UNCHANGED dbVars
  <2>1. Forward
    BY <1>2, <1>4, SameForward DEF dbVars
  <2>2. ~HasParent(k[1]) => ~Fine(k[1])'
    BY <1>2, <1>4 DEF Fine, HasParent, dbVars
  <2>3. Goes(k, "mark", TRUE) /\ TaskSettles(k)'
    BY <1>0, <1>2, <1>4, <2>1, <2>2, CommitFails
  <2> QED
    BY <1>2, <2>1, <2>3, SilentStep
<1> QED
  BY <1>3, <1>4 DEF CommitTurn

LEMMA InitSettles == Init => SettleInv
<1> SUFFICES ASSUME Init PROVE SettleInv
  OBVIOUS
<1>1. IdleTask.pc = "idle" /\ ~IdleTask.quiet
  BY DEF IdleTask
<1>2. ASSUME NEW k \in Tasks PROVE TaskSettles(k)
  <2>1. task[k] = IdleTask
    BY DEF Init
  <2> QED
    BY <1>1, <2>1 DEF TaskSettles, Driving
<1>3. MsgInv
  <2>1. IsFiniteSet({})
    BY FS_EmptySet
  <2>2. <<>> \in Seq({})
    BY SMT
  <2> QED
    BY <2>1, <2>2 DEF Init, MsgInv
<1>4. \A t \in Turns : cmd[t] # "acked" /\ api[t] \notin {"undo", "release"}
  BY DEF Init
<1>5. ~lock.published
  BY NoLockSilent DEF Init
<1> QED
  BY <1>2, <1>3, <1>4, <1>5 DEF SettleInv

LEMMA NextSettles == Inv /\ SettleInv /\ [Next]_vars => SettleInv'
<1> SUFFICES ASSUME Inv, SettleInv, [Next]_vars PROVE SettleInv'
  OBVIOUS
<1>1. ASSUME NEW t \in Turns, Request(t) \/ ApiCrash(t) \/ AckWait(t) PROVE SettleInv'
  BY <1>1, AssertParentTailSettles, AcquireLockSettles, CreateLockSettles,
     PublishCommandSettles, UndoRecordSettles, UndoReleaseSettles, ApiCrashSettles,
     AckWaitSettles DEF Request
<1>2. ASSUME StopTurn \/ LeaseExpires \/ KeyExpires PROVE SettleInv'
  BY <1>2, StopTurnSettles, LeaseExpiresSettles, KeyExpiresSettles
<1>3. ASSUME NEW k \in Tasks, Run(k) PROVE SettleInv'
  BY <1>3, LoadLockSettles, MarkStaleSettles, RecordStaleSettles, RecordFailedSettles,
     PublishOutcomeSettles, ClaimLockSettles, StartTurnSettles, StreamAnswerSettles,
     CommitTurnSettles, MarkTerminalSettles, MarkPublishedSettles, AckCommandSettles,
     ReleaseLockSettles DEF Run
<1>4. ASSUME UNCHANGED vars PROVE SettleInv'
  <2>1. UNCHANGED <<api, parent, msgs, answers, events, lock, cmd, task>> /\ UNCHANGED budget
    BY <1>4 DEF vars, apiVars, busVars, dbVars
  <2>2. Forward
    BY <2>1, SameForward
  <2> QED
    BY <2>1, <2>2, LockAlone, EveryoneStands
<1> QED
  BY <1>1, <1>2, <1>3, <1>4, CrashSettles, DeliverSettles, CallFailsSettles DEF Next

\* With at most one failure or stall in all, a worker acks the command of a turn
\* whose message is there only when the turn has ended in CHAT_EVENTS, however
\* many turns, workers and deliveries there are.
THEOREM AckedCommandsAreSettled == Spec => []AckedIsSettled
<1>1. SettleInv => AckedIsSettled
  BY DEF SettleInv, AckedIsSettled, Fine, Told
<1>2. Init => Inv /\ SettleInv
  BY InitInv, InitSettles
<1>3. (Inv /\ SettleInv) /\ [Next]_vars => (Inv /\ SettleInv)'
  BY NextInv, NextSettles
<1> QED
  BY <1>1, <1>2, <1>3, PTL DEF Spec
=============================================================================
