------------------------------ MODULE ChatTurn ------------------------------
(***************************************************************************)
(* The life of a chat turn in one conversation, from enqueue_turn in the   *)
(* api-service to the last step of run_turn in a chat-worker, over the     *)
(* entry of the conversation in the CHAT_LOCKS bucket, the command of the  *)
(* turn in the CHAT_COMMANDS work queue, the events of the turn and the    *)
(* conversation's rows in Postgres.                                        *)
(*                                                                         *)
(* Every await of the handlers is a step of its own.  A compare-and-swap   *)
(* loop on the lock (read, decide, update at the revision read, up to      *)
(* eight times) is one step, taken where its update succeeds; its giving   *)
(* up is a fault.  A message is its turn: the user's and the assistant's   *)
(* message of a turn are written together and stand for one entry.         *)
(***************************************************************************)
EXTENDS Naturals, Sequences, FiniteSets

CONSTANTS
  Turns,      \* turns submitted to the conversation
  Workers,    \* chat-worker processes
  Slots,      \* run_turn tasks that may serve one turn at a time
  None,       \* no turn, no worker
  MaxTroubles \* bound: faults (failing calls, lost replies, crashes) and lapses
              \* (leases and ack waits that run out under a live task) together

ASSUME ChatAssumption ==
  /\ None \notin Turns \cup Workers
  /\ MaxTroubles \in Nat

VARIABLES
  api,      \* per turn, where enqueue_turn stands
  parent,   \* per turn, the answer its request names as parent
  cmd,      \* per turn, its command in CHAT_COMMANDS
  task,     \* the run_turn tasks
  lock,     \* the conversation's entry in CHAT_LOCKS
  signals,  \* stop signals published to workers
  msgs,     \* chat_message, in ordinal order
  status,   \* per turn, chat_turn.status
  answers,  \* history: every answer a transaction committed
  events,   \* turn-ending events in CHAT_EVENTS
  faults,   \* faults so far
  lapses    \* lapses so far

dbVars == <<msgs, status, answers>>
busVars == <<cmd, signals, events>>
apiVars == <<api, parent>>
budget == <<faults, lapses>>
vars == <<apiVars, busVars, task, lock, dbVars, budget>>

------------------------------------------------------------------------------
Tasks == Turns \X Slots
Outcomes == {"committed", "interrupted", "failed"}

NoAnswer == [turn |-> None, n |-> 0]

NoLock == [turn |-> None, state |-> "absent", worker |-> None, stop |-> FALSE,
           published |-> FALSE, fresh |-> FALSE, n |-> 0]
\* ChatLock::requested
Requested(t) == [NoLock EXCEPT !.turn = t, !.state = "requested", !.fresh = TRUE]
Terminal(l) == l.state \in Outcomes

IdleTask == [pc |-> "idle", worker |-> None, stop |-> FALSE, way |-> "failed",
             n |-> 0, quiet |-> FALSE]

Busy(k) == task[k].pc # "idle"
At(k, pc) == task[k].pc = pc
Goto(k, pc) == task' = [task EXCEPT ![k].pc = pc]
Quit(k) == task' = [task EXCEPT ![k] = IdleTask]

Spend == faults + lapses < MaxTroubles /\ faults' = faults + 1 /\ UNCHANGED lapses
Lapse == faults + lapses < MaxTroubles /\ lapses' = lapses + 1 /\ UNCHANGED faults

\* Slip: a failing call is only logged, and the command is acked all the same.
FailAcks(k) == Goto(k, "ack")

\* A failing call ends run_turn with an error, and the command stays unacked;
\* within `let _ = fail_owned_turn(..)` it is dropped and the turn counts as
\* driven.
Fail(k) ==
  IF task[k].quiet /\ task[k].pc \in {"mark", "failed", "publish", "markpub"}
  THEN Goto(k, "ack")
  ELSE Quit(k)

\* The call took effect; its reply may still be lost.
Then(k, pc) ==
  \/ Goto(k, pc) /\ UNCHANGED budget
  \/ Spend /\ Fail(k)

Init ==
  /\ api = [t \in Turns |-> "idle"]
  /\ parent = [t \in Turns |-> NoAnswer]
  /\ cmd = [t \in Turns |-> "none"]
  /\ task = [k \in Tasks |-> IdleTask]
  /\ lock = NoLock
  /\ signals = {}
  /\ msgs = <<>>
  /\ status = [t \in Turns |-> "none"]
  /\ answers = {}
  /\ events = {}
  /\ faults = 0
  /\ lapses = 0

------------------------------------------------------------------------------
(***************************************************************************)
(* The api-service                                                         *)
(***************************************************************************)

LastAnswer == IF msgs = <<>> THEN NoAnswer ELSE msgs[Len(msgs)]

\* assert_parent_tail: the request goes on only if it names the last message.
AssertParentTail(t) ==
  /\ api[t] = "idle"
  /\ api' = [api EXCEPT ![t] = "acquire"]
  /\ parent' = [parent EXCEPT ![t] = LastAnswer]
  /\ UNCHANGED <<busVars, task, lock, dbVars, budget>>

\* acquire_kv_lock: an expired entry is purged, a fresh one refuses the turn.
AcquireLock(t) ==
  /\ api[t] = "acquire"
  /\ \/ /\ lock.fresh
        /\ api' = [api EXCEPT ![t] = "refused"]
        /\ UNCHANGED lock
     \/ /\ ~lock.fresh
        /\ lock' = NoLock
        /\ api' = [api EXCEPT ![t] = "create"]
  /\ UNCHANGED <<parent, busVars, task, dbVars, budget>>

\* create_kv_lock, which refuses when an entry has appeared since.
CreateLock(t) ==
  /\ api[t] = "create"
  /\ \/ /\ lock = NoLock
        /\ lock' = Requested(t)
        /\ api' = [api EXCEPT ![t] = "publish"]
     \/ /\ lock # NoLock
        /\ api' = [api EXCEPT ![t] = "refused"]
        /\ UNCHANGED lock
  /\ UNCHANGED <<parent, busVars, task, dbVars, budget>>

\* publish_turn_requested.  The command may be stored although its ack fails.
PublishCommand(t) ==
  /\ api[t] = "publish"
  /\ \/ /\ cmd' = [cmd EXCEPT ![t] = "queued"]
        /\ \/ api' = [api EXCEPT ![t] = "accepted"] /\ UNCHANGED budget
           \/ api' = [api EXCEPT ![t] = "undo"] /\ Spend
     \/ /\ api' = [api EXCEPT ![t] = "undo"] /\ Spend
        /\ UNCHANGED cmd
  /\ UNCHANGED <<parent, signals, events, task, lock, dbVars>>

\* The publish failed: record_turn_failed, whose own failure is ignored...
UndoRecord(t) ==
  /\ api[t] = "undo"
  /\ api' = [api EXCEPT ![t] = "release"]
  /\ \/ status' = [status EXCEPT ![t] = "failed"] /\ UNCHANGED budget
     \/ Spend /\ UNCHANGED status
  /\ UNCHANGED <<parent, busVars, task, lock, msgs, answers>>

\* Slip: release_lock does not ask whose entry it purges.
PurgeUnasked(t) == lock' = IF t \in Turns THEN NoLock ELSE lock

\* release_lock: purge the entry if it is still this turn's.
Purge(t) == lock' = IF lock.turn = t THEN NoLock ELSE lock

\* ...and release_lock, whose failure is only logged.
UndoRelease(t) ==
  /\ api[t] = "release"
  /\ api' = [api EXCEPT ![t] = "refused"]
  /\ \/ Purge(t) /\ UNCHANGED budget
     \/ Spend /\ UNCHANGED lock
  /\ UNCHANGED <<parent, busVars, task, dbVars>>

\* The api-service dies in the middle of a request.
ApiCrash(t) ==
  /\ api[t] \in {"acquire", "create", "publish", "undo", "release"}
  /\ api' = [api EXCEPT ![t] = "dead"]
  /\ Spend
  /\ UNCHANGED <<parent, busVars, task, lock, dbVars>>

\* stop_turn: flag the entry (an expired one is purged instead) and signal
\* the worker that runs the turn; the signal may be lost.
StopTurn ==
  /\ lock # NoLock
  /\ \/ /\ ~lock.fresh
        /\ lock' = NoLock
        /\ UNCHANGED signals
     \/ /\ lock.fresh /\ ~lock.stop
        /\ lock' = [lock EXCEPT !.stop = TRUE]
        /\ \/ UNCHANGED signals
           \/ /\ lock.worker # None
              /\ signals' = signals \cup {<<lock.turn, lock.worker>>}
  /\ UNCHANGED <<apiVars, cmd, events, task, dbVars, budget>>

------------------------------------------------------------------------------
(***************************************************************************)
(* Time, the work queue and crashes                                        *)
(***************************************************************************)

\* Slip: the maintenance task outlives the turn it renews.
RenewedForever(t) == cmd[t] # "acked"

\* A command is in the hands of a task, and the lease of the turn's entry in
\* those of one that renews it (or of the request that has just written it).
Served(t) == \E i \in Slots : Busy(<<t, i>>)
Renewed(t) ==
  \/ \E i \in Slots : task[<<t, i>>].pc \in {"start", "stream", "commit", "mark",
       "failed", "publish", "markpub", "ack", "release"}
  \/ api[t] \in {"publish", "undo", "release"}

\* The lease of the entry runs out: because nobody renews it, or because
\* whoever should has stalled.
LeaseExpires ==
  /\ lock.fresh
  /\ lock' = [lock EXCEPT !.fresh = FALSE]
  /\ \/ Lapse
     \/ ~Renewed(lock.turn) /\ UNCHANGED budget
  /\ UNCHANGED <<apiVars, busVars, task, dbVars>>

\* The bucket's max_age is the length of a lease, and no write that leaves the
\* lease alone makes the entry older: an entry vanishes after its lease is out.
KeyExpires ==
  /\ lock # NoLock /\ ~lock.fresh
  /\ lock' = NoLock
  /\ UNCHANGED <<apiVars, busVars, task, dbVars, budget>>

\* An unacked command is delivered again after ack_wait without progress.
AckWait(t) ==
  /\ cmd[t] = "delivered"
  /\ cmd' = [cmd EXCEPT ![t] = "queued"]
  /\ \/ Lapse
     \/ ~Served(t) /\ UNCHANGED budget
  /\ UNCHANGED <<apiVars, signals, events, task, lock, dbVars>>

\* A worker dies with all its tasks, and comes back under the same id (the
\* deployment may fix CHAT_WORKER_ID); signals it had not seen are gone.
Crash(w) ==
  /\ \E k \in Tasks : task[k].worker = w
  /\ task' = [k \in Tasks |-> IF task[k].worker = w THEN IdleTask ELSE task[k]]
  /\ signals' = {s \in signals : s[2] # w}
  /\ Spend
  /\ UNCHANGED <<apiVars, cmd, events, lock, dbVars>>

\* The consumer hands a command to a worker, which spawns run_turn.
Deliver(k) ==
  /\ ~Busy(k)
  /\ cmd[k[1]] = "queued"
  /\ cmd' = [cmd EXCEPT ![k[1]] = "delivered"]
  /\ \E w \in Workers :
       task' = [task EXCEPT ![k] = [IdleTask EXCEPT !.pc = "load", !.worker = w]]
  /\ UNCHANGED <<apiVars, signals, events, lock, dbVars, budget>>

------------------------------------------------------------------------------
(***************************************************************************)
(* run_turn: what a delivery does with the entry it finds                  *)
(***************************************************************************)

\* Slip: a running entry is claimed again instead of being given up.
LoadLockReclaims(k) ==
  /\ At(k, "load")
  /\ \/ lock = NoLock /\ Goto(k, "orphan")
     \/ lock.turn \notin {None, k[1]} /\ Quit(k)
     \/ /\ lock.turn = k[1]
        /\ \/ Terminal(lock) /\ lock.published /\ Goto(k, "ack")
           \/ /\ Terminal(lock) /\ ~lock.published
              /\ task' = [task EXCEPT ![k].pc = "missing", ![k].way = lock.state,
                                      ![k].n = lock.n]
           \/ ~Terminal(lock) /\ Goto(k, "claim")
  /\ UNCHANGED <<apiVars, busVars, lock, dbVars, budget>>

\* load_lock, and the branch it decides.
LoadLock(k) ==
  /\ At(k, "load")
  /\ \/ lock = NoLock /\ Goto(k, "orphan")
     \/ lock.turn \notin {None, k[1]} /\ Quit(k)
     \/ /\ lock.turn = k[1]
        /\ \/ Terminal(lock) /\ lock.published /\ Goto(k, "ack")
           \/ /\ Terminal(lock) /\ ~lock.published
              /\ task' = [task EXCEPT ![k].pc = "missing", ![k].way = lock.state,
                                      ![k].n = lock.n]
           \/ lock.state = "running" /\ lock.fresh /\ Quit(k)
           \/ lock.state = "running" /\ ~lock.fresh /\ Goto(k, "stale")
           \/ lock.state = "requested" /\ Goto(k, "claim")
  /\ UNCHANGED <<apiVars, busVars, lock, dbVars, budget>>

\* The owner's lease ran out: mark_lock_terminal for no worker in particular...
MarkStale(k) ==
  /\ At(k, "stale")
  /\ \/ /\ lock.turn # k[1]
        /\ Quit(k) /\ UNCHANGED <<lock, budget>>
     \/ /\ lock.turn = k[1]
        /\ lock' = [lock EXCEPT !.state = "failed", !.published = FALSE,
                                !.fresh = TRUE, !.n = 0]
        /\ Then(k, "record")
  /\ UNCHANGED <<apiVars, busVars, dbVars>>

\* ...and record_turn_failed, whose failure does count here.
RecordStale(k) ==
  /\ At(k, "record")
  /\ status' = [status EXCEPT ![k[1]] = "failed"]
  /\ Then(k, "missing")
  /\ UNCHANGED <<apiVars, busVars, lock, msgs, answers>>

\* record_turn_failed in publish_failed_turn, whose result is ignored.
RecordFailed(k) ==
  /\ task[k].pc \in {"orphan", "failed"}
  /\ \/ status' = [status EXCEPT ![k[1]] = "failed"] /\ UNCHANGED budget
     \/ Spend /\ UNCHANGED status
  /\ Goto(k, IF At(k, "orphan") THEN "tell" ELSE "publish")
  /\ UNCHANGED <<apiVars, busVars, lock, msgs, answers>>

\* Slip: a delivery that finds no entry tells the client and forgets the ack.
PublishOutcomeUnacked(k) ==
  /\ task[k].pc \in {"tell", "missing", "publish"}
  /\ events' = events \cup {[turn |-> k[1], way |-> task[k].way, n |-> task[k].n]}
  /\ Then(k, IF At(k, "tell") THEN "idle" ELSE "markpub")
  /\ UNCHANGED <<apiVars, cmd, signals, lock, dbVars>>

\* The turn-ending event: Finish, Interrupted, or Error and Clear.  A turn
\* found terminal has it published again unless the entry says it was.
PublishOutcome(k) ==
  /\ task[k].pc \in {"tell", "missing", "publish"}
  /\ events' = events \cup {[turn |-> k[1], way |-> task[k].way, n |-> task[k].n]}
  /\ Then(k, IF At(k, "tell") THEN "ackonly" ELSE "markpub")
  /\ UNCHANGED <<apiVars, cmd, signals, lock, dbVars>>

\* claim_kv_lock.  An entry that turned terminal since it was read is handed
\* out as it is, and the turn is driven on it.
ClaimLock(k) ==
  /\ At(k, "claim")
  /\ LET w == task[k].worker
         mine == lock.turn = k[1]
         free == lock.state = "requested" \/ (lock.state = "running" /\ lock.worker = w)
     IN
     \/ /\ mine /\ Terminal(lock)
        /\ task' = [task EXCEPT ![k].pc = "start", ![k].stop = lock.stop]
        /\ UNCHANGED <<lock, budget>>
     \/ /\ mine /\ free /\ lock.fresh
        /\ lock' = [lock EXCEPT !.state = "running", !.worker = w]
        /\ \/ /\ task' = [task EXCEPT ![k].pc = "start", ![k].stop = lock.stop]
              /\ UNCHANGED budget
           \/ Spend /\ Fail(k)
     \/ /\ ~(mine /\ (Terminal(lock) \/ (free /\ lock.fresh)))
        /\ Quit(k) /\ UNCHANGED <<lock, budget>>
  /\ UNCHANGED <<apiVars, busVars, dbVars>>

------------------------------------------------------------------------------
(***************************************************************************)
(* drive_turn                                                              *)
(***************************************************************************)

StopSeen(k) ==
  \/ task[k].stop
  \/ <<k[1], task[k].worker>> \in signals
  \/ lock.turn = k[1] /\ lock.fresh /\ lock.stop

\* fail_owned_turn
FailOwned(k, ignored) ==
  task' = [task EXCEPT ![k].pc = "mark", ![k].way = "failed",
                       ![k].n = 0, ![k].quiet = ignored]

\* TurnStarted and UserMessage are published; a stop that is already there is
\* honoured before the provider is called.
StartTurn(k) ==
  /\ At(k, "start")
  /\ \/ /\ StopSeen(k)
        /\ task' = [task EXCEPT ![k].pc = "commit", ![k].way = "interrupted"]
     \/ /\ ~task[k].stop /\ ~(lock.turn = k[1] /\ lock.fresh /\ lock.stop)
        /\ Goto(k, "stream") \/ FailOwned(k, FALSE)
  /\ UNCHANGED <<apiVars, busVars, lock, dbVars, budget>>

\* The stream ends, fails, is stopped, or the maintenance task reports that
\* the entry could not be renewed: whichever select! takes first.
StreamAnswer(k) ==
  /\ At(k, "stream")
  /\ \/ task' = [task EXCEPT ![k].pc = "commit", ![k].way = "committed"]
     \/ FailOwned(k, FALSE)
     \/ /\ StopSeen(k)
        /\ task' = [task EXCEPT ![k].pc = "commit", ![k].way = "interrupted"]
  /\ UNCHANGED <<apiVars, busVars, lock, dbVars, budget>>

\* The pairs up to the parent stay; a request without a parent starts at 0.
UpTo(p) ==
  LET kept == {i \in 1..Len(msgs) : \E j \in i..Len(msgs) : msgs[j] = p}
  IN  SubSeq(msgs, 1, Cardinality(kept))

HasParent(t) == parent[t] = NoAnswer \/ \E i \in 1..Len(msgs) : msgs[i] = parent[t]

\* Slip: a commit that failed is taken for one that succeeded.
CommitUnchecked(k) ==
  /\ At(k, "commit")
  /\ LET t == k[1]
         n == Cardinality({a \in answers : a.turn = t}) + 1
     IN
     /\ task' = [task EXCEPT ![k].pc = "mark", ![k].n = n]
     /\ \/ /\ HasParent(t)
           /\ msgs' = Append(UpTo(parent[t]), [turn |-> t, n |-> n])
           /\ status' = [status EXCEPT ![t] = task[k].way]
           /\ answers' = answers \cup {[turn |-> t, n |-> n]}
           /\ UNCHANGED budget
        \/ Spend /\ UNCHANGED dbVars
  /\ UNCHANGED <<apiVars, busVars, lock>>

\* commit_pg_turn, for a whole answer or an interrupted one: the parent is
\* looked up, everything after it is deleted and the turn is put there.  The
\* conversation is read back afterwards, and a failure of that read is
\* reported like a failure of the commit.
CommitTurn(k) ==
  /\ At(k, "commit")
  /\ LET t == k[1]
         n == Cardinality({a \in answers : a.turn = t}) + 1
     IN
     \/ /\ HasParent(t)
        /\ msgs' = Append(UpTo(parent[t]), [turn |-> t, n |-> n])
        /\ status' = [status EXCEPT ![t] = task[k].way]
        /\ answers' = answers \cup {[turn |-> t, n |-> n]}
        /\ \/ /\ task' = [task EXCEPT ![k].pc = "mark", ![k].n = n]
              /\ UNCHANGED budget
           \/ Spend /\ FailOwned(k, TRUE)
     \/ /\ \/ ~HasParent(t) /\ UNCHANGED budget
           \/ HasParent(t) /\ Spend
        /\ FailOwned(k, TRUE)
        /\ UNCHANGED dbVars
  /\ UNCHANGED <<apiVars, busVars, lock>>

\* mark_lock_terminal for this worker.  Neither the lease nor a terminal state
\* already there is looked at.
MarkTerminal(k) ==
  /\ At(k, "mark")
  /\ LET owned == lock.turn = k[1] /\ lock.worker = task[k].worker IN
     \/ /\ ~owned
        /\ Fail(k) /\ UNCHANGED <<lock, budget>>
     \/ /\ owned
        /\ lock' = [lock EXCEPT !.state = task[k].way, !.published = FALSE,
                                !.fresh = TRUE, !.n = task[k].n]
        /\ Then(k, IF task[k].way = "failed" THEN "failed" ELSE "publish")
  /\ UNCHANGED <<apiVars, busVars, dbVars>>

\* mark_terminal_event_published, if the entry is still there and terminal.
MarkPublished(k) ==
  /\ At(k, "markpub")
  /\ lock' = IF lock.turn = k[1] /\ Terminal(lock)
             THEN [lock EXCEPT !.published = TRUE] ELSE lock
  /\ Then(k, "ack")
  /\ UNCHANGED <<apiVars, busVars, dbVars>>

\* ack_turn_requested.  The ack is sent and not confirmed: it may be lost
\* without an error.
AckCommand(k) ==
  /\ task[k].pc \in {"ack", "ackonly"}
  /\ \/ cmd' = [cmd EXCEPT ![k[1]] = "acked"] /\ UNCHANGED budget
     \/ Spend /\ UNCHANGED cmd
  /\ IF At(k, "ack") THEN Goto(k, "release") ELSE Quit(k)
  /\ UNCHANGED <<apiVars, signals, events, lock, dbVars>>

ReleaseLock(k) ==
  /\ At(k, "release")
  /\ Purge(k[1])
  /\ Quit(k)
  /\ UNCHANGED <<apiVars, busVars, dbVars, budget>>

\* A call answers with an error and has done nothing.
CallFails(k) ==
  /\ task[k].pc \in {"load", "tell", "stale", "record", "missing", "claim", "start",
                     "stream", "mark", "publish", "markpub", "ack", "ackonly", "release"}
  /\ Spend
  /\ Fail(k)
  /\ UNCHANGED <<apiVars, busVars, lock, dbVars>>

------------------------------------------------------------------------------
Request(t) ==
  \/ AssertParentTail(t) \/ AcquireLock(t) \/ CreateLock(t) \/ PublishCommand(t)
  \/ UndoRecord(t) \/ UndoRelease(t)

Run(k) ==
  \/ LoadLock(k) \/ MarkStale(k) \/ RecordStale(k) \/ RecordFailed(k)
  \/ PublishOutcome(k) \/ ClaimLock(k) \/ StartTurn(k) \/ StreamAnswer(k)
  \/ CommitTurn(k) \/ MarkTerminal(k) \/ MarkPublished(k) \/ AckCommand(k)
  \/ ReleaseLock(k)

Next ==
  \/ \E t \in Turns : Request(t) \/ ApiCrash(t) \/ AckWait(t)
  \/ StopTurn \/ LeaseExpires \/ KeyExpires
  \/ \E w \in Workers : Crash(w)
  \/ \E k \in Tasks : Deliver(k) \/ Run(k) \/ CallFails(k)

Spec == Init /\ [][Next]_vars

------------------------------------------------------------------------------
\* Finish and Interrupted name an answer that the database committed before,
\* whichever worker publishes them and however often.
OutcomeAfterCommit ==
  \A e \in events : e.way # "failed" => [turn |-> e.turn, n |-> e.n] \in answers

\* Without a stall past a lease or an ack wait, a turn is answered at most
\* once, although workers die and commands come again.
AnsweredOnce ==
  lapses = 0 => \A a, b \in answers : a.turn = b.turn => a = b

\* No single failure or stall lets the worker ack a command for good before
\* the turn has ended in CHAT_EVENTS, as long as the message it answers is there.
\* Once another turn has removed that one the commit is refused, and whatever
\* fails after it is dropped.
AckedIsSettled ==
  faults + lapses <= 1 =>
    \A t \in Turns : cmd[t] = "acked" /\ HasParent(t) => \E e \in events : e.turn = t

\* A live entry is taken away only by a handler of its own turn that gives it
\* back; a late release or a new request never removes it.
LockKept ==
  [][\A t \in Turns : lock.turn = t /\ lock.fresh /\ lock'.turn # t =>
       \/ api[t] = "release" /\ api'[t] # "release"
       \/ \E i \in Slots : /\ task[<<t, i>>].pc = "release"
                           /\ task'[<<t, i>>].pc # "release"]_vars

\* A message that was committed stays in the conversation.
CommittedKept ==
  [][\A i \in 1..Len(msgs) : \E j \in 1..Len(msgs') : msgs'[j] = msgs[i]]_vars

------------------------------------------------------------------------------
Fairness ==
  /\ \A t \in Turns : WF_vars(Request(t)) /\ WF_vars(~Served(t) /\ AckWait(t))
  /\ \A k \in Tasks : WF_vars(Run(k))
  /\ \A t \in Turns : WF_vars(\E i \in Slots : Deliver(<<t, i>>))
  /\ WF_vars(lock.fresh /\ ~Renewed(lock.turn) /\ LeaseExpires)
  /\ WF_vars(KeyExpires)

FairSpec == Spec /\ Fairness

\* A command that is in the queue is settled in the end and never comes again.
CommandSettles == \A t \in Turns : cmd[t] # "none" ~> [](cmd[t] = "acked")

\* No turn keeps the conversation for itself.
ConversationFreed == \A t \in Turns : lock.turn = t ~> lock.turn # t
=============================================================================
