---------------------------- MODULE LockContract ----------------------------
(***************************************************************************)
(* What ChatBus promises about the lock of one conversation: each call     *)
(* takes effect at once, at some point between its start and its answer.   *)
(* This is InMemoryChatBus, whose calls run under one mutex, widened where *)
(* the bus over the KV bucket may answer differently: an expired entry may *)
(* go away before the call that finds it expired ends, a release may be    *)
(* lost, and a call may fail, with its effect or without.                  *)
(***************************************************************************)
EXTENDS Naturals

CONSTANTS Clients, Turns, Outcomes, None

VARIABLES
  lock, \* the entry of the conversation
  call  \* per client, the operation it is waiting for, the answer to its last
        \* one, and whether the entry's lease held at some point during the call

contractVars == <<lock, call>>

NoLock == [turn |-> None, state |-> "absent", worker |-> None, stop |-> FALSE,
           published |-> FALSE, fresh |-> FALSE]
\* ChatLock::requested
Requested(t) == [NoLock EXCEPT !.turn = t, !.state = "requested", !.fresh = TRUE]

\* The calls of ChatBus; a client that names a worker names itself.
Ops(c) == [op : {"acquire", "claim", "published", "stopped", "renew", "release"},
           turn : Turns]
          \cup [op : {"load", "stop"}, turn : {None}]
          \cup [op : {"terminal"}, turn : Turns, worker : {c, None}, state : Outcomes]
NoOp == [op |-> "none", turn |-> None]
Idle == [op |-> NoOp, answer |-> "none", held |-> FALSE]

Present == lock # NoLock
Terminal(l) == l.state \in Outcomes

LockInit == lock = NoLock /\ call = [c \in Clients |-> Idle]

\* The lease of an entry written fresh holds for every call under way.
Held(l) == [d \in Clients |-> [call[d] EXCEPT !.held = (@ \/ l.fresh) /\ call[d].op # NoOp]]
Answer(c, a, l) == lock' = l /\ call' = [Held(l) EXCEPT ![c] = [Idle EXCEPT !.answer = a]]
\* The entry is written, and the caller told so or told of an error.
Written(c, l) == \E a \in {"ok", "payload"} : Answer(c, a, l)

Call(c, o) ==
  /\ call[c].op = NoOp
  /\ call' = [call EXCEPT ![c] = [op |-> o, answer |-> "none", held |-> lock.fresh]]
  /\ UNCHANGED lock

\* lease_expires_at passes.
Expire == lock.fresh /\ lock' = [lock EXCEPT !.fresh = FALSE] /\ UNCHANGED call

\* An expired entry is purged on behalf of a call that found it so, or gone by
\* its age.
Drop == Present /\ ~lock.fresh /\ lock' = NoLock /\ UNCHANGED call

Pending(c, op) == call[c].op.op = op
Mine(c) == Present /\ lock.turn = call[c].op.turn
\* The lease counts as held, or as run out: a call reads the clock once.
Live(c) == Present /\ call[c].held
Dead == ~lock.fresh

AcquireLock(c) ==
  /\ Pending(c, "acquire")
  /\ \/ Dead /\ Written(c, Requested(call[c].op.turn))
     \/ Present /\ Answer(c, "inflight", lock)

LoadLock(c) == Pending(c, "load") /\ Answer(c, IF Present THEN "ok" ELSE "nothing", lock)

ClaimLock(c) ==
  /\ Pending(c, "claim")
  /\ \/ Mine(c) /\ Terminal(lock) /\ Answer(c, "ok", lock)
     \/ Mine(c) /\ ~Terminal(lock) /\ Dead /\ Answer(c, "payload", lock)
     \/ /\ Mine(c) /\ ~Terminal(lock) /\ Live(c)
        /\ IF lock.state = "running" /\ lock.worker # c
           THEN Answer(c, "inflight", lock)
           ELSE Written(c, [lock EXCEPT !.state = "running", !.worker = c, !.fresh = TRUE])
     \/ Present /\ ~Mine(c) /\ Answer(c, "inflight", lock)
     \/ ~Mine(c) /\ Dead /\ Answer(c, "payload", lock)

MarkLockTerminal(c) ==
  /\ Pending(c, "terminal")
  /\ LET o == call[c].op IN
     IF Mine(c) /\ o.worker \in {None, lock.worker}
     THEN Written(c, [lock EXCEPT !.state = o.state, !.published = FALSE, !.fresh = TRUE])
     ELSE Answer(c, "inflight", lock)

MarkTerminalEventPublished(c) ==
  /\ Pending(c, "published")
  /\ Written(c, IF Mine(c) /\ Terminal(lock) THEN [lock EXCEPT !.published = TRUE] ELSE lock)

RequestStop(c) ==
  /\ Pending(c, "stop")
  /\ \/ Live(c) /\ Written(c, [lock EXCEPT !.stop = TRUE])
     \/ Dead /\ \E l \in {lock, NoLock} : Answer(c, "nothing", l)

StopRequested(c) ==
  /\ Pending(c, "stopped")
  /\ \/ Live(c) /\ Mine(c) /\ lock.stop /\ Answer(c, "ok", lock)
     \/ (Dead \/ ~Mine(c) \/ ~lock.stop) /\ Answer(c, "nothing", lock)

RenewLock(c) ==
  /\ Pending(c, "renew")
  /\ \/ Live(c) /\ Mine(c) /\ lock.worker = c /\ Written(c, [lock EXCEPT !.fresh = TRUE])
     \/ (Dead \/ ~Mine(c) \/ lock.worker # c) /\ Answer(c, "inflight", lock)

ReleaseLock(c) ==
  /\ Pending(c, "release")
  /\ \E l \in IF Mine(c) THEN {lock, NoLock} ELSE {lock} : Answer(c, "ok", l)

Take(c) ==
  \/ AcquireLock(c) \/ LoadLock(c) \/ ClaimLock(c) \/ MarkLockTerminal(c)
  \/ MarkTerminalEventPublished(c) \/ RequestStop(c) \/ StopRequested(c)
  \/ RenewLock(c) \/ ReleaseLock(c)

\* A call fails, with no effect of its own.
Fails(c) ==
  /\ call[c].op.op \notin {"none", "release"}
  /\ Answer(c, "payload", lock)

ContractNext ==
  \/ Expire \/ Drop
  \/ \E c \in Clients : \/ \E o \in Ops(c) : Call(c, o)
                        \/ Take(c) \/ Fails(c)

ContractSpec == LockInit /\ [][ContractNext]_contractVars
=============================================================================
