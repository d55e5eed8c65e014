----------------------------- MODULE LockBucket -----------------------------
(***************************************************************************)
(* The conversation lock as NatsChatBus keeps it: an entry of the          *)
(* CHAT_LOCKS bucket, read in one step and written back in another, at the *)
(* revision read.  A write at a revision that is no longer the last one    *)
(* changes nothing; claim, mark_terminal, mark_published, stop and renew   *)
(* then read again, Attempts times in all (eight in the code).             *)
(*                                                                         *)
(* Of the revision only one thing matters, whether it is still the last    *)
(* one: `current' is that, and every write clears it for the others.       *)
(***************************************************************************)
EXTENDS Naturals

CONSTANTS Clients, Turns, Outcomes, None, Attempts

VARIABLES
  lock, \* the value of the entry, NoLock for none or a purge marker
  call, \* per client, its call as its caller sees it (see LockContract)
  at    \* per client, where the call stands: what it is about to write,
        \* and whether the revision it read is still the last one

bucketVars == <<lock, call, at>>

Contract == INSTANCE LockContract

NoLock == Contract!NoLock
Idle == Contract!Idle
Requested(t) == Contract!Requested(t)
Terminal(l) == Contract!Terminal(l)
Present == Contract!Present
Op(c) == call[c].op
Mine(c) == Contract!Mine(c)

AtRest == [pc |-> "rest", next |-> NoLock, current |-> FALSE, tries |-> 0]

BucketInit == Contract!LockInit /\ at = [c \in Clients |-> AtRest]

Call(c, o) ==
  /\ Contract!Call(c, o) /\ at[c].pc = "rest"
  /\ at' = [at EXCEPT ![c] = [AtRest EXCEPT !.pc = "read"]]

\* lease_expires_at passes.
Expire == Contract!Expire /\ UNCHANGED at

\* Mutant: a write need not name the last revision.
OutdatedNever(d) == at[d]

\* The entry changes: no other client's revision is the last one any more.
Outdated(d) == [at[d] EXCEPT !.current = FALSE, !.next = NoLock]
Overtake(c) == [d \in Clients |-> IF d = c THEN AtRest ELSE Outdated(d)]

\* The bucket's max_age, which every write starts anew: no shorter than the lease.
MaxAge == Contract!Drop /\ at' = [d \in Clients |-> Outdated(d)]

\* The call ends without a write.
Decide(c, a) ==
  /\ Contract!Answer(c, a, lock)
  /\ at' = [at EXCEPT ![c] = AtRest]

\* The call goes on to write l at the revision it read.
Write(c, pc, l) ==
  /\ at' = [at EXCEPT ![c].pc = pc, ![c].next = l, ![c].current = TRUE]
  /\ UNCHANGED <<lock, call>>

Reads(c, op) == at[c].pc = "read" /\ Op(c).op = op

\* acquire_kv_lock: an expired entry is purged first.
ReadForAcquire(c) ==
  /\ Reads(c, "acquire")
  /\ IF ~Present THEN Write(c, "create", NoLock)
     ELSE IF lock.fresh THEN Decide(c, "inflight")
     ELSE Write(c, "purge", NoLock)

\* create_kv_lock.  As with every write, the reply may be lost, and the caller
\* is told of an error although the entry was written.
Create(c) ==
  /\ at[c].pc = "create"
  /\ IF Present
     THEN Decide(c, "inflight")
     ELSE Contract!Written(c, Requested(Op(c).turn)) /\ at' = Overtake(c)

\* load_kv_lock
Load(c) == Reads(c, "load") /\ Decide(c, IF Present THEN "ok" ELSE "nothing")

\* claim_kv_lock
ReadForClaim(c) ==
  /\ Reads(c, "claim")
  /\ IF ~Present THEN Decide(c, "payload")
     ELSE IF Mine(c) /\ Terminal(lock) THEN Decide(c, "ok")
     ELSE IF \/ ~Mine(c)
             \/ lock.state = "running" /\ lock.worker # c /\ lock.fresh
          THEN Decide(c, "inflight")
     ELSE IF ~lock.fresh THEN Decide(c, "payload")
     ELSE Write(c, "update", [lock EXCEPT !.state = "running", !.worker = c, !.fresh = TRUE])

\* mark_kv_lock_terminal: the lease is not looked at.
ReadForTerminal(c) ==
  /\ Reads(c, "terminal")
  /\ IF Mine(c) /\ Op(c).worker \in {None, lock.worker}
     THEN Write(c, "update", [lock EXCEPT !.state = Op(c).state, !.published = FALSE,
                                          !.fresh = TRUE])
     ELSE Decide(c, "inflight")

\* mark_kv_terminal_event_published: the lease stays as it is.
ReadForPublished(c) ==
  /\ Reads(c, "published")
  /\ IF Mine(c) /\ Terminal(lock)
     THEN Write(c, "update", [lock EXCEPT !.published = TRUE])
     ELSE Decide(c, "ok")

\* request_kv_stop: an expired entry is purged, and the answer is None whether
\* or not the purge works.
ReadForStop(c) ==
  /\ Reads(c, "stop")
  /\ IF ~Present THEN Decide(c, "nothing")
     ELSE IF lock.fresh THEN Write(c, "update", [lock EXCEPT !.stop = TRUE])
     ELSE /\ Contract!Answer(c, "nothing", lock)
          /\ at' = [at EXCEPT ![c].pc = "purge", ![c].current = TRUE]

\* stop_requested_in_kv
StopRequested(c) ==
  /\ Reads(c, "stopped")
  /\ Decide(c, IF Mine(c) /\ lock.fresh /\ lock.stop THEN "ok" ELSE "nothing")

\* renew_kv_lock
ReadForRenew(c) ==
  /\ Reads(c, "renew")
  /\ IF Mine(c) /\ lock.worker = c /\ lock.fresh
     THEN Write(c, "update", lock)
     ELSE Decide(c, "inflight")

\* release_lock: another turn's entry is left alone.
ReadForRelease(c) ==
  /\ Reads(c, "release")
  /\ IF Mine(c) THEN Write(c, "purge", NoLock) ELSE Decide(c, "ok")

\* The lease an update writes: the one it read, or a new one.
Lease(c) == IF Op(c).op \in {"claim", "terminal", "renew"} THEN TRUE ELSE lock.fresh

\* Store::update at the revision read.
Update(c) ==
  /\ at[c].pc = "update" /\ at[c].current
  /\ Contract!Written(c, [at[c].next EXCEPT !.fresh = Lease(c)])
  /\ at' = Overtake(c)

\* WrongLastRevision: read again, or give up.
Retry(c) ==
  /\ at[c].pc = "update" /\ ~at[c].current
  /\ IF at[c].tries + 1 < Attempts
     THEN /\ at' = [at EXCEPT ![c] = [AtRest EXCEPT !.pc = "read", !.tries = at[c].tries + 1]]
          /\ UNCHANGED <<lock, call>>
     ELSE Decide(c, "payload")

\* Store::purge_expect_revision: acquire goes on to create, or ends there when the
\* reply is lost (Unavailable); release and stop are done either way.
Purge(c) ==
  /\ at[c].pc = "purge" /\ at[c].current
  /\ lock' = NoLock
  /\ IF Op(c).op = "acquire"
     THEN at' = [Overtake(c) EXCEPT ![c] = [AtRest EXCEPT !.pc = "create"]] /\ UNCHANGED call
     ELSE at' = Overtake(c) /\ IF Op(c).op = "release"
                               THEN call' = [call EXCEPT ![c] = [Idle EXCEPT !.answer = "ok"]]
                               ELSE UNCHANGED call

\* The purge is refused: an error to acquire, a warning in the log to release.
PurgeRefused(c) ==
  /\ at[c].pc = "purge" /\ ~at[c].current
  /\ IF Op(c) = Contract!NoOp
     THEN at' = [at EXCEPT ![c] = AtRest] /\ UNCHANGED <<lock, call>>
     ELSE Decide(c, IF Op(c).op = "acquire" THEN "payload" ELSE "ok")

\* A request to the bucket fails without effect; release only logs it, and the
\* purge of a stop that was answered is not looked at.
Unavailable(c) ==
  /\ at[c].pc # "rest"
  /\ IF Op(c) = Contract!NoOp
     THEN at' = [at EXCEPT ![c] = AtRest] /\ UNCHANGED <<lock, call>>
     ELSE Decide(c, IF Op(c).op = "release" THEN "ok" ELSE "payload")

Step(c) ==
  \/ ReadForAcquire(c) \/ Create(c) \/ Load(c) \/ ReadForClaim(c) \/ ReadForTerminal(c)
  \/ ReadForPublished(c) \/ ReadForStop(c) \/ StopRequested(c) \/ ReadForRenew(c)
  \/ ReadForRelease(c) \/ Update(c) \/ Retry(c) \/ Purge(c) \/ PurgeRefused(c)
  \/ Unavailable(c)

BucketNext ==
  \/ Expire \/ MaxAge
  \/ \E c \in Clients : \/ \E o \in Contract!Ops(c) : Call(c, o)
                        \/ Step(c)

BucketSpec == BucketInit /\ [][BucketNext]_bucketVars

\* A lock call over the bucket, read and written back in separate steps against
\* other clients' calls, a running lease and the entry's age, is answered and changes
\* the lock as one call of the contract at one moment between its start and its
\* end; a call that is told of an error has had its whole effect or none.
CallsAreAtomic == Contract!ContractSpec
=============================================================================
