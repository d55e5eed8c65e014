----------------------------- MODULE Projection -----------------------------
(***************************************************************************)
(* The projection loop of document-worker: leader election on a Postgres   *)
(* advisory lock, batches from an ordered consumer positioned at the       *)
(* checkpoint, and one transaction per batch that upserts the documents,   *)
(* parks what does not fold and moves the checkpoint.                      *)
(***************************************************************************)
EXTENDS DocumentFold, Sequences, FiniteSets

CONSTANTS
  Instances,      \* document-worker processes
  Exclusive,      \* FALSE: the lock id is misconfigured and excludes nobody
  BatchSize,      \* projection_batch
  Produced,       \* kinds of event the environment appends
  Patched,        \* those it appends with a metadata patch too
  MaxLog,         \* bound: events on the stream
  MaxFaults,      \* bound: errors and crashes
  MaxLapses,      \* bound: locks lost by a loop that keeps running
  MaxResets       \* bound: rebuilds

ASSUME InstancesAssumption == IsFiniteSet(Instances) /\ IsFiniteSet(Docs)
ASSUME SettingsAssumption ==
  Exclusive \in BOOLEAN /\ BatchSize \in Nat \ {0} /\ Produced \subseteq Kinds
  /\ Patched \subseteq {"created", "validated", "metadata"}
ASSUME LimitsAssumption ==
  MaxLog \in Nat /\ MaxFaults \in Nat /\ MaxLapses \in Nat /\ MaxResets \in Nat

VARIABLES
  log,         \* the event stream, all documents
  rows,        \* the document table
  parked,      \* projection_failure: the sequences recorded
  checkpoint,  \* projection_checkpoint, 0 when there is no row
  holders,     \* whose session the advisory lock is granted to
  loop,        \* the projection task of each instance
  faults, lapses, resets

table == <<rows, parked, checkpoint>>
budget == <<faults, lapses, resets>>
vars == <<log, table, holders, loop, budget>>

Nothing == [d \in Docs |-> NoRow]

\* at: next event of the batch to fold; next: the consumer's position; folded:
\* the states of the batch so far; failed: its failures so far.
Idle == [pc |-> "idle", at |-> 0, next |-> 0, folded |-> Nothing, failed |-> {}]

Init ==
  /\ log = <<>>
  /\ rows = Nothing /\ parked = {} /\ checkpoint = 0
  /\ holders = {} /\ loop = [i \in Instances |-> Idle]
  /\ faults = 0 /\ lapses = 0 /\ resets = 0

-----------------------------------------------------------------------------
(***************************************************************************)
(* The stream                                                              *)
(***************************************************************************)
\* The greatest of a set of sequences.
Max(S) == CHOOSE x \in S : \A y \in S : y <= x
Of(d) == {k \in DOMAIN log : log[k].doc = d}
VersionOf(d) == IF Of(d) = {} THEN 0 ELSE log[Max(Of(d))].version

\* The event store appends.  A create expects an empty subject; a document may
\* also begin with an event only a newer producer knows.
Append1(d, kind, fv, patch) ==
  /\ Len(log) < MaxLog
  /\ kind \in {"created", "imported"} => Of(d) = {}
  /\ Of(d) = {} => kind \in {"created", "imported", "unknown"}
  /\ kind = "indexed" <=> fv > 0
  /\ fv <= VersionOf(d)
  /\ patch => kind \in Patched
  /\ \E version \in VersionOf(d)..VersionOf(d) + 1 :
       /\ kind # "unknown" => (version > VersionOf(d) <=> kind \in Advancing)
       /\ LET e == [doc |-> d, kind |-> kind, version |-> version, forVersion |-> fv,
                    patch |-> patch]
          IN  e \in Event /\ log' = Append(log, e)
  /\ UNCHANGED <<table, holders, loop, budget>>

-----------------------------------------------------------------------------
(***************************************************************************)
(* The lease                                                               *)
(***************************************************************************)
At(i, pc) == loop[i].pc = pc

\* try_acquire; when another session holds the lock the instance waits for the
\* next election.
TryAcquire(i) ==
  /\ At(i, "idle")
  /\ Exclusive => holders = {}
  /\ holders' = holders \cup {i}
  /\ loop' = [loop EXCEPT ![i].pc = "start"]
  /\ UNCHANGED <<log, table, budget>>

\* Slip: the lease is not given back.
StopHolding(i) ==
  /\ loop' = [loop EXCEPT ![i] = Idle]
  /\ holders' = holders

\* The loop returns: its transaction is rolled back, the lease released.
Stop(i) ==
  /\ loop' = [loop EXCEPT ![i] = Idle]
  /\ holders' = holders \ {i}

\* Postgres drops the session's lock and the loop does not know.
LoseLock(i) ==
  /\ lapses < MaxLapses /\ lapses' = lapses + 1
  /\ i \in holders
  /\ holders' = holders \ {i}
  /\ UNCHANGED <<log, table, loop, faults, resets>>

\* A query or the transaction fails, or the instance crashes.
Fault(i) ==
  /\ faults < MaxFaults /\ faults' = faults + 1
  /\ ~At(i, "idle")
  /\ Stop(i)
  /\ UNCHANGED <<log, table, lapses, resets>>

-----------------------------------------------------------------------------
(***************************************************************************)
(* The loop                                                                *)
(***************************************************************************)
\* No checkpoint row reads as 0.
ReadCheckpoint == checkpoint

\* run: read the checkpoint and open the consumer behind it.
Start(i) ==
  /\ At(i, "start")
  /\ loop' = [loop EXCEPT ![i].pc = "poll", ![i].next = ReadCheckpoint + 1]
  /\ UNCHANGED <<log, table, holders, budget>>

\* The head of the loop, the lease held: receive a batch of what is there.
Receive(i) ==
  /\ At(i, "poll") /\ i \in holders
  /\ \E last \in loop[i].next..Len(log) :
       /\ last < loop[i].next + BatchSize
       /\ loop' = [loop EXCEPT ![i].pc = "check", ![i].at = loop[i].next,
                               ![i].next = last + 1]
  /\ UNCHANGED <<log, table, holders, budget>>

\* still_held answers no, at the head of the loop or before the transaction.
LeaseLost(i) ==
  /\ loop[i].pc \in {"poll", "check"} /\ i \notin holders
  /\ Stop(i)
  /\ UNCHANGED <<log, table, budget>>

\* Slip: the checkpoint is moved outside the transaction, before it.
BeginAdvances(i) ==
  /\ At(i, "check") /\ i \in holders
  /\ loop' = [loop EXCEPT ![i].pc = "fold"]
  /\ checkpoint' = loop[i].next - 1
  /\ UNCHANGED <<log, rows, parked, holders, budget>>

\* still_held answers yes; the transaction begins.
Begin(i) ==
  /\ At(i, "check") /\ i \in holders
  /\ loop' = [loop EXCEPT ![i].pc = "fold"]
  /\ UNCHANGED <<log, table, holders, budget>>

\* The row as the transaction sees it: nothing of this batch is written yet.
LoadDocument(d) == rows[d]

\* The state an event of the batch is folded into.
Prior(i, d) == IF loop[i].folded[d] # NoRow THEN loop[i].folded[d] ELSE LoadDocument(d)

\* One event of the batch.
FoldEvent(i) ==
  /\ At(i, "fold") /\ loop[i].at < loop[i].next
  /\ LET k == loop[i].at
         e == log[k]
         prior == Prior(i, e.doc)
     IN loop' = [loop EXCEPT ![i] =
                   IF Fails(prior, e)
                   THEN [@ EXCEPT !.at = k + 1, !.failed = loop[i].failed \cup {k}]
                   ELSE [@ EXCEPT !.at = k + 1, !.folded[e.doc] = Apply(prior, e, k)]]
  /\ UNCHANGED <<log, table, holders, budget>>

\* upsert_document: the row moves only to a later stream sequence.
Upsert(d, s) == IF rows[d].seq < s.seq THEN s ELSE rows[d]

\* record_failure; a sequence parked before is left as it is.
RecordFailure(ks) == parked' = parked \cup ks

\* The end of apply_batch: rows, failures and checkpoint in one transaction.
Commit(i) ==
  /\ At(i, "fold") /\ loop[i].at = loop[i].next
  /\ rows' = [d \in Docs |-> Upsert(d, loop[i].folded[d])]
  /\ RecordFailure(loop[i].failed)
  /\ checkpoint' = loop[i].next - 1
  /\ loop' = [loop EXCEPT ![i] = [Idle EXCEPT !.pc = "poll", !.next = loop[i].next]]
  /\ UNCHANGED <<log, holders, budget>>

\* reset, for a rebuild: between two runs of the loop, as its comment has it.
Reset ==
  /\ resets < MaxResets /\ resets' = resets + 1
  /\ \A i \in Instances : At(i, "idle")
  /\ rows' = Nothing /\ parked' = {} /\ checkpoint' = 0
  /\ UNCHANGED <<log, holders, loop, faults, lapses>>

-----------------------------------------------------------------------------
Produce == \E d \in Docs, kind \in Produced, fv \in 0..MaxLog, patch \in BOOLEAN :
             Append1(d, kind, fv, patch)
Turn(i) == Start(i) \/ Receive(i) \/ LeaseLost(i) \/ Begin(i) \/ FoldEvent(i) \/ Commit(i)

Next ==
  \/ Produce
  \/ \E i \in Instances : TryAcquire(i) \/ Turn(i) \/ LoseLock(i) \/ Fault(i)
  \/ Reset

Spec == Init /\ [][Next]_vars

\* Each instance contends again after projector_election_interval and a loop
\* that runs takes its next step.
Fairness == /\ \A i \in Instances : WF_vars(Turn(i))
            /\ WF_vars(\E i \in Instances : TryAcquire(i))
FairSpec == Spec /\ Fairness

-----------------------------------------------------------------------------
(***************************************************************************)
(* Properties                                                              *)
(***************************************************************************)

\* What the log says of a document after event k, field by field: the last
\* event since the document's create that writes the field.
Writers(d, k, kinds) ==
  LET born == {j \in 1..k : log[j].doc = d /\ log[j].kind = "created"}
  IN {j \in 1..k : /\ log[j].doc = d /\ log[j].kind \in kinds
                   /\ \E b \in born : b <= j}
Last(S) == IF S = {} THEN 0 ELSE Max(S)
Expected(d, k) ==
  LET known == Writers(d, k, Kinds \ {"unknown", "imported"})
      index == Last(Writers(d, k, {"created", "validated", "indexed", "stage_failed"}))
      indexed == Last(Writers(d, k, {"indexed"}))
  IN IF known = {} THEN NoRow ELSE
     [version |-> log[Max(known)].version,
      seq |-> Max(known),
      state |-> IF Writers(d, k, {"deleted"}) = {} THEN "active" ELSE "deleted",
      index |-> IF log[index].kind = "stage_failed" THEN "failed"
                ELSE IF /\ log[index].kind = "indexed"
                        /\ log[index].forVersion >= log[index].version
                THEN "current" ELSE "pending",
      indexVersion |-> IF indexed = 0 THEN 0 ELSE log[indexed].forVersion,
      blob |-> Last(Writers(d, k, {"created", "validated"})),
      title |-> Last({j \in known : log[j].patch}),
      created |-> Last(Writers(d, k, {"created"}))]

\* The table is a cache of the log: whatever batches, takeovers, overlapping
\* projectors and rebuilds produced a row, each of its fields is what the last
\* event that writes it says, up to the row's stream sequence
\* (document-upload.md:769-773, projection.rs:3-10).  And only what cannot be
\* folded is parked: an event this build does not know, a create by a system
\* actor, an event before its document's create.
\* What the fold writes is taken as the code has it, in two places against what is
\* written elsewhere: an index stays current when metadata, a revert or a delete
\* makes a newer version (see IndexIsOfVersion), and a parked event leaves the row
\* as it was, though document-upload.md:784-785 says that it surfaces the document
\* in an error state.
RowsFollowTheLog ==
  /\ rows \in [Docs -> DocumentState \cup {NoRow}]
  /\ \A d \in Docs : rows[d] = Expected(d, rows[d].seq)
  /\ \A k \in parked : k \in DOMAIN log /\ Expected(log[k].doc, k).seq # k

\* "An index built for an older version is stale the moment a newer version exists"
\* (fold.rs:189-190): a row that calls its index current has one for its version.
\* The fold asks for it when an index event arrives; of the later events that make a
\* new version only those with new bytes set the index back to pending.
IndexIsOfVersion ==
  \A d \in Docs : rows[d] # NoRow /\ rows[d].index = "current"
                  => rows[d].indexVersion >= rows[d].version

\* The checkpoint never passes an event that is neither visible in its
\* document's row nor parked in projection_failure.
NothingSkipped ==
  \A k \in 1..checkpoint : k \in parked \/ rows[log[k].doc].seq >= k

\* Once the producers rest every event becomes visible in its document's row
\* or parked, whoever leads.  (The checkpoint itself may stay behind: a loop
\* that lost its lock writes it unguarded.)
CatchesUp ==
  <>[](\A k \in DOMAIN log : k \in parked \/ rows[log[k].doc].seq >= k)
=============================================================================
