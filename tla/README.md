# delphi: verification project

TLA+ models of delphi's document and chat pipelines, of the adapters and test
doubles under them and of the stateful parts of the superseded monolith
(`old/backend`); TLC runs on small instances; TLAPS proofs for any instance.
`PROJECT.json` maps every definition to the lines it models and lists the runs,
the mutants that show each property can fail, the hazards and the theorems.
Paths below are relative to `src/`.

## The system

| part | code | role |
| --- | --- | --- |
| api-service | `services/api-service` | HTTP: uploads, documents, conversations, turns |
| document worker | `services/document-worker`, `crates/document-app`, `crates/document-adapters` | finishes uploads, projects the event log |
| document domain | `crates/document-domain` | events, fold, part geometry, validation |
| chat worker | `services/chat-worker` | drives one turn of a conversation |
| realtime service | `services/realtime-service` | websocket fan-out and replay |
| chat bus | `crates/nats` | locks, commands, events, replay index |
| storage | `crates/storage` | conversations and messages in Postgres |
| browser | `frontend` | multipart upload client, chat hook |
| superseded backend | `old/backend` | the monolith these services replace: turn bus, upload sessions, ingestion, storage, pool |

**Documents.** A preflight creates an upload record (KV) and a multipart upload
(S3); parts go straight to storage; `POST /complete` publishes a work item and
marks the record `scanning`; a worker assembles the object, checks it, appends
one event to the document's subject of the event log (compare-and-append with a
duplicate window), records the outcome and acks. The projection folds the log
into Postgres rows under an advisory lock, with a checkpoint.

**Chat.** The API takes the conversation's lock (KV), stores the user's message
and publishes a command. A worker claims the lock, streams the answer as events,
commits it, marks the lock terminal, publishes the outcome, purges the lock and
acks. The realtime service replays a conversation's events from an index and
then follows the live stream.

The two halves share NATS and Postgres but no state: nothing a turn does is read
by an upload. They are therefore composed inside each half (worker, API, queue,
log, storage and record in `UploadPipeline`; API, workers, lock, commands,
events and storage in `ChatTurn`; hub, index and browser in `ChatReplay`), and
not with each other.

## Modules and the code they model

### Document pipeline

| module | models | state | actions |
| --- | --- | --- | --- |
| `UploadPipeline` | `document-app/src/{worker,append,transition,service}.rs` | records `rec` (KV with revisions), multiparts `mp`, `bytes`, the document's `log`, duplicate `window`, work `queue`, and a program counter and locals `h[p]` per handler and request | one per `await` of a handler: load, assemble, verify, history guard, read last, append, KV get, KV compare-and-set, reclaim, settle; preflight and its unwinding, `/complete`; delivery, ack timeout, crash, lost ack, expiry of record and window |
| `UploadContract` | what a client may rely on: record and log move in this order only | record, log | one per visible change |
| `DocumentFold` | `document-domain` fold: what each event does to the row | (operators) | |
| `Projection` | `document-app/src/projection.rs` and the Postgres transaction behind it | log, rows, failures, checkpoint, a projector per instance | elect, start, batch, load, fold, park, commit, lose lock, restart, reset |
| `PartGeometry`, `PartUpload` | part size and count; `GET /parts`, signing, renewal, completion, and the browser's passes | stored parts, PUTs in flight, the client's pass | list, sign, PUT, PUT lands (late too), end pass, complete, expire, reap |
| `DocumentPorts` | JetStream, KV and S3 adapters beside `document-app/src/testing.rs` | both stores, the last pair of answers | one per port call, made on both |
| `DocumentListing`, `RowOrder` | keyset pages and cursors of the read model, the double's, and the old discovery feed | rows, clock, one walk | change, first page, next page |
| `BlobScan` | scanner, sniffing and the worker's verification steps | reader, scan window, checksum | short reads of every length, verdict |

### Chat

| module | models | state | actions |
| --- | --- | --- | --- |
| `ChatTurn` | API submit and stop, `chat-worker`, storage commit | lock entry, commands, events, messages, a task per delivery | one per `await`; heartbeat, lease expiry, key expiry, redelivery, crash, lost replies |
| `ChatReplay` | event log, replay index, hub, socket, browser hook | stream, index, subscription, page | publish, index, subscribe, replay, live delivery, an event the hub passes over, lag, resync, reconnect, expiry |
| `LockBucket`, `LockContract` | the KV lock calls as read / decide / conditional write with retries, and the single steps `ChatTurn` uses for them | entry and revision, a call per client | one per await; one per call |
| `ChatRepository` | Postgres repository beside the in-memory one | both databases, the last pair of answers | one per method, made on both |

### Start-up and authentication

| module | models |
| --- | --- |
| `Migrations` | `document-adapters/src/migrate.rs`: advisory lock, applied list, one transaction per file; services that start together, fail, die and start again |
| `KeyCache` | `crates/auth`: the cached key set, lookup, refresh and second lookup of concurrent requests while the provider rotates its keys |

### Superseded backend

| module | models |
| --- | --- |
| `TurnBus` | in-process sessions and their incarnations, turns, cancel, ring of frames, readers, titles |
| `SessionUpload` | initiate, parts, complete, commit with transaction retries, rejection, a fault or crash between any two |
| `IngestRows` | the sink chain (row, text, chunks, feed) call by call, and the scheduler's cycle and cursor |
| `StorageViews` | the per-user and the system view of one storage interface, call by call; retrieval windows |
| `RequestPool` | authenticated sessions on pooled connections, dropped requests, racing first logins |
| `ServiceToken` | the cached service token, slow fetches, the refresh head |
| `ChunkWords` | windows, overlap and line boxes of the chunker |

`MCUploadPipeline`, `MCProjection`, `MCPartUpload`, `MCChatTurn` and
`MCChatReplay` instantiate one specification for TLC. `MCParts` instantiates the
modules that share no state with one another: `part` chooses one of them
initially, a behaviour is a behaviour of that one, and each property speaks of
its own part. `UploadInvariant`, `UploadReclaim`, `UploadPipelineProofs`,
`ProjectionProofs`, `PartUploadProofs`, `ChatTurnProofs`, `ChatReplayProofs` and
`PartsProofs` hold the proofs.

Definitions marked external are JetStream, NATS KV, S3, Postgres and SurrealDB
behaviour, modelled from how the code uses it: the duplicate window, the
expected-last-sequence check, KV revisions, ETags, `ON CONFLICT`, `PERMISSIONS`.

## Runs

| run | question | instance |
| --- | --- | --- |
| `upload_races` | do a create and a replace, two `/complete` calls and two handlers agree on one log and one outcome? (`OneEventPerUpload`, `AcceptedIsLogged`, `UnloggedBytesAreOwned`, `RejectedIsReclaimed`, refinement `ImplementsContract`) | 2 uploads, 2 workers, 2 requests, 2 deliveries, 1 fault, 1 lapsed deadline |
| `upload_replace_race` | do two racing replaces get successive versions? (`VersionsDense`) | 3 uploads, 2 workers, 3 requests, both `If-Match` forms, policy `fail` |
| `upload_outcomes` | is every upload answered, and do its bytes become a version or go? (`ReclaimSparesVersions`, `ScanningEnds`, `BytesResolved`) | every kind of bytes, 3 deliveries, 2 faults |
| `projection_rows` | are rows a fold of the log's prefix when a loop goes on without its lock, and does every event become visible or parked? (`RowsFollowTheLog`, `NothingSkipped`, `CatchesUp`) | 1 document, 2 projectors, all 9 payloads, 3 events, batches of 2, 1 fault, 1 lapse, 1 reset |
| `part_upload_resume` | is what is completed whole, after any resume? (`PartsInPlace`, `WholeObject`, `UploadEnds`) | sizes at every boundary of a scaled geometry, 3 passes |
| `chat_turns` | is a turn answered once, and its outcome announced after its commit? (`OutcomeAfterCommit`, `AnsweredOnce`, `AckedIsSettled`, `LockKept`) | 2 turns, 2 workers, 2 deliveries each, 1 trouble |
| `chat_settles` | is every command settled and the conversation freed? (`CommandSettles`, `ConversationFreed`) | 2 turns, 1 worker, 1 trouble |
| `realtime_replay` | do replay and live feed leave no hole, and does the page end right? (`NoSilentGap`, `PageSettles`) | 2 turns; one lag, loss, failure, unread event or expiry |
| `parts` | the seventeen properties of the parts composed in `MCParts` | in `MCParts` |
| `projection_stale_index` | expected violation, see Findings | |
| `upload_dangling_blob` | expected violation, see Findings | |
| `chat_lost_answer` | expected violation, see Findings | |

Deadlock is not checked: every instance has finitely many uploads, turns,
changes or faults and stops when they are used up. What must not stop is stated
as a liveness property.

### The properties of `parts`

* `SlotHasOneWorker`, `VerdictsMatchRows`, `NoLostWakeup`, `NoTornTurn`
  (`TurnBus`): a conversation's slot belongs to exactly one live worker however
  sessions are pruned and reopened; a `finish` with an id is of a committed turn,
  a `clear` of one that is not, and no turn has two ends, apart from the two ends
  listed under Observations; a reader that has had a frame sleeps only when it has
  had the last one; a tab sees a turn's frames without a gap or is told to resync.
  A frame is pushed and its readers are woken in two steps.
* `CommittedKeepsBytes`, `OutcomeIsKept` (`SessionUpload`): no concurrent,
  repeated or half-failed `/complete` deletes bytes a committed document points
  at, and the outcome of an upload can be read after its session is gone, unless
  the rejection could not be recorded.
* `CursorBehindRows`, `SerialIngestIsWhole` (`IngestRows`): the scheduler's
  cursor never passes an item nobody tried to store; without a concurrent or
  failed ingest, row and feed describe the same version, and text, chunks and
  embedding the last version that carried what they are made of.
* `SessionIsOwn` (`RequestPool`): queries run as the user of their request.
* `RacersAreServed`: of the first requests of one user racing to create rows one
  succeeds, and so do all whose transaction is not rolled back under another's
  (`RequestPool`); a token whose key stays published is verified through a
  rotation, unless its fetch failed or an older key set was stored between its
  refresh and its second lookup (`KeyCache`); each migration takes effect once
  and in order, a service that is up has them all, and only a fault keeps one
  down (`Migrations`).
* `TokenIsLive` (`ServiceToken`): a token handed out has not expired, however
  slow the token endpoint was, if the endpoint grants no less than the refresh
  head or, where it leaves out `expires_in`, no less than the hour the code then
  assumes.
* `CallsAreAtomic` (`LockBucket`): every interleaving of KV lock calls refines
  `LockContract`, in which each call is one step, also when the reply of a write
  is lost, a call fails or the entry goes by the bucket's `max_age`. This is what
  entitles `ChatTurn` to treat a lock call as one step. A write that lands after
  its caller gave up waiting for it is outside the model.
* `DoublesAgree`: what the tests' in-memory ports answer is what the adapters
  answer, except in the cases listed under Observations, which the modules name;
  the same for the two storage views and the two listings.
* `RetrievedOnce` (`StorageViews`), `PagesAreWhole` (`DocumentListing`),
  `AcceptedIsScanned` (`BlobScan`), `ChunksCover` (`ChunkWords`).

### Bounds and why they are enough

Bounds are constants of the configurations or of `MCParts`' instances.

* Two handlers and two requests are the smallest number for which every race of
  the upload code exists: handler against handler on one item (redelivery),
  handler against `/complete`, create against replace. Three requests are needed
  only for two replaces after a create (`upload_replace_race`).
* One fault at any step reaches every error path; two faults with three
  deliveries reach the path on which only the final delivery succeeds.
  `BytesResolved` needs fewer faults than deliveries: with as many, a crash of
  the final delivery leaves the bytes behind.
* `upload_races` and `chat_turns` have one fault or trouble because a second
  multiplies the states beyond what a run can visit. The safety properties that
  are proved hold for any number of uploads, turns, processes, deliveries and
  faults, and so do those of `projection_rows` and `realtime_replay`.
* `projection_rows` has one document: batches of several, events of several
  documents and a lock that excludes nobody (`Exclusive = FALSE`) are left to the
  proofs, which have them all. Of the events that may carry a metadata patch
  (`Patched`) it has one.
* The part geometry is scaled (parts of 2 to 4 bytes, 3 parts) so that every
  boundary is a size: 0, 1, below, at and above a part, the largest object, one
  more. `PartsWithinLimits` and `PartsTileTheFile` are proved for all
  limits that satisfy `LimitsAssumption`, the real ones included.
* `ServiceToken` has `Timeout = RefreshHead`, as in the code (30 s each), scaled
  to 3, with lifetimes below, at and above the head, stated and not stated; the
  hour assumed for the latter is 5.
* The scanner's signature (3 bytes) is longer than its carried tail and its
  blobs (5) are longer than two reads, so matches straddle reads.
* `KeyCache` has three requests, four key sets and one rotation, the fewest with
  which one refresh can overtake another; `Migrations` three services, two files
  and two faults, so that a break-off can follow a break-off.
* Listings have three rows, pages of 1 and 2, timestamps finer than a cursor.

Symmetry is declared over interchangeable model values only and never in a run
with a liveness property.

### Fairness

Weak fairness only, per process, of steps the program itself takes:

* `UploadPipeline`: each handler runs on, each request runs on, an unacked item
  is redelivered when its ack wait ends. These are the tokio runtime and
  JetStream's consumer. Faults, client calls and expiry are not fair.
* `Projection`: each instance's loop, and the election.
* `PartUpload`: the client's own steps. PUTs that never land are not excluded;
  the pass ends by its own count.
* `ChatTurn`: requests and tasks run on (this includes that a model's stream ends
  or errs, which is an assumption: no timeout of the code ends a silent one), commands are
  redelivered, an unrenewed lease runs out, a key past its TTL goes.

## Findings

* `upload_dangling_blob` (`ReferencedBlobsKept`). A publish that JetStream stored
  but whose ack was lost is a `Retry`; on the final delivery `finish` turns it
  into a rejection, and `reclaim` deletes the bytes of a version that is in the
  log. The comment at `document-app/src/worker.rs:590` says both callers have
  established that no version references them.
* `projection_stale_index` (`IndexIsOfVersion`). Of the events that make a new
  version only `document_blob_validated` sets the index back to pending: after a
  metadata change, a revert or a delete the row says `current` for the index of
  an older version. `document-domain/src/fold.rs:189` says that such an index is
  stale the moment a newer version exists. `RowsFollowTheLog` takes the fold as
  it is coded.
* `chat_lost_answer` (`CommittedKept`). Without any fault: a request passes
  `assert_parent_tail` while another turn runs, gets the lock when that turn is
  done, and its commit deletes the committed answer
  (`doc/content/docs/architecture/chat-system.md:175`).

## Proofs

Checked by TLAPS, for every value of the constants that satisfies the named
assumptions.

| theorem | module | states |
| --- | --- | --- |
| `TypeCorrect` | `UploadPipelineProofs` | every variable keeps its type |
| `DenseVersions` | | versions of a document are 1, 2, 3, ... (`VersionsDense`) |
| `AtMostOneVersion` | | an upload is one event at most (`OneEventPerUpload`) |
| `AcceptedAfterEvent` | | `accepted` is recorded only for a logged upload (`AcceptedIsLogged`) |
| `TerminalStays` | | a terminal status is never replaced, an expired record never resurrected |
| `PipelineImplementsContract` | | the pipeline refines `UploadContract` (`ImplementsContract`) |
| `RejectionReclaims` | | when a record says rejected the bytes are gone, or the failure to remove them was logged (`RejectedIsReclaimed`) |
| `BytesKeepTheirItem` | | an object that is no version has an item that is not acked, possibly one out of deliveries, or its delete failed (`UnloggedBytesAreOwned`) |
| `VersionsKeepBytes` | | no version loses its bytes while its upload has one item, one handler and deliveries left (`ReclaimSparesVersions`) |
| `TableFollowsLog` | `ProjectionProofs` | a row is the fold of its document's events, whoever wrote it (`RowsFollowTheLog`) |
| `CheckpointSkipsNothing` | | what the checkpoint passed is in a row or parked (`NothingSkipped`) |
| `PartsWithinLimits`, `PartsTileTheFile` | `PartUploadProofs` | the geometry keeps to S3's limits and tiles the file |
| `ResumedPartsInPlace` | | what is completed has every part at its length (`PartsInPlace`) |
| `AssembledWhole` | | the assembled object has the declared size (`WholeObject`) |
| `EventsFollowCommits` | `ChatTurnProofs` | an outcome is announced after its commit (`OutcomeAfterCommit`) |
| `TurnsAnsweredOnce` | | a turn has one answer at most unless a deadline lapsed (`AnsweredOnce`) |
| `LiveEntryKept` | | a live lock entry goes by its own turn's release only (`LockKept`) |
| `AckedCommandsAreSettled` | | one failure or stall gets no command acked before its turn ended (`AckedIsSettled`) |
| `ReplayMeetsFeed` | `ChatReplayProofs` | replay and live feed repeat nothing and leave no gap but what `replay_events` or the hub's task passed over (`NoSilentGap`) |
| `LockCallsAreAtomic` | `PartsProofs` | `LockBucket` refines `LockContract` (`CallsAreAtomic`), for any clients, turns and number of attempts, through lost replies and expiry |
| `HandedOutTokensAreLive` | | a token handed out is live, from an endpoint that grants what `TokenIsLive` asks of it |

**Upload pipeline.** Assumptions: one upload creates the document
(`UploadsAssumption`), workers and requests are different processes
(`ProcsAssumption`), inputs and bounds have their types (`InputsAssumption`,
`BoundsAssumption`). None of the properties is inductive: that a version is
appended once depends on what a handler read two awaits ago. The invariant
(`UploadInvariant`) has

* `LogInv`: dense versions, one event per upload, a create first, and only
  logged uploads in the duplicate window;
* `RecordInv`: a revision marks presence, only `accepted` names a version, and
  that version is in the log;
* `QueueInv`: what a queued or delivered item refers to;
* per process `PcInv` (what each call site may rely on), `AppendInv` (between
  the history guard and the append, an upload that is in the log is still in the
  duplicate window, so the append is recognised) and `AnswerInv` (an answer
  about to be recorded is true, and a compare-and-set in hand cannot succeed on a
  record that has turned terminal).

`UploadInvariant` proves that each action preserves it, one lemma per action, up to
the appends; `UploadPipelineProofs` does the appends, and derives the
theorems, and the refinement from the same invariant, step by step.

What becomes of the bytes needs a second invariant, `ReclaimInv` in
`UploadReclaim`: an assembled object has an item and no multipart
(`BlobInv`), an item leaves the queue when its upload is a version or given back
(`ItemInv`), and `Holds` says what a handler may rely on before each call (before
a rejection is recorded the bytes are back, between the abort and the delete the
multipart is gone, before an append the object is good). Some of this fails once
two handlers serve one upload; `Excused` names when that may be (a deadline
lapsed, the deliveries are used up, two items), and the invariant shows that
without an excuse there is one item, out, with one handler. `ReclaimSparesVersions`
has exactly these conditions, and `upload_dangling_blob` shows that they are
needed.

**Projection.** `ProjectionProofs` first shows that `Expected`, which says in closed
form what a log prefix means for a document, is what `Apply` makes of one more event,
and that later events do not change it. `Expected` looks for the
latest event of a kind; that a set of sequences has a greatest element would need
an induction over numbers, and is instead carried along as the log grows
(`Bounded(Len(log))` in `LogInv`). The invariant has
the table (`TableInv`: rows are `Expected` at their own sequence, parked events
do not fold, the checkpoint covers what it passed) and each loop (`LoopInv`).
The hard part is a projector that reads a row which another one has moved ahead:
what it builds mixes two moments of the log field by field (`FoldedInv`). It is
wrong as a state, and never written, because its sequence is below the row's
until it has caught up. No assumption on the lock is used.

**Chat turn.** `OutcomeInv` (a task, or the lock entry, that names an outcome names
a committed one), `BeginInv` (nothing of a turn exists before its command) and,
while no deadline lapsed, `Alone`: one task serves a turn at a time, and a task
on its way to a commit, or an entry nobody has claimed, belongs to a turn without
an answer. `AnsweredOnce` is not inductive without the last part: a second
delivery answers again unless the entry tells it not to.

`AckedIsSettled` has an invariant of its own, `SettleInv`. A worker ignores a failing
call only after its commit failed (`quiet`). That commit was the one trouble, so
until then the task had the live entry (`Owns`), nothing goes wrong after it, and
the turn-ending event is published before the ack; every other way to the ack has
`Told` the turn, or found an entry that says so. The property speaks of turns whose
parent message is still there (`HasParent`); that an answer once removed never
comes back (`MsgInv`: each has a number of its own) makes this stable.

**Chat replay.** `Inv` of `ChatReplayProofs` follows an event from the stream to
the browser. From the moment the socket joins the hub, what is stored is in its
feed (`HandlerInv`). The index is read later, the newest sequence after that; the
index holds two turns in stream order, the earlier one ended (`Sound`), because
the worker starts a turn only when the end of the one before is in the index
(`WorkerInv`). So the planned range, from the client's position or from the start
of the current turn to its end, reaches everything the index knew of before the
join, and `PromiseInv` holds from then on: what is due was sent, was passed over
or is in the feed, and what the loop drops as sent before was sent. Passed over
are the events of the planned range that `replay_events` does not get, expired or
not, and those the hub's task does not pass on; the number of them is not bounded,
so a task that has ended is among the behaviours. Only the types of the bounds are
assumed (`ReplayAssumption`).

**Parts.** `Fixed` (the geometry does not change after the preflight) and
`InPlace` (a part that is not to be uploaded again has its expected length, in
flight and stray PUTs write that length), under `LimitsAssumption` and
`ClientAssumption`. `WholeInv` adds that nothing is stored beyond the last part.
That the parts then add up to the file (`PartsAddUp`) is shown with the least
number of parts for which the sum would be wrong (`LeastElement`), and that the
partial sums exist at all in the same way (`SumsExist`).

**Lock.** `BucketInv`: a client whose revision is still the last one finds the
entry as it read it but for the lease, and what it is about to write is what the
contract's call would make of the entry now; a client whose revision is not the
last one can no longer write. The only assumption is that no turn is `None`.

**Token.** `TokenInv` bounds a token's real lifetime by its recorded one plus the
time its fetch may have taken; `Timeout <= RefreshHead` closes the gap.

### Only model-checked

* Liveness under fairness and everything with `ENABLED`: `ScanningEnds`,
  `BytesResolved`, `CatchesUp`, `UploadEnds`, `CommandSettles`,
  `ConversationFreed`. TLAPS does not prove these.
* What recursive definitions compute for every input (folds over logs, pages,
  chunks, scans): the induction theorems of the library are out of the provers'
  reach, and so are `RECURSIVE` operators. The sum behind `WholeObject` is the one
  exception, by way of a least counterexample.
* `PageSettles` is a claim about the few troubles its run allows. An inductive
  invariant would have to tell every place where one may have struck from all the
  others, which is what the run enumerates.
* The properties of `parts` other than `CallsAreAtomic` and `TokenIsLive`. They
  compare two implementations, or a recursive algorithm with its definition, on
  bounded inputs, or belong to the superseded backend.

## Observations

What the models show of the code and no run states, mostly the reason why a
property has the condition it has.

**Uploads.** A create that is redelivered and deduplicated after a replace is
told the head's version (`append.rs:96`). The policy `on_conflict: fail` is
judged against a history read before `append_update` reads the head again
(`worker.rs:496`). Three parallel `/complete` calls can exhaust `CAS_ATTEMPTS`
(`transition.rs:24`), and the record then stays `scanning`. `renew` without
`from_part` passes over stored parts of a wrong length, which `uploaded_parts`
does not (`service.rs:369`, `:306`).

**Projection.** A parked event is not visible in the row (`projection.rs:245`),
although `doc/content/docs/architecture/document-upload.md:785` has the document
surfaced in an error state. A reset under a running loop is overtaken by the loop's
next checkpoint (`projection.rs:410`).

**Chat.** A redelivery after the lock is gone declares the turn failed without
asking the database, also when it was committed: two verdicts of one turn. A
worker that stalls past its lease commits unfenced. When the commit and the
marking of the failure both fail, the command is acked without a turn-ending
event. Where another turn has meanwhile removed the message a turn answers, its
commit is refused without any fault, and one failing call after that is enough
(`main.rs:393`). It takes three turns to get there, which is why `AckedIsSettled`
asks for the parent although `chat_turns`, with two, would hold without it. A lost publish ack makes the API record a turn failed that a worker
commits. A failed `get_conversation` after the commit is reported as a failed
commit. A release that loses its race against a renewal or a stop is only
logged; the lock stays until its lease ends.

**Realtime.** A subscription between a turn's first event and its entry in the
index misses that turn until its end refreshes the page. A title that is
published after `Finish` lies outside the turn's range and is not replayed.
`replay_events` passes over a message it does not get, whether it has expired or
the read failed (`nats/src/lib.rs:652`), and only the ends of the range that the
index knows are asked for again: what is missing between them is a hole that no
resync follows. So is an event that the hub's task does not receive or decode
(`lib.rs:718`). When that task has ended its hub keeps the sender alive, so the
sockets wait without being told (`realtime-service/src/main.rs:91`); in the model
all later events are then passed over.

**Authentication.** Between a request's refresh and its second lookup another
request's older key set may replace the cache, and the request is refused
although its key is published (`crates/auth/src/lib.rs:308`). The next request
refreshes again.

**Service token.** An endpoint that grants less than the refresh head, or states
no `expires_in` and grants less than an hour, has its tokens handed out after they
expired.

**Migrations.** A failed unlock is only logged, and the pooled connection keeps
the advisory lock while the service runs: a service that starts meanwhile waits
(`migrate.rs:51`). The model has this, and safety holds through it.

**Test doubles.** The double forbids a deleted or foreign conversation where
Postgres finds none; `record_turn_failed` stores nothing in memory; a repeated
append names another version (`testing.rs:4`) and the double's duplicate window
never ends; completing a multipart with invalid parts forgets it; a part
uploaded twice is listed twice, and a part uploaded after the completion opens the
multipart again; an update answers what it wrote, where the KV one reads it back
and may find it swept or changed; the double's listing orders by the whole
fraction of a time, the Postgres one by its microseconds. The in-memory bus does not redeliver, and claims
another turn's expired lock with another error than the KV one.

**Superseded backend.** No cleaner exists, although several comments rely on one
(`ingestion/uploads.rs:347`, `:598`): a session whose commit fails stays
`validating`. A transient failure to read an object back rejects and deletes a
good upload. Concurrent JSON ingests can create two rows of one canonical id,
and surplus chunks of a longer text stay. The embedding is written back as the whole
row as it was read (`rag.rs:196`), so that a version stored in between is put
back, although the comment at `rag.rs:106` speaks of a MERGE on just the two
embedding fields. A version without a text leaves the older text and chunks in
place. A first request whose CREATE is rolled back under another's is answered
500 (`bootstrap.rs:137`). A commit that fails ends its turn with a `finish`
without an id (`chat/worker.rs:269`), where `api/sse.rs:70` and
`old/docs/architecture/chat-v4.md:104` have `finish` say that the turn is
committed; a worker that unwinds from its commit on clears a turn whose rows may
be there. A tab that is connected and has had no frame is given no title, and no
turn that began and ended before its reader looked. The scheduler's cursor passes an item whose POST failed, and
a shutdown while a cycle runs is not noticed (`scheduler.rs:24`). A request
dropped while it authenticates takes its connection with it.

## Abstractions

* One document, one conversation, one browser or one canonical id at a time:
  nothing in the code relates two of them, apart from the projection's batches,
  the listing and the upload session's documents, where the models have several.
* A payload is a name, a text the sequence of its words, a checksum the bytes it
  was computed from, a revision the fact whether it is still the last one.
* The lock's compare-and-set loops are single steps in `ChatTurn`; this is
  `LockCallsAreAtomic`.
* Deleting a conversation under a turn is a failing storage call. An `Error` and
  its `Clear` are one event. A turn is submitted once.
* The browser's fetches in `ChatReplay` (after the end of a turn, and of a resync)
  are one step and do not fail: the query client retries twice
  (`frontend/src/main.tsx:13`), and a page whose retries fail as well stays as it is.
* An upload whose work item is out of deliveries still counts as owned in
  `UnloggedBytesAreOwned`: nothing serves it any more, which `BytesResolved` is
  about.
* The generations of `TurnBus` sessions come from a counter of one process: what a
  cursor means after that process was restarted, when the counter begins anew
  (`chat/inprocess.rs:361`), is outside the model.
* `Projection` lets a projector lose the lock at any moment, and one constant
  lets two believe they hold it, as with a pooled connection
  (`doc/content/docs/architecture/document-upload.md:780`).
* A kid names one key for good, and the keys of a set have different kids.

## Not modelled, and why

* Command and metadata validation, wire types, configuration, CORS and routing:
  stateless, one function each, and tested as such.
* Cryptography, the content of the SQL files, the HTTP and NATS clients: not
  this code.
* Role claims: a pure normalisation with no state behind it.
* LLM prompts and streams, text extraction, metadata extraction and embedding:
  external services. That they answer, err or (in the runs with fairness) end is
  modelled where the code waits for them.
* The frontend but for the upload client and the chat socket: views.
* The superseded backend's SSE discovery feed, admin commands, tracing and
  start-up; its token check, whose key cache is the code `KeyCache` models.
* `UnsubscribeConversation`: it ends a subscription the way a disconnect does.
