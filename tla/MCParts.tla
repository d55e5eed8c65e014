------------------------------- MODULE MCParts -------------------------------
(***************************************************************************)
(* The parts that share no state with one another, each on an instance of  *)
(* its own: a behaviour is a behaviour of the one part `part' names, and   *)
(* the variables of the others are not in use (0).  TurnBus has two        *)
(* instances, one with more turns and one with more frames.                *)
(***************************************************************************)
EXTENDS Integers, Sequences, FiniteSets, TLC

CONSTANTS LockClients, LockTurns  \* of LockBucket

VARIABLES
  part,
  mapped, gens, sess, unpruned, turn, rows, ever, titled, tab, extras, troubles,
  session, mpu, object, bytes, document, rejection, creating, req, mislaid, faults,
  row, text, chunk, feed, post, cursor, cycle, written, failed, disturbed, ingestFaults,
  pool, poolSession, poolReq, drops, tenants, users, members, poolFaults,
  now, token, fetch, given,
  lock, call, at,
  conv, message, recent, mem, memRecent, commits, answer,
  port, log, window, events, seen, entry, revision, stored, held,
  multi, s3Object, memMulti, memObject, listing, puts, portAnswer, apart,
  byUser, bySystem, writes,
  kind, table, clock, walk, changes,
  blob, declared, step, reader, scan, overwritten,
  words, cfg, start, out, done,
  published, keyCache, keyCheck, rotations, keyFaults,
  holder, versions, schema, startup, migrationFaults

MoreTurns == INSTANCE TurnBus
  WITH Turns <- 1..3, MaxExtras <- 0, MaxGens <- 3, Width <- 100, MaxTroubles <- 0
MoreFrames == INSTANCE TurnBus
  WITH Turns <- 1..2, MaxExtras <- 1, MaxGens <- 2, Width <- 100, MaxTroubles <- 1
Upload == INSTANCE SessionUpload
  WITH Docs <- {"d1", "d2"}, Completes <- {"r1", "r2", "r3"}, Canonical <- {"d1", "d2"},
       Ingested <- {"j"}, TxAttempts <- 2, MaxFaults <- 1
Ingest == INSTANCE IngestRows
  WITH Items <- <<1, 2, 1>>, Refused <- {2}, ChunksOf <- <<2, 0, 0>>,
       Carries <- <<{"text", "pdf", "abstract"}, {"text"}, {"pdf", "abstract"}>>,
       Embedders <- {"pdf", "abstract"}, Others <- {"u"},
       RowIds <- {1, 2}, Batch <- 2, MaxFaults <- 1, faults <- ingestFaults
Pool == INSTANCE RequestPool
  WITH Conns <- {"c1", "c2"}, UserOf <- ("r1" :> "u" @@ "r2" :> "u" @@ "r3" :> "v"),
       Known <- {"v"}, MaxFaults <- 2,
       session <- poolSession, req <- poolReq, faults <- poolFaults
Token == INSTANCE ServiceToken
  WITH RefreshHead <- 3, Timeout <- 3, DefaultTtl <- 5, Ttls <- {2, 3, 5, 6}, MaxTime <- 12
Locks == INSTANCE LockBucket
  WITH Clients <- LockClients, Turns <- LockTurns, Outcomes <- {"committed"}, None <- "none",
       Attempts <- 2
Repo == INSTANCE ChatRepository
  WITH Convs <- {"k1", "k2"}, Users <- {"u", "v"}, Turns <- {"t1", "t2"}, MaxCommits <- 2
Ports == INSTANCE DocumentPorts
  WITH Ids <- {"e1", "e2", "e3"}, DocOf <- ("e1" :> "d1" @@ "e2" :> "d1" @@ "e3" :> "d2"),
       MaxLog <- 3, Uploads <- {"u1", "u2"}, MaxWrites <- 4, Callers <- {"c1", "c2"},
       Parts <- 1..2, Page <- 1, MaxCalls <- 3, object <- s3Object, answer <- portAnswer
Views == INSTANCE StorageViews
  WITH Tenants <- {1, 2}, DocIds <- {1, 2}, Titles <- {0, 1}, Ordinals <- 0..2, Models <- {1, 2},
       MaxK <- 2, Queries <- {1, 3}, Radius <- 1, MaxWrites <- 3,
       session <- byUser, system <- bySystem
Listing == INSTANCE DocumentListing
  WITH Docs <- 1..3, Tenants <- {1, 2}, MaxTime <- 5, Grain <- 2, MaxLimit <- 2, MaxChanges <- 2
Scanner == INSTANCE BlobScan
  WITH Bytes <- {0, 1}, MaxLength <- 5, Signature <- <<0, 1, 0>>, Prefix <- 2,
       Magics <- <<[magic |-> <<1, 1>>, mime |-> "pdf"], [magic |-> <<1>>, mime |-> "zip"]>>,
       Containers <- {"ooxml"}, Types <- {"", "octet-stream", "pdf", "ooxml"}
Chunker == INSTANCE ChunkWords
  WITH Words <- {[page |-> 1, x |-> 0, y |-> 0, w |-> 1, h |-> 2],
                 [page |-> 1, x |-> 2, y |-> 1, w |-> 1, h |-> 2],
                 [page |-> 1, x |-> 1, y |-> 2, w |-> 2, h |-> 0],
                 [page |-> 2, x |-> 0, y |-> 0, w |-> 1, h |-> 2]},
       MaxWords <- 4, Sizes <- 0..3, Overlaps <- 0..3
Jwk(kid, type, alg) == [kid |-> kid, kind |-> type, alg |-> alg, parses |-> TRUE]
Signed(kid, alg) == [bearer |-> TRUE, kid |-> kid, alg |-> alg, fits |-> TRUE, sub |-> TRUE]
Keys == INSTANCE KeyCache
  WITH KeySets <- {{Jwk("c", "oct", "HS256")} \cup some :
                     some \in SUBSET {Jwk("a", "RSA", "HS256"), Jwk("b", "EC", "ES384")}},
       TokensOf <- ("r1" :> {Signed("a", "RS256")} @@ "r2" :> {Signed("b", "ES384")}
                 @@ "r3" :> {Signed("a", "RS256"), Signed("c", "HS256"), Signed("", "RS256")}),
       MaxRotations <- 1, MaxFaults <- 1,
       cache <- keyCache, check <- keyCheck, faults <- keyFaults
Migrate == INSTANCE Migrations
  WITH Services <- {"api1", "api2", "worker"}, Files <- 2, MaxFaults <- 2,
       start <- startup, faults <- migrationFaults

busVars == <<mapped, gens, sess, unpruned, turn, rows, ever, titled, tab, extras, troubles>>
uploadVars == <<session, mpu, object, bytes, document, rejection, creating, req, mislaid, faults>>
ingestVars == <<row, text, chunk, feed, post, cursor, cycle, written, failed, disturbed,
                ingestFaults>>
poolVars == <<pool, poolSession, poolReq, drops, tenants, users, members, poolFaults>>
tokenVars == <<now, token, fetch, given>>
lockVars == <<lock, call, at>>
repoVars == <<conv, message, recent, mem, memRecent, commits, answer>>
portVars == <<port, log, window, events, seen, entry, revision, stored, held, multi, s3Object,
              memMulti, memObject, listing, puts, portAnswer, apart>>
viewVars == <<byUser, bySystem, writes>>
listVars == <<kind, table, clock, walk, changes>>
scanVars == <<blob, declared, step, reader, scan, overwritten>>
chunkVars == <<words, cfg, start, out, done>>
keyVars == <<published, keyCache, keyCheck, rotations, keyFaults>>
migrationVars == <<holder, versions, schema, startup, migrationFaults>>

\* No other part has a model value, and LockBucket tells none from another.
Symmetry == Permutations(LockClients) \cup Permutations(LockTurns)

BusOff ==
  /\ mapped = 0 /\ gens = 0 /\ sess = 0 /\ unpruned = 0 /\ turn = 0 /\ rows = 0
  /\ ever = 0 /\ titled = 0 /\ tab = 0 /\ extras = 0 /\ troubles = 0
UploadOff ==
  /\ session = 0 /\ mpu = 0 /\ object = 0 /\ bytes = 0 /\ document = 0 /\ rejection = 0
  /\ creating = 0 /\ req = 0 /\ mislaid = 0 /\ faults = 0
IngestOff ==
  /\ row = 0 /\ text = 0 /\ chunk = 0 /\ feed = 0 /\ post = 0 /\ cursor = 0
  /\ cycle = 0 /\ written = 0 /\ failed = 0 /\ disturbed = 0 /\ ingestFaults = 0
PoolOff ==
  /\ pool = 0 /\ poolSession = 0 /\ poolReq = 0 /\ drops = 0 /\ tenants = 0
  /\ users = 0 /\ members = 0 /\ poolFaults = 0
TokenOff ==
  /\ now = 0 /\ token = 0 /\ fetch = 0 /\ given = 0
RepoOff ==
  /\ conv = 0 /\ message = 0 /\ recent = 0 /\ mem = 0 /\ memRecent = 0 /\ commits = 0
  /\ answer = 0
PortsOff ==
  /\ port = 0 /\ log = 0 /\ window = 0 /\ events = 0 /\ seen = 0 /\ entry = 0
  /\ revision = 0 /\ stored = 0 /\ held = 0 /\ multi = 0 /\ s3Object = 0
  /\ memMulti = 0 /\ memObject = 0 /\ listing = 0 /\ puts = 0 /\ portAnswer = 0
  /\ apart = 0

ViewsOff == byUser = 0 /\ bySystem = 0 /\ writes = 0
ListingOff == kind = 0 /\ table = 0 /\ clock = 0 /\ walk = 0 /\ changes = 0
ScannerOff ==
  blob = 0 /\ declared = 0 /\ step = 0 /\ reader = 0 /\ scan = 0 /\ overwritten = 0
ChunkerOff == words = 0 /\ cfg = 0 /\ start = 0 /\ out = 0 /\ done = 0
KeysOff == published = 0 /\ keyCache = 0 /\ keyCheck = 0 /\ rotations = 0 /\ keyFaults = 0
MigrateOff == holder = 0 /\ versions = 0 /\ schema = 0 /\ startup = 0 /\ migrationFaults = 0

Init ==
  /\ part \in {"turns", "frames", "upload", "ingest", "pool", "token", "locks", "repo", "ports",
              "views", "listing", "scanner", "chunker", "keys", "migrate"}
  /\ CASE part = "turns" -> MoreTurns!BusInit [] part = "frames" -> MoreFrames!BusInit
       [] OTHER -> BusOff
  /\ IF part = "upload" THEN Upload!UploadInit ELSE UploadOff
  /\ IF part = "ingest" THEN Ingest!IngestInit ELSE IngestOff
  /\ IF part = "pool" THEN Pool!PoolInit ELSE PoolOff
  /\ IF part = "token" THEN Token!TokenInit ELSE TokenOff
  /\ Locks!BucketInit
  /\ IF part = "repo" THEN Repo!RepoInit ELSE RepoOff
  /\ IF part = "ports" THEN Ports!PortInit ELSE PortsOff
  /\ IF part = "views" THEN Views!ViewsInit ELSE ViewsOff
  /\ IF part = "listing" THEN Listing!ListingInit ELSE ListingOff
  /\ IF part = "scanner" THEN Scanner!ScanInit ELSE ScannerOff
  /\ IF part = "chunker" THEN Chunker!ChunkInit ELSE ChunkerOff
  /\ IF part = "keys" THEN Keys!KeysInit ELSE KeysOff
  /\ IF part = "migrate" THEN Migrate!MigrationsInit ELSE MigrateOff

Next ==
  /\ UNCHANGED part
  /\ \/ /\ \/ part = "turns" /\ MoreTurns!BusNext
           \/ part = "frames" /\ MoreFrames!BusNext
        /\ UNCHANGED <<uploadVars, ingestVars, poolVars, tokenVars, lockVars,
                       repoVars, portVars, viewVars, listVars, scanVars, chunkVars,
                       keyVars, migrationVars>>
     \/ /\ part = "upload" /\ Upload!UploadNext
        /\ UNCHANGED <<busVars, ingestVars, poolVars, tokenVars, lockVars,
                       repoVars, portVars, viewVars, listVars, scanVars, chunkVars,
                       keyVars, migrationVars>>
     \/ /\ part = "ingest" /\ Ingest!IngestNext
        /\ UNCHANGED <<busVars, uploadVars, poolVars, tokenVars, lockVars,
                       repoVars, portVars, viewVars, listVars, scanVars, chunkVars,
                       keyVars, migrationVars>>
     \/ /\ part = "pool" /\ Pool!PoolNext
        /\ UNCHANGED <<busVars, uploadVars, ingestVars, tokenVars, lockVars,
                       repoVars, portVars, viewVars, listVars, scanVars, chunkVars,
                       keyVars, migrationVars>>
     \/ /\ part = "token" /\ Token!TokenNext
        /\ UNCHANGED <<busVars, uploadVars, ingestVars, poolVars, lockVars,
                       repoVars, portVars, viewVars, listVars, scanVars, chunkVars,
                       keyVars, migrationVars>>
     \/ /\ part = "locks" /\ Locks!BucketNext
        /\ UNCHANGED <<busVars, uploadVars, ingestVars, poolVars, tokenVars,
                       repoVars, portVars, viewVars, listVars, scanVars, chunkVars,
                       keyVars, migrationVars>>
     \/ /\ part = "repo" /\ Repo!RepoNext
        /\ UNCHANGED <<busVars, uploadVars, ingestVars, poolVars, tokenVars,
                       lockVars, portVars, viewVars, listVars, scanVars, chunkVars,
                       keyVars, migrationVars>>
     \/ /\ part = "ports" /\ Ports!PortNext
        /\ UNCHANGED <<busVars, uploadVars, ingestVars, poolVars, tokenVars,
                       lockVars, repoVars, viewVars, listVars, scanVars, chunkVars,
                       keyVars, migrationVars>>
     \/ /\ part = "views" /\ Views!ViewsNext
        /\ UNCHANGED <<busVars, uploadVars, ingestVars, poolVars, tokenVars,
                       lockVars, repoVars, portVars, listVars, scanVars, chunkVars,
                       keyVars, migrationVars>>
     \/ /\ part = "listing" /\ Listing!ListingNext
        /\ UNCHANGED <<busVars, uploadVars, ingestVars, poolVars, tokenVars,
                       lockVars, repoVars, portVars, viewVars, scanVars, chunkVars,
                       keyVars, migrationVars>>
     \/ /\ part = "scanner" /\ Scanner!ScanNext
        /\ UNCHANGED <<busVars, uploadVars, ingestVars, poolVars, tokenVars,
                       lockVars, repoVars, portVars, viewVars, listVars, chunkVars,
                       keyVars, migrationVars>>
     \/ /\ part = "chunker" /\ Chunker!ChunkNext
        /\ UNCHANGED <<busVars, uploadVars, ingestVars, poolVars, tokenVars,
                       lockVars, repoVars, portVars, viewVars, listVars, scanVars,
                       keyVars, migrationVars>>
     \/ /\ part = "keys" /\ Keys!KeysNext
        /\ UNCHANGED <<busVars, uploadVars, ingestVars, poolVars, tokenVars, lockVars,
                       repoVars, portVars, viewVars, listVars, scanVars, chunkVars, migrationVars>>
     \/ /\ part = "migrate" /\ Migrate!MigrationsNext
        /\ UNCHANGED <<busVars, uploadVars, ingestVars, poolVars, tokenVars, lockVars,
                       repoVars, portVars, viewVars, listVars, scanVars, chunkVars, keyVars>>

vars == <<part, busVars, uploadVars, ingestVars, poolVars, tokenVars, lockVars, repoVars, portVars,
          viewVars, listVars, scanVars, chunkVars, keyVars, migrationVars>>

Spec == Init /\ [][Next]_vars

------------------------------------------------------------------------------
\* TurnBus: one worker per conversation, and no slot without its worker.
SlotHasOneWorker ==
  /\ part = "turns" => MoreTurns!SlotHasOneWorker
  /\ part = "frames" => MoreFrames!SlotHasOneWorker

\* TurnBus: what the stream says of a turn is what the database holds.
VerdictsMatchRows ==
  /\ part = "turns" => MoreTurns!VerdictsMatchRows
  /\ part = "frames" => MoreFrames!VerdictsMatchRows

\* TurnBus: a reader that sleeps is at the end of the log, or has had no frame.
NoLostWakeup == part \in {"turns", "frames"} => MoreTurns!NoLostWakeup

\* TurnBus: a tab gets whole turns, and no frame without the one before it.
NoTornTurn == [][(part \in {"turns", "frames"}) => MoreTurns!FrameFollows]_busVars

\* SessionUpload: what commit_upload points at is not deleted by a /complete.
CommittedKeepsBytes == part = "upload" => Upload!CommittedKeepsBytes

\* SessionUpload: the outcome of an upload outlives its session.
OutcomeIsKept == part = "upload" => Upload!OutcomeIsKept

\* IngestRows: run_once stores no cursor past an item nobody stored.
CursorBehindRows == part = "ingest" => Ingest!CursorBehindRows

\* IngestRows: undisturbed, a document's row, text, chunks and feed agree.
SerialIngestIsWhole == part = "ingest" => Ingest!SerialIngestIsWhole

\* RequestPool: a handler's queries run as the user of its request.
SessionIsOwn == part = "pool" => Pool!SessionIsOwn

\* Who meets another at the same point is served, but for the losers of two races.
\* RequestPool: the concurrent first requests of one user, except one whose CREATE
\* is rolled back under another's.  KeyCache: tokens checked while the provider
\* rotates its keys, except one whose refresh an older one overwrites before the
\* second look.  Migrations: services that start together.
RacersAreServed ==
  /\ part = "pool" => Pool!RacersAreServed
  /\ part = "keys" => Keys!RotationIsSeamless
  /\ part = "migrate" => Migrate!StartupsAreSafe

\* ServiceToken: a token handed out by fresh_token has not expired.
TokenIsLive == part = "token" => Token!TokenIsLive

\* LockBucket: the read-then-update calls on the KV lock act as single steps.
CallsAreAtomic ==
  /\ Locks!Contract!LockInit
  /\ [][part = "locks" => Locks!Contract!ContractNext]_<<lock, call>>

\* Two implementations of one interface answer alike.  ChatRepository and
\* DocumentPorts: the in-memory doubles of the tests and the Postgres, JetStream,
\* KV and S3 adapters.  StorageViews: filtering by tenant and the engine's
\* PERMISSIONS.  DocumentListing: the double and Postgres, and the two feeds.
DoublesAgree ==
  /\ part = "repo" => Repo!RepositoriesAgree
  /\ part = "ports" => Ports!PortsAgree
  /\ part = "views" => Views!ViewsAgree
  /\ part = "listing" => Listing!ListingsAgree

\* StorageViews: retrieve_for_query takes what the search hit, once each.
RetrievedOnce == part = "views" => Views!RetrievedOnce

\* DocumentListing: a walk by cursor lists what does not change exactly once.
PagesAreWhole == part = "listing" => Listing!PagesAreWhole

\* BlobScan: only bytes that were all scanned, hashed and clean are accepted.
AcceptedIsScanned == part = "scanner" => Scanner!AcceptedIsScanned

\* ChunkWords: chunks cover the words, in order, with the overlap configured.
ChunksCover == part = "chunker" => Chunker!ChunksCover
=============================================================================
