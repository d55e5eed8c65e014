----------------------------- MODULE IngestRows -----------------------------
(***************************************************************************)
(* POST /api/ingestion/documents of the superseded backend: the sinks      *)
(* around one canonical id (notifier over rag over pipeline, old/backend/  *)
(* src/ingestion) with the storage calls they make, and the scheduler that *)
(* feeds them a source's items through its own HTTP endpoint               *)
(* (old/backend/src/sources).  A content stands for its hash and for what  *)
(* of text, PDF and abstract it carries; every storage call is a step.     *)
(***************************************************************************)
EXTENDS Integers, Sequences, FiniteSets

CONSTANTS
  Items,        \* the source's items: a sequence of contents
  Refused,      \* the contents the filter rejects
  Carries,      \* content -> which of "text", "pdf", "abstract" a request with it has
  Embedders,    \* which of the "pdf" and "abstract" embedders are configured
  ChunksOf,     \* content -> the number of chunks its PDF is split into
  Others,       \* clients beside the scheduler, one POST each
  RowIds,       \* record ids
  Batch,        \* items a fetch returns at most
  MaxFaults     \* failed calls, dropped requests and restarts

VARIABLES
  row,          \* record id -> the document's row
  text,         \* record id -> document_content, 0 when absent
  chunk,        \* record id -> ordinal -> chunk, 0 when absent
  feed,         \* record ids broadcast to the feed, in order
  post,         \* client -> its request
  cursor,       \* source_state: items the source is past
  cycle,        \* the adapter task
  written,      \* history: contents some request has written to a row
  failed,       \* history: items whose POST the scheduler saw fail
  disturbed,    \* history: a call failed, or two requests overlapped
  faults

ingestVars == <<row, text, chunk, feed, post, cursor, cycle, written, failed,
                disturbed, faults>>

Scheduler == "scheduler"
Clients == {Scheduler} \cup Others
Contents == DOMAIN ChunksOf
Ordinals == 1..(CHOOSE n \in {ChunksOf[c] : c \in Contents} :
                  \A c \in Contents : ChunksOf[c] <= n)

NoRow == [hash |-> 0, version |-> 0, embedded |-> 0]
NoPost == [pc |-> "idle", content |-> 0, version |-> 0, id |-> 0, created |-> FALSE,
           ordinal |-> 0, copy |-> NoRow]
Waiting == [pc |-> "wait", next |-> 0, upto |-> 0]

IngestInit ==
  /\ row = [i \in RowIds |-> NoRow]
  /\ text = [i \in RowIds |-> 0]
  /\ chunk = [i \in RowIds |-> [o \in Ordinals |-> 0]]
  /\ feed = <<>>
  /\ post = [c \in Clients |-> NoPost]
  /\ cursor = 0
  /\ cycle = Waiting
  /\ written = {} /\ failed = {}
  /\ disturbed = FALSE /\ faults = 0

Rows == {i \in RowIds : row[i] # NoRow}

\* SELECT ... WHERE canonical_id = $cid LIMIT 1, with no order: any row.
Found(i) == IF Rows = {} THEN i = 0 ELSE i \in Rows

At(c, pc) == post[c].pc = pc
Goto(c, pc) == post' = [post EXCEPT ![c].pc = pc]
Busy == {c \in Clients : post[c].pc \notin {"idle", "ok", "err"}}

Start(c, content) ==
  /\ post' = [post EXCEPT ![c] = [NoPost EXCEPT !.pc = "read", !.content = content]]
  /\ disturbed' = (disturbed \/ Busy # {})

----------------------------------------------------------------------------
(* Pipeline                                                                *)

\* get_document_by_canonical: unchanged, a new version, or a new document.
ReadExisting(c) ==
  /\ At(c, "read")
  /\ \E i \in RowIds \cup {0} :
       /\ Found(i)
       /\ post' = [post EXCEPT ![c] =
            CASE i = 0 -> [@ EXCEPT !.pc = "lookup", !.version = 1, !.created = TRUE]
              [] i # 0 /\ row[i].hash = @.content -> [@ EXCEPT !.pc = "ok"]
              [] OTHER -> [@ EXCEPT !.pc = "lookup", !.version = row[i].version + 1]]
  /\ UNCHANGED <<row, text, chunk, feed, cursor, cycle, written, failed, disturbed, faults>>

\* upsert_document, the row to write looked up once more by canonical id
Lookup(c) ==
  /\ At(c, "lookup") \/ At(c, "relookup")
  /\ \E i \in RowIds \cup {0} :
       /\ Found(i)
       /\ post' = [post EXCEPT ![c].id = i,
                               ![c].pc = IF @ = "lookup" THEN "write" ELSE "rewrite"]
  /\ UNCHANGED <<row, text, chunk, feed, cursor, cycle, written, failed, disturbed, faults>>

\* CREATE, or UPDATE ... MERGE, which keeps the embedding the request lacks.
Write(c) ==
  /\ At(c, "write")
  /\ \E i \in IF post[c].id = 0 THEN RowIds \ Rows ELSE {post[c].id} :
       /\ row' = [row EXCEPT ![i].hash = post[c].content, ![i].version = post[c].version]
       /\ post' = [post EXCEPT ![c].id = i, ![c].pc = "text"]
  /\ written' = written \cup {post[c].content}
  /\ UNCHANGED <<text, chunk, feed, cursor, cycle, failed, disturbed, faults>>

\* persist_text_if_present: a request without raw_text leaves the old text.
PersistText(c) ==
  /\ At(c, "text")
  /\ text' = IF "text" \in Carries[post[c].content]
             THEN [text EXCEPT ![post[c].id] = post[c].content] ELSE text
  /\ post' = [post EXCEPT ![c].pc = "extract"]
  /\ UNCHANGED <<row, chunk, feed, cursor, cycle, written, failed, disturbed, faults>>

----------------------------------------------------------------------------
(* RagSink, after the document is stored                                   *)

\* What RagSink works on: storage_uri and the chunk embedder are there, or title,
\* summary and the document embedder.
Embeds(c, what) == what \in Carries[post[c].content] \cap Embedders

\* run_chunk_pipeline up to its upsert: a PDF without words has no chunks.
\* (Too few vectors from the embedder end it as an error does: RagFails.)
ChunkPipeline(c) ==
  /\ At(c, "extract")
  /\ post' = [post EXCEPT ![c].pc = IF Embeds(c, "pdf") /\ ChunksOf[post[c].content] > 0
                                    THEN "chunk" ELSE "embed",
                          ![c].ordinal = 1]
  /\ UNCHANGED <<row, text, chunk, feed, cursor, cycle, written, failed, disturbed, faults>>

\* Mutant: the last chunk is not written.
UpsertChunkShort(c) ==
  LET p == post[c] IN
  /\ At(c, "chunk")
  /\ IF p.ordinal < ChunksOf[p.content]
       THEN /\ chunk' = [chunk EXCEPT ![p.id][p.ordinal] = p.content]
            /\ post' = [post EXCEPT ![c].ordinal = @ + 1]
       ELSE Goto(c, "embed") /\ UNCHANGED chunk
  /\ UNCHANGED <<row, text, feed, cursor, cycle, written, failed, disturbed, faults>>

\* upsert_chunks, one row at a time; rows past the last ordinal stay.
UpsertChunk(c) ==
  LET p == post[c] IN
  /\ At(c, "chunk")
  /\ IF p.ordinal <= ChunksOf[p.content]
       THEN /\ chunk' = [chunk EXCEPT ![p.id][p.ordinal] = p.content]
            /\ post' = [post EXCEPT ![c].ordinal = @ + 1]
       ELSE Goto(c, "embed") /\ UNCHANGED chunk
  /\ UNCHANGED <<row, text, feed, cursor, cycle, written, failed, disturbed, faults>>

\* run_paper_embedding reads the whole row ...
ReadRow(c) ==
  /\ At(c, "embed")
  /\ post' = IF Embeds(c, "abstract")
             THEN [post EXCEPT ![c].pc = "relookup",
                    ![c].copy = [row[post[c].id] EXCEPT !.embedded = post[c].content]]
             ELSE [post EXCEPT ![c].pc = "notify"]
  /\ UNCHANGED <<row, text, chunk, feed, cursor, cycle, written, failed, disturbed, faults>>

\* ... and upserts it back, whatever the row has become.
WriteBack(c) ==
  /\ At(c, "rewrite")
  /\ row' = [row EXCEPT ![post[c].id] = post[c].copy]
  /\ Goto(c, "notify")
  /\ UNCHANGED <<text, chunk, feed, cursor, cycle, written, failed, disturbed, faults>>

\* A rag step that fails is logged, and the ingest goes on.
RagFails(c) ==
  /\ post[c].pc \in {"extract", "chunk", "embed", "relookup", "rewrite"}
  /\ faults < MaxFaults /\ faults' = faults + 1 /\ disturbed' = TRUE
  /\ Goto(c, IF At(c, "extract") \/ At(c, "chunk") THEN "embed" ELSE "notify")
  /\ UNCHANGED <<row, text, chunk, feed, cursor, cycle, written, failed>>

----------------------------------------------------------------------------
(* NotifyingSink and the handler                                           *)

\* Only a created document is read back and broadcast.
Notify(c) ==
  /\ At(c, "notify")
  /\ feed' = IF post[c].created THEN Append(feed, post[c].id) ELSE feed
  /\ Goto(c, "ok")
  /\ UNCHANGED <<row, text, chunk, cursor, cycle, written, failed, disturbed, faults>>

\* A storage call of the pipeline fails, the request is dropped at an await, or
\* its answer is lost: the caller sees an error.
PostFails(c) ==
  /\ post[c].pc \notin {"idle", "err"}
  /\ post[c].pc = "ok" => c = Scheduler
  /\ faults < MaxFaults /\ faults' = faults + 1 /\ disturbed' = TRUE
  /\ Goto(c, "err")
  /\ UNCHANGED <<row, text, chunk, feed, cursor, cycle, written, failed>>

IngestStep(c) ==
  \/ ReadExisting(c) \/ Lookup(c) \/ Write(c) \/ PersistText(c)
  \/ ChunkPipeline(c) \/ UpsertChunk(c) \/ ReadRow(c) \/ WriteBack(c) \/ RagFails(c)
  \/ Notify(c) \/ PostFails(c)

OtherPosts(c, content) ==
  /\ c \in Others /\ At(c, "idle")
  /\ Start(c, content)
  /\ UNCHANGED <<row, text, chunk, feed, cursor, cycle, written, failed, faults>>

----------------------------------------------------------------------------
(* The scheduler: run_once                                                 *)

\* The tick: get_source_cursor
ReadCursor ==
  /\ cycle.pc = "wait" /\ cursor < Len(Items)
  /\ cycle' = [pc |-> "fetch", next |-> cursor + 1, upto |-> cursor]
  /\ UNCHANGED <<row, text, chunk, feed, post, cursor, written, failed, disturbed, faults>>

\* Mutant: the cursor is stored with the fetch, ahead of the items.
FetchMoves ==
  /\ cycle.pc = "fetch"
  /\ \E n \in cycle.next..Len(Items) :
       /\ n < cycle.next + Batch
       /\ cycle' = [cycle EXCEPT !.pc = "item", !.upto = n]
       /\ cursor' = n
  /\ UNCHANGED <<row, text, chunk, feed, post, written, failed, disturbed, faults>>

\* The adapter's fetch of what lies past it
Fetch ==
  /\ cycle.pc = "fetch"
  /\ \E n \in cycle.next..Len(Items) :
       /\ n < cycle.next + Batch
       /\ cycle' = [cycle EXCEPT !.pc = "item", !.upto = n]
  /\ UNCHANGED <<row, text, chunk, feed, post, cursor, written, failed, disturbed, faults>>

\* The filter decides, and an accepted item is posted.
Offer ==
  /\ cycle.pc = "item" /\ cycle.next <= cycle.upto
  /\ IF Items[cycle.next] \in Refused
       THEN cycle' = [cycle EXCEPT !.next = @ + 1] /\ UNCHANGED <<post, disturbed>>
       ELSE cycle' = [cycle EXCEPT !.pc = "await"] /\ Start(Scheduler, Items[cycle.next])
  /\ UNCHANGED <<row, text, chunk, feed, cursor, written, failed, faults>>

\* A failed call is logged like a successful one.
Answered ==
  /\ cycle.pc = "await" /\ post[Scheduler].pc \in {"ok", "err"}
  /\ failed' = IF At(Scheduler, "err") THEN failed \cup {cycle.next} ELSE failed
  /\ post' = [post EXCEPT ![Scheduler] = NoPost]
  /\ cycle' = [cycle EXCEPT !.pc = "item", !.next = @ + 1]
  /\ UNCHANGED <<row, text, chunk, feed, cursor, written, disturbed, faults>>

PutCursor ==
  /\ cycle.pc = "item" /\ cycle.next > cycle.upto
  /\ cursor' = cycle.upto
  /\ cycle' = Waiting
  /\ UNCHANGED <<row, text, chunk, feed, post, written, failed, disturbed, faults>>

\* The process restarts (its endpoint with it), or a cursor call fails.
Restart ==
  /\ faults < MaxFaults /\ faults' = faults + 1 /\ disturbed' = TRUE
  /\ cycle # Waiting
  /\ cycle' = Waiting
  /\ post' = [c \in Clients |-> IF c \in Busy \/ c = Scheduler
                                THEN [NoPost EXCEPT !.pc = IF c = Scheduler THEN "idle" ELSE "err"]
                                ELSE post[c]]
  /\ UNCHANGED <<row, text, chunk, feed, cursor, written, failed>>

IngestNext ==
  \/ \E c \in Clients : IngestStep(c) \/ \E k \in Contents : OtherPosts(c, k)
  \/ ReadCursor \/ Fetch \/ Offer \/ Answered \/ PutCursor \/ Restart

IngestSpec == IngestInit /\ [][IngestNext]_ingestVars

----------------------------------------------------------------------------
\* The cursor is never past an item nobody stored: whatever calls fail, and
\* wherever the process restarts, each accepted item behind source_state's
\* cursor has been written to a row, or its POST failed before the scheduler's
\* eyes (run_once logs that and moves on).
CursorBehindRows ==
  \A i \in 1..cursor :
    Items[i] \notin Refused => Items[i] \in written \/ i \in failed

\* Left alone, ingestion is whole: as long as no call has failed and no two
\* requests have overlapped, between requests there is at most one row for the
\* canonical id, the feed has announced it exactly once, and whatever the request
\* that gave the row its hash carried is stored: its text, the embedding of its
\* abstract and the chunks of its PDF.  What that request did not carry is an earlier
\* version's, or not there (pipeline.rs:140, rag.rs:95-108).
SerialIngestIsWhole ==
  (~disturbed /\ Busy = {}) =>
    /\ Cardinality(Rows) <= 1
    /\ \A i \in Rows :
         LET h == row[i].hash IN
         /\ "text" \in Carries[h] => text[i] = h
         /\ "abstract" \in Carries[h] \cap Embedders => row[i].embedded = h
         /\ "pdf" \in Carries[h] \cap Embedders => \A o \in 1..ChunksOf[h] : chunk[i][o] = h
         /\ feed = <<i>>

=============================================================================
