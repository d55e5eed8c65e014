--------------------------- MODULE DocumentPorts ----------------------------
(***************************************************************************)
(* Three ports of the document application, each as its adapter and as the *)
(* in-memory double of testing.rs implement it: the event store            *)
(* (JetStream), the upload state store (a KV bucket) and the blob store    *)
(* (S3).  A behaviour is about one of them, and makes every call to both.  *)
(*                                                                         *)
(* `apart' has what the caller did that the double does not follow: an     *)
(* event id came back after the duplicate window ("window"), a part was    *)
(* uploaded again ("again"), a multipart was completed with parts it does  *)
(* not have ("wrong parts").                                               *)
(***************************************************************************)
EXTENDS Integers, Sequences, FiniteSets, FiniteSetsExt, SequencesExt

CONSTANTS
  Ids, DocOf, \* event ids, and the document each is about
  MaxLog,     \* bound: events in the log
  Uploads,    \* upload ids
  MaxWrites,  \* bound: writes to the bucket
  Callers,    \* who reads and writes upload states
  Parts, Page, \* part numbers, and how many S3 lists at once
  MaxCalls    \* bound: uploads of parts

VARIABLES
  port,     \* the port this behaviour is about
  log, window,    \* JetStream: the stream, the ids it still deduplicates
  events, seen,   \* MemoryEventStore: the events, the sequence of every id
  entry, revision, \* the bucket: per upload, revision and value; the last revision
  stored,   \* MemoryUploadStateStore: per upload, revision and value
  held,     \* per caller, the upload read, its revisions in both; after a refused
            \* update, what the double answered and whether the entry went since
  multi, object,       \* S3: the open multipart's parts, the object
  memMulti, memObject, \* MemoryBlobStore: the same
  listing,  \* list_parts under way: marker, parts so far, parts there at its start
  puts,     \* parts uploaded so far
  answer,   \* the answers of both to the last call
  apart

logVars == <<log, window, events, seen>>
stateVars == <<entry, revision, stored, held>>
blobVars == <<multi, object, memMulti, memObject, listing, puts>>
portVars == <<port, logVars, stateVars, blobVars, answer, apart>>

None == "none"
Answers(a, b) == [real |-> a, double |-> b, swept |-> FALSE]
Same(a) == Answers(a, a)
NoHold == [upload |-> None, rev |-> 0, mem |-> 0, lost |-> None, swept |-> FALSE]
Gone == [rev |-> 0, value |-> None]
Closed == [open |-> FALSE, parts |-> <<>>]
NoListing == [marker |-> -1, got |-> {}, due |-> {}]
Appended(seq, version, duplicate) == [seq |-> seq, version |-> version, duplicate |-> duplicate]
Conflict == Appended(0, 0, FALSE)

PortInit ==
  /\ port \in {"events", "uploads", "blobs"}
  /\ log = <<>> /\ window = {} /\ events = <<>> /\ seen = [e \in Ids |-> 0]
  /\ entry = [u \in Uploads |-> Gone] /\ revision = 0
  /\ stored = [u \in Uploads |-> Gone]
  /\ held = [c \in Callers |-> NoHold]
  /\ multi = Closed /\ object = {} /\ memMulti = Closed /\ memObject = {}
  /\ listing = NoListing /\ puts = 0
  /\ answer = IF port = "events" THEN Same(Conflict) ELSE Same("ok")
  /\ apart = {}

------------------------------------------------------------------------------
(* EventStore *)

LastOf(l, d) == Max({0} \cup {i \in DOMAIN l : l[i].doc = d})
SequenceOf(l, e) == Max({0} \cup {i \in DOMAIN l : l[i].id = e})
Event(e, version) == [doc |-> DocOf[e], id |-> e, version |-> version]

\* JetStreamEventStore::append.  The version answered is the caller's.
JsAppend(e, version, expected) ==
  IF e \in window THEN Appended(SequenceOf(log, e), version, TRUE)
  ELSE IF LastOf(log, DocOf[e]) # expected THEN Conflict
  ELSE Appended(Len(log) + 1, version, FALSE)

\* MemoryEventStore::append.  The version answered is the stored event's.
MemAppend(e, version, expected) ==
  IF seen[e] # 0 THEN Appended(seen[e], events[seen[e]].version, TRUE)
  ELSE IF LastOf(events, DocOf[e]) # expected THEN Conflict
  ELSE Appended(Len(events) + 1, version, FALSE)

Landed(a) == a # Conflict /\ ~a.duplicate

AppendEvent(e, version, expected) ==
  LET js == JsAppend(e, version, expected)
      double == MemAppend(e, version, expected)
  IN /\ Len(log) < MaxLog
     /\ answer' = Answers(js, double)
     /\ log' = IF Landed(js) THEN Append(log, Event(e, version)) ELSE log
     /\ window' = IF Landed(js) THEN window \cup {e} ELSE window
     /\ events' = IF Landed(double) THEN Append(events, Event(e, version)) ELSE events
     /\ seen' = IF Landed(double) THEN [seen EXCEPT ![e] = Len(events) + 1] ELSE seen
     /\ apart' = apart \cup {w \in {"window"} : seen[e] # 0 /\ e \notin window}
     /\ UNCHANGED <<port, stateVars, blobVars>>

\* last: the version and the sequence of the document's last event
LastEvent(l, d) == IF LastOf(l, d) = 0 THEN <<0, 0>> ELSE <<l[LastOf(l, d)].version, LastOf(l, d)>>
\* read_stream
Stream(l, d) == SelectSeq(l, LAMBDA event : event.doc = d)

\* The duplicate window passes; the double remembers for good.
Forget(e) ==
  /\ e \in window
  /\ window' = window \ {e}
  /\ UNCHANGED <<port, log, events, seen, stateVars, blobVars, answer, apart>>

EventStep ==
  \/ \E e \in Ids, version \in 1..MaxLog, expected \in 0..MaxLog : AppendEvent(e, version, expected)
  \/ \E e \in Ids : Forget(e)

------------------------------------------------------------------------------
(* UploadStateStore *)

Keeps == <<port, logVars, blobVars, apart>>

KvCreate(u) ==
  IF entry[u] = Gone
  THEN /\ entry' = [entry EXCEPT ![u] = [rev |-> revision + 1, value |-> "new"]]
       /\ revision' = revision + 1
  ELSE UNCHANGED <<entry, revision>>

MemCreate(u) ==
  stored' = IF stored[u] = Gone THEN [stored EXCEPT ![u] = [rev |-> 1, value |-> "new"]]
            ELSE stored

\* create: an upload id is made up once, and never again after it has gone.
Create(u) ==
  /\ revision < MaxWrites
  /\ entry[u] = Gone => \A c \in Callers : held[c].upload # u
  /\ KvCreate(u) /\ MemCreate(u)
  /\ answer' = Answers(IF entry[u] = Gone THEN "ok" ELSE "exists",
                       IF stored[u] = Gone THEN "ok" ELSE "exists")
  /\ UNCHANGED <<held, Keeps>>

\* get: the value, and the revision a later update names
KvGet(u) == entry[u]
MemGet(u) == stored[u]

Get(c, u) ==
  /\ held[c].lost = None
  /\ answer' = Answers(KvGet(u).value, MemGet(u).value)
  /\ held' = [held EXCEPT ![c].upload = u, ![c].rev = KvGet(u).rev, ![c].mem = MemGet(u).rev]
  /\ UNCHANGED <<entry, revision, stored, Keeps>>

\* The double decides under its lock.
MemUpdate(h) ==
  IF stored[h.upload] = Gone THEN "expired"
  ELSE IF stored[h.upload].rev = h.mem THEN "ok" ELSE "conflict"

\* update: a write at the revision read.  A bucket that refuses it is read again.
Update(c, value) ==
  LET h == held[c] IN
  /\ h.upload # None /\ h.rev # 0 /\ h.lost = None /\ revision < MaxWrites
  /\ IF entry[h.upload].rev = h.rev
     THEN /\ entry' = [entry EXCEPT ![h.upload] = [rev |-> revision + 1, value |-> value]]
          /\ revision' = revision + 1
          /\ held' = [held EXCEPT ![c].rev = revision + 1, ![c].mem = h.mem + 1]
          /\ answer' = Answers("ok", MemUpdate(h))
     ELSE /\ held' = [held EXCEPT ![c].lost = MemUpdate(h)]
          /\ UNCHANGED <<entry, revision, answer>>
  /\ stored' = IF MemUpdate(h) = "ok"
               THEN [stored EXCEPT ![h.upload] = [rev |-> h.mem + 1, value |-> value]]
               ELSE stored
  /\ UNCHANGED Keeps

\* Conflict or Expired, by what is there now; the double answered at the write.
ReRead(c) ==
  LET h == held[c] IN
  /\ h.lost # None
  /\ held' = [held EXCEPT ![c] = NoHold]
  /\ answer' = [real |-> IF entry[h.upload] # Gone THEN "conflict" ELSE "expired",
                double |-> h.lost, swept |-> h.swept]
  /\ UNCHANGED <<entry, revision, stored, Keeps>>

\* delete, or the bucket's max_age
Delete(u) ==
  /\ entry' = [entry EXCEPT ![u] = Gone]
  /\ stored' = [stored EXCEPT ![u] = Gone]
  /\ held' = [c \in Callers |-> IF held[c].upload = u /\ held[c].lost # None
                                THEN [held[c] EXCEPT !.swept = TRUE] ELSE held[c]]
  /\ answer' = Same("ok")
  /\ UNCHANGED <<revision, Keeps>>

UploadStep ==
  \/ \E u \in Uploads : Create(u) \/ Delete(u) \/ \E c \in Callers : Get(c, u)
  \/ \E c \in Callers : ReRead(c) \/ \E value \in {"new", "done"} : Update(c, value)

------------------------------------------------------------------------------
(* BlobStore *)

Part(p, etag) == [number |-> p, etag |-> etag]
Without(s, p) == SelectSeq(s, LAMBDA q : q.number # p)
Others == <<port, logVars, stateVars>>

\* A new upload id: no listing is about it.
BeginMultipart ==
  /\ ~multi.open /\ listing = NoListing
  /\ multi' = [open |-> TRUE, parts |-> <<>>]
  /\ memMulti' = [open |-> TRUE, parts |-> <<>>]
  /\ answer' = Same("ok")
  /\ UNCHANGED <<object, memObject, listing, puts, Others, apart>>

\* A part put to its presigned url: S3 replaces one of the same number, the
\* double keeps both (and takes one for a multipart it has forgotten).
UploadPart(p) ==
  /\ multi.open /\ puts < MaxCalls
  /\ LET part == Part(p, puts + 1) IN
     /\ multi' = [multi EXCEPT !.parts = Append(Without(@, p), part)]
     /\ memMulti' = [open |-> TRUE, parts |-> Append(memMulti.parts, part)]
  /\ apart' = apart \cup {w \in {"again"} : \E q \in Range(multi.parts) : q.number = p}
  /\ puts' = puts + 1
  /\ UNCHANGED <<object, memObject, listing, answer, Others>>

\* list_parts of the adapter: page by page, from the last number listed on.
BeyondMarker == {q \in Range(multi.parts) : q.number > listing.marker}
NextPage == {q \in BeyondMarker : Cardinality({r \in BeyondMarker : r.number < q.number}) < Page}

ListParts ==
  /\ listing.marker = -1
  /\ listing' = [marker |-> 0, got |-> {}, due |-> Range(memMulti.parts)]
  /\ UNCHANGED <<multi, object, memMulti, memObject, puts, answer, Others, apart>>

ListPage ==
  /\ listing.marker >= 0
  /\ IF ~multi.open
     THEN /\ listing' = NoListing
          /\ answer' = Answers("gone", IF memMulti.open THEN "listed" ELSE "gone")
     ELSE IF NextPage = BeyondMarker
     THEN /\ listing' = NoListing
          /\ LET got == listing.got \cup NextPage IN
             answer' = Answers(IF listing.due \subseteq got /\ got \subseteq Range(memMulti.parts)
                               THEN "listed" ELSE "missed",
                               "listed")
     ELSE /\ listing' = [listing EXCEPT !.got = @ \cup NextPage,
                                        !.marker = Max({q.number : q \in NextPage})]
          /\ UNCHANGED answer
  /\ UNCHANGED <<multi, object, memMulti, memObject, puts, Others, apart>>

FirstOf(s, p) == SelectSeq(s, LAMBDA q : q.number = p)[1]
Has(m, parts) == \A q \in parts : /\ \E r \in Range(m.parts) : r.number = q.number
                                  /\ FirstOf(m.parts, q.number) = q

\* complete_multipart, of some parts: the double forgets the multipart even if
\* they are wrong.
CompleteMultipart(parts) ==
  LET fits(m) == m.open /\ Has(m, parts)
      reply(m) == IF ~m.open THEN "no such upload" ELSE IF fits(m) THEN "ok" ELSE "invalid parts"
  IN /\ parts # {}
     /\ answer' = Answers(reply(multi), reply(memMulti))
     /\ multi' = IF fits(multi) THEN Closed ELSE multi
     /\ object' = IF fits(multi) THEN parts ELSE object
     /\ memMulti' = Closed
     /\ memObject' = IF fits(memMulti) THEN parts ELSE memObject
     /\ apart' = apart \cup {w \in {"wrong parts"} : multi.open /\ ~fits(multi)}
     /\ UNCHANGED <<listing, puts, Others>>

\* abort_multipart (one that has gone is no error)
AbortMultipart ==
  /\ multi' = Closed /\ memMulti' = Closed /\ answer' = Same("ok")
  /\ UNCHANGED <<object, memObject, listing, puts, Others, apart>>

\* head, open_read and read_prefix find the object, or NotFound; delete is quiet.
HeadObject ==
  /\ answer' = Answers(object, memObject)
  /\ UNCHANGED <<multi, object, memMulti, memObject, listing, puts, Others, apart>>

DeleteObject ==
  /\ object' = {} /\ memObject' = {} /\ answer' = Same("ok")
  /\ UNCHANGED <<multi, memMulti, listing, puts, Others, apart>>

BlobStep ==
  \/ BeginMultipart \/ ListParts \/ ListPage \/ AbortMultipart \/ HeadObject \/ DeleteObject
  \/ \E p \in Parts : UploadPart(p)
  \/ \E parts \in SUBSET (Range(multi.parts) \cup {Part(1, MaxCalls + 1)}) : CompleteMultipart(parts)

PortNext ==
  \/ port = "events" /\ EventStep
  \/ port = "uploads" /\ UploadStep
  \/ port = "blobs" /\ BlobStep

------------------------------------------------------------------------------
\* Two answers that are allowed to differ: a duplicate append is answered with the
\* version of the caller and with that of the stored event; an entry that goes
\* between a refused write and the adapter's second read is Expired to the adapter
\* and was Conflict to the double.
Alike ==
  \/ answer.real = answer.double
  \/ /\ port = "events" /\ answer.real.duplicate /\ answer.double.duplicate
     /\ answer.real.seq = answer.double.seq
  \/ answer.swept /\ answer.real = "expired" /\ answer.double = "conflict"

\* Until the caller does one of the three things the double does not follow
\* (`apart'; what happens from there on is not compared), an adapter and its double
\* answer every call alike, hold the same history per document, the same upload
\* states and the same object, and a listing of parts taken page by page while
\* parts arrive misses none that was there when it began.  After a completion with
\* wrong parts, when the double has forgotten the multipart, it is the stricter one:
\* it has no part to complete an object from that S3 does not have.
PortsAgree ==
  /\ apart = {} =>
       /\ Alike
       /\ \A e \in Ids : LET d == DocOf[e] IN
            LastEvent(log, d) = LastEvent(events, d) /\ Stream(log, d) = Stream(events, d)
       /\ \A u \in Uploads : entry[u].value = stored[u].value
       /\ object = memObject /\ Range(multi.parts) = Range(memMulti.parts)
  /\ apart = {"wrong parts"} /\ memMulti.open =>
       multi.open /\ Range(memMulti.parts) \subseteq Range(multi.parts)
=============================================================================
