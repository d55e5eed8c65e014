---------------------------- MODULE StorageViews ----------------------------
(***************************************************************************)
(* The two implementations of the superseded backend's Storage trait:      *)
(* SurrealStorage, whose queries name no tenant and rely on the engine's   *)
(* PERMISSIONS (old/backend/schema.surql), and SystemStorage, which runs   *)
(* as root and filters by tenant itself.  Each call is made against both,  *)
(* on a database of its own; the retrieval of a chat turn reads the first. *)
(*                                                                         *)
(* A database is [doc, content, chunks]: rows by record id, of tenant 0   *)
(* for no row, and a set of chunk rows.  An embedding is a point on a      *)
(* line.                                                                   *)
(***************************************************************************)
EXTENDS Integers, Sequences, FiniteSets, FiniteSetsExt, SequencesExt, RowOrder

CONSTANTS
  Tenants,
  DocIds,      \* record ids of documents: 1..n
  Titles,      \* titles; 0 is a request without one
  Ordinals,    \* ordinals of chunks: 0..n
  Models,      \* embedding models
  MaxK,        \* the cap on a search's top_k (1000 in the code)
  Queries,     \* the points searched for
  Radius,      \* neighbours retrieved around a hit
  MaxWrites

VARIABLES session, system, writes

viewVars == <<session, system, writes>>

NoDoc == [tenant |-> 0, cid |-> 0, title |-> 0, hash |-> 0]
NoText == [tenant |-> 0, text |-> 0]
Empty == [doc |-> [i \in DocIds |-> NoDoc], content |-> [i \in DocIds |-> NoText],
          chunks |-> {}]

\* FOR select, update, delete WHERE tenant_id = $auth.tenant_id: the engine asks
\* it of a record user's session, and nothing of the root session, which sees
\* every tenant's rows.
Root == 0
Permitted(auth, r) == auth = Root \/ r.tenant = auth

\* SystemStorage's own WHERE tenant_id = $t, under root
Filtered(t, r) == Permitted(Root, r) /\ r.tenant = t

PermittedChunks(db, auth) == {c \in db.chunks : Permitted(auth, c)}

FilteredChunks(db, t) == {c \in PermittedChunks(db, Root) : c.tenant = t}

\* content_without_none: what the request lacks is stripped from the payload, so
\* that MERGE keeps what the row has.
Present(d) == {k \in DOMAIN d : d[k] # 0}

\* The engine fills the tenant in, or it is part of the payload.
DocumentCreate(d) == [k \in Present(d) |-> d[k]]

SystemCreate(t, d) == [k \in {"tenant"} \cup Present(d) |-> IF k = "tenant" THEN t ELSE d[k]]

Merge(r, data) == [k \in DOMAIN r |-> IF k \in DOMAIN data THEN data[k] ELSE r[k]]

\* CREATE: absent fields are NONE, and DEFAULT $auth.tenant_id fills the tenant
\* (with NONE under root).
Created(auth, data) == Merge([NoDoc EXCEPT !.tenant = auth], data)

FreeId(db) == Min({i \in DocIds : db.doc[i] = NoDoc})

----------------------------------------------------------------------------
(* SurrealStorage                                                          *)

SurByCanonical(db, t, cid) == {i \in DocIds : Permitted(t, db.doc[i]) /\ db.doc[i].cid = cid}

SurUpsertDocument(db, t, d) ==
  LET found == IF d.cid = 0 THEN {} ELSE SurByCanonical(db, t, d.cid)
      data  == DocumentCreate(d)
  IN  IF found # {}
      THEN [db EXCEPT !.doc[Min(found)] = Merge(@, data)]
      ELSE [db EXCEPT !.doc[FreeId(db)] = Created(t, data)]

SurGetDocument(db, t, i) == IF Permitted(t, db.doc[i]) THEN db.doc[i] ELSE NoDoc

\* DELETE of the children, then of the row; the first n statements went through.
SurDeleteDocument(db, t, i, n) ==
  [doc |-> IF n = 4 /\ Permitted(t, db.doc[i]) THEN [db.doc EXCEPT ![i] = NoDoc] ELSE db.doc,
   content |-> IF n >= 1 /\ Permitted(t, db.content[i])
               THEN [db.content EXCEPT ![i] = NoText] ELSE db.content,
   chunks |-> IF n >= 2 THEN db.chunks \ {c \in PermittedChunks(db, t) : c.doc = i}
              ELSE db.chunks]

SurUpsertContent(db, t, i, x) ==
  IF Permitted(t, db.content[i]) THEN [db EXCEPT !.content[i].text = x]
  ELSE [db EXCEPT !.content[i] = [tenant |-> t, text |-> x]]

SurGetContent(db, t, i) == IF Permitted(t, db.content[i]) THEN db.content[i].text ELSE 0

SameChunk(c, d) == c.doc = d.doc /\ c.ord = d.ord /\ c.model = d.model

\* The row with the chunk's key is merged into, or one is created.
SurUpsertChunk(db, t, c) ==
  LET old == {d \in PermittedChunks(db, t) : SameChunk(d, c)}
  IN  [db EXCEPT !.chunks = (@ \ old) \cup {[c EXCEPT !.tenant = t]}]

ByOrdinal(c, d) == c.ord < d.ord \/ (c.ord = d.ord /\ c.model < d.model)

SurListChunks(db, t, i) ==
  InOrder({c \in PermittedChunks(db, t) : c.doc = i}, ByOrdinal)

SurDeleteChunks(db, t, i) ==
  [db EXCEPT !.chunks = @ \ {c \in PermittedChunks(db, t) : c.doc = i}]

SurGetChunk(db, t, c) == PermittedChunks(db, t) \cap {c}

SurChunksInRange(db, t, i, lo, hi) ==
  InOrder({c \in PermittedChunks(db, t) : c.doc = i /\ c.ord >= lo /\ c.ord <= hi},
               ByOrdinal)

\* The filters a request sets; a model of 0 is no filter.
FilterClause(c, model) == model = 0 \/ c.model = model

SanitizeTopK(k) == Clamp(k, 1, MaxK)

\* Rows at one distance come in the order of the table.
Distance(c, q) == IF c.at > q THEN c.at - q ELSE q - c.at
Nearer(q, c, d) ==
  \/ Distance(c, q) < Distance(d, q)
  \/ Distance(c, q) = Distance(d, q) /\ (c.doc < d.doc \/ (c.doc = d.doc /\ ByOrdinal(c, d)))

SurSearchVector(db, t, q, k, model) ==
  Limit(InOrder({c \in PermittedChunks(db, t) : FilterClause(c, model)},
                     LAMBDA c, d : Nearer(q, c, d)), SanitizeTopK(k))

\* Full-text search for what the chunks of one position hold; top_k as it is.
SurSearchKeyword(db, t, q, k, model) ==
  Limit(InOrder({c \in PermittedChunks(db, t) : c.at = q /\ FilterClause(c, model)},
                     LAMBDA c, d : Nearer(q, c, d)), k)

----------------------------------------------------------------------------
(* SystemStorage                                                           *)

SysByCanonical(db, t, cid) == {i \in DocIds : Filtered(t, db.doc[i]) /\ db.doc[i].cid = cid}

SysUpsertDocument(db, t, d) ==
  LET found == IF d.cid = 0 THEN {} ELSE SysByCanonical(db, t, d.cid)
      data  == SystemCreate(t, d)
  IN  IF found # {}
      THEN [db EXCEPT !.doc[Min(found)] = Merge(@, data)]
      ELSE [db EXCEPT !.doc[FreeId(db)] = Created(Root, data)]

SysGetDocument(db, t, i) == IF Filtered(t, db.doc[i]) THEN db.doc[i] ELSE NoDoc

SysDeleteDocument(db, t, i, n) ==
  [doc |-> IF n = 4 /\ Filtered(t, db.doc[i]) THEN [db.doc EXCEPT ![i] = NoDoc] ELSE db.doc,
   content |-> IF n >= 1 /\ Filtered(t, db.content[i])
               THEN [db.content EXCEPT ![i] = NoText] ELSE db.content,
   chunks |-> IF n >= 2 THEN db.chunks \ {c \in FilteredChunks(db, t) : c.doc = i}
              ELSE db.chunks]

SysUpsertContent(db, t, i, x) ==
  IF Filtered(t, db.content[i])
  THEN [db EXCEPT !.content[i] = Merge(@, [tenant |-> t, text |-> x])]
  ELSE [db EXCEPT !.content[i] = [tenant |-> t, text |-> x]]

SysGetContent(db, t, i) == IF Filtered(t, db.content[i]) THEN db.content[i].text ELSE 0

SysUpsertChunk(db, t, c) ==
  LET old == {d \in FilteredChunks(db, t) : SameChunk(d, c)}
  IN  [db EXCEPT !.chunks = (@ \ old) \cup {[c EXCEPT !.tenant = t]}]

SysListChunks(db, t, i) ==
  InOrder({c \in FilteredChunks(db, t) : c.doc = i}, ByOrdinal)

SysDeleteChunks(db, t, i) ==
  [db EXCEPT !.chunks = @ \ {c \in FilteredChunks(db, t) : c.doc = i}]

SysGetChunk(db, t, c) == FilteredChunks(db, t) \cap {c}

SysChunksInRange(db, t, i, lo, hi) ==
  InOrder({c \in FilteredChunks(db, t) : c.doc = i /\ c.ord >= lo /\ c.ord <= hi},
               ByOrdinal)

SysSearchVector(db, t, q, k, model) ==
  Limit(InOrder({c \in FilteredChunks(db, t) : model # 0 => c.model = model},
                     LAMBDA c, d : Nearer(q, c, d)),
        Clamp(k, 1, MaxK))

SysSearchKeyword(db, t, q, k, model) ==
  Limit(InOrder({c \in FilteredChunks(db, t) : c.at = q /\ (model # 0 => c.model = model)},
                     LAMBDA c, d : Nearer(q, c, d)), k)

\* SystemDb::wipe for the admin: table by table, of one tenant or of all (0); the
\* first n statements went through.
Wipe(db, t, n) ==
  LET gone(r) == t = 0 \/ Filtered(t, r)
  IN  [chunks |-> IF n >= 1 THEN {c \in db.chunks : ~gone(c)} ELSE db.chunks,
       content |-> [i \in DocIds |-> IF n >= 2 /\ gone(db.content[i]) THEN NoText
                                     ELSE db.content[i]],
       doc |-> [i \in DocIds |-> IF n = 4 /\ gone(db.doc[i]) THEN NoDoc ELSE db.doc[i]]]

\* SystemDb::counts, and the same counted through the session.
Counts(db, t) ==
  <<Cardinality({i \in DocIds : Filtered(t, db.doc[i])}),
    Cardinality({i \in DocIds : Filtered(t, db.content[i])}),
    Cardinality(FilteredChunks(db, t))>>

----------------------------------------------------------------------------
(* The retrieval of a turn                                                 *)

\* Mutant: a chunk the windows of two hits share is taken twice.
WindowTwice(out, w) == out \o w

\* What the windows before have not brought yet.
Window(out, w) == out \o SelectSeq(w, LAMBDA c : c \notin Range(out))

\* retrieve_for_query: each hit with its neighbours, each chunk once; a window
\* whose read fails (those of the hits in lost) is taken for an empty one.
Retrieve(t, q, k, model, lost) ==
  LET hits == SurSearchVector(session, t, q, Max({k, 1}), model)
      win(c) == IF c \in lost THEN <<>>
                ELSE SurChunksInRange(session, t, c.doc, Max({c.ord - Radius, 0}), c.ord + Radius)
  IN  FoldLeft(LAMBDA out, c : Window(out, win(c)), <<>>, hits)

\* GET /api/chunks/:id: the document whose page a citation opens, or 0 (404).
GetChunk(t, c) ==
  IF SurGetChunk(session, t, c) = {} THEN 0 ELSE c.doc

----------------------------------------------------------------------------
(* The calls                                                               *)

\* A document's chunks up to ordinal n, embedded by m.
ChunksOf(i, n, m) ==
  [o \in 1..(n + 1) |-> [tenant |-> 0, doc |-> i, ord |-> o - 1, model |-> m, at |-> o - m + i]]

\* Nothing, or one tenant's document with its text and chunks.
ViewsInit ==
  /\ \/ session = Empty /\ system = Empty
     \/ \E t \in Tenants :
          LET d  == [cid |-> 1, title |-> 1, hash |-> 1]
              cs == ChunksOf(1, Max(Ordinals), Min(Models))
          IN  /\ session = FoldLeft(LAMBDA db, c : SurUpsertChunk(db, t, c),
                            SurUpsertContent(SurUpsertDocument(Empty, t, d), t, 1, 1), cs)
              /\ system = FoldLeft(LAMBDA db, c : SysUpsertChunk(db, t, c),
                            SysUpsertContent(SysUpsertDocument(Empty, t, d), t, 1, 1), cs)
  /\ writes = 0

Writes == writes < MaxWrites /\ writes' = writes + 1

UpsertDocument(t) ==
  /\ Writes
  /\ \E i \in DocIds : session.doc[i] = NoDoc
  /\ \E cid \in {0, 1}, title \in Titles :
       LET d == [cid |-> cid, title |-> title, hash |-> 1]
       IN  /\ session' = SurUpsertDocument(session, t, d)
           /\ system' = SysUpsertDocument(system, t, d)

\* Text and chunks are written for a document the caller has just upserted.
UpsertContent(t, i) ==
  /\ Writes
  /\ SurGetDocument(session, t, i) # NoDoc
  /\ session' = SurUpsertContent(session, t, i, writes + 1)
  /\ system' = SysUpsertContent(system, t, i, writes + 1)

UpsertChunks(t, i) ==
  /\ Writes
  /\ SurGetDocument(session, t, i) # NoDoc
  /\ \E n \in Ordinals, m \in Models :
       LET cs == ChunksOf(i, n, m)
       IN  /\ session' = FoldLeft(LAMBDA db, c : SurUpsertChunk(db, t, c), session, cs)
           /\ system' = FoldLeft(LAMBDA db, c : SysUpsertChunk(db, t, c), system, cs)

DeleteDocument(t, i) ==
  /\ Writes
  /\ \E n \in 1..4 :
       /\ session' = SurDeleteDocument(session, t, i, n)
       /\ system' = SysDeleteDocument(system, t, i, n)

DeleteChunks(t, i) ==
  /\ Writes
  /\ session' = SurDeleteChunks(session, t, i)
  /\ system' = SysDeleteChunks(system, t, i)

WipeTables ==
  /\ Writes
  /\ \E t \in Tenants \cup {0}, n \in 1..4 :
       session' = Wipe(session, t, n) /\ system' = Wipe(system, t, n)

ViewsNext ==
  \/ \E t \in Tenants : UpsertDocument(t)
  \/ \E t \in Tenants, i \in DocIds :
       UpsertContent(t, i) \/ UpsertChunks(t, i) \/ DeleteDocument(t, i) \/ DeleteChunks(t, i)
  \/ WipeTables

ViewsSpec == ViewsInit /\ [][ViewsNext]_viewVars

----------------------------------------------------------------------------
\* Filtering by hand is what the engine's PERMISSIONS do: after the same calls
\* of several tenants, with deletes that broke off half way and ids of other
\* tenants' documents among the arguments, both implementations hold the same
\* rows and answer every read alike.
ViewsAgree ==
  /\ session = system
  /\ \A t \in Tenants :
       /\ \A i \in DocIds :
            /\ SurGetDocument(session, t, i) = SysGetDocument(system, t, i)
            /\ SurGetContent(session, t, i) = SysGetContent(system, t, i)
            /\ SurListChunks(session, t, i) = SysListChunks(system, t, i)
            /\ \A c \in session.chunks : SurGetChunk(session, t, c) = SysGetChunk(system, t, c)
            /\ \A lo, hi \in Ordinals :
                 SurChunksInRange(session, t, i, lo, hi) = SysChunksInRange(system, t, i, lo, hi)
       /\ \A q \in Queries, k \in {0, MaxK, MaxK + 1}, m \in Models \cup {0} :
            /\ SurSearchVector(session, t, q, k, m) = SysSearchVector(system, t, q, k, m)
            /\ SurSearchKeyword(session, t, q, k, m) = SysSearchKeyword(system, t, q, k, m)
       /\ Counts(system, t) = <<Cardinality({i \in DocIds : SurGetDocument(session, t, i) # NoDoc}),
                                Cardinality({i \in DocIds : SurGetContent(session, t, i) # 0}),
                                Cardinality(PermittedChunks(session, t))>>

\* What a turn is grounded in: every chunk the search hit is retrieved unless
\* its window could not be read, with the neighbours the radius names and nothing
\* else, no chunk twice although windows overlap, and no chunk of another tenant
\* (retrieve_for_query); and each opens the document it was cut from when a
\* reader follows the citation (get_chunk).
RetrievedOnce ==
  \A t \in Tenants, q \in Queries, k \in 1..MaxK, m \in Models :
    LET hits == Range(SurSearchVector(session, t, q, Max({k, 1}), m))
    IN  \A lost \in {{}} \cup {{h} : h \in hits} :
          LET out == Retrieve(t, q, k, m, lost)
          IN  /\ Cardinality(Range(out)) = Len(out)
              /\ hits \ lost \subseteq Range(out)
              /\ \A c \in Range(out) :
                   /\ c.tenant = t /\ GetChunk(t, c) = c.doc
                   /\ \E h \in hits \ lost : c.doc = h.doc /\ c.ord - h.ord \in -Radius..Radius

=============================================================================
