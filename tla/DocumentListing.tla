-------------------------- MODULE DocumentListing --------------------------
(***************************************************************************)
(* Two listings that are paged by key while their rows change: the         *)
(* documents of a tenant, newest change first (GET /api/documents), and    *)
(* the discovery feed of the superseded backend, newest arrival first      *)
(* (old/backend/src/api/discovery.rs).  A client walks from the first page *)
(* to the end, each time with the cursor of the page before.               *)
(*                                                                         *)
(* Time is counted in Grain-ths of a microsecond.                          *)
(***************************************************************************)
EXTENDS Integers, Sequences, FiniteSets, SequencesExt, RowOrder

CONSTANTS
  Docs,        \* document ids: 1..n
  Tenants,
  MaxTime,
  Grain,       \* clock ticks in a microsecond
  MaxLimit,    \* the most rows a page has (MAX_LIST_LIMIT, MAX_LIMIT)
  MaxChanges

VARIABLES
  kind,        \* which listing: "documents" or "feed"
  table,       \* its rows: [tenant, id, at], and ts, the time the event carries
  clock,       \* the database's clock
  walk,        \* the client's walk
  changes

listVars == <<kind, table, clock, walk, changes>>

None == [at |-> 0, id |-> 0]     \* no cursor

Me == CHOOSE t \in Tenants : TRUE

\* timestamptz keeps microseconds.
Timestamptz(t) == (t \div Grain) * Grain

Row(t, d, ts) == [tenant |-> t, id |-> d, at |-> Timestamptz(ts), ts |-> ts]

NewWalk == [after |-> None, listed |-> <<>>, over |-> FALSE,
            kept |-> {r \in table : r.tenant = Me}]

ListingInit ==
  /\ kind \in {"documents", "feed"}
  /\ \E at \in [Docs -> {0, Grain, 2 * Grain}] :
       table = {Row(Me, d, at[d]) : d \in {d \in Docs : at[d] # 0}}
               \cup {Row(t, 1, Grain) : t \in Tenants \ {Me}}
  /\ clock = 2 * Grain
  /\ walk = NewWalk
  /\ changes = 0

----------------------------------------------------------------------------
(* Rows                                                                    *)

Changes == changes < MaxChanges /\ changes' = changes + 1

RowOf(t, d) == {r \in table : r.tenant = t /\ r.id = d}

\* An event is folded: updated_at is the event's own time, whatever came before.
Fold(t, d) ==
  /\ kind = "documents" /\ Changes
  /\ \E ts \in Grain..MaxTime :
       table' = (table \ RowOf(t, d)) \cup {Row(t, d, ts)}
  /\ walk' = [walk EXCEPT !.kept = @ \ RowOf(t, d)]
  /\ UNCHANGED <<kind, clock>>

\* A document is ingested: ingested_at is the database's time of creation, and
\* an update of the row leaves it as it is.
Ingest(t, d) ==
  /\ kind = "feed" /\ Changes
  /\ RowOf(t, d) = {}
  /\ table' = table \cup {[tenant |-> t, id |-> d, at |-> clock, ts |-> clock]}
  /\ UNCHANGED <<kind, clock, walk>>

Tick ==
  /\ kind = "feed" /\ clock < MaxTime
  /\ clock' = clock + 1
  /\ UNCHANGED <<kind, table, walk, changes>>

----------------------------------------------------------------------------
(* One page                                                                *)

\* ORDER BY at DESC, id DESC
Newer(r, s) == r.at > s.at \/ (r.at = s.at /\ r.id > s.id)

\* (at, id) < (cursor.at, cursor.id), or no cursor
After(c, r) == c = None \/ Newer(c, r)

PgList(t, limit, c) ==
  Limit(InOrder({r \in table : r.tenant = t /\ After(c, r)}, Newer), limit)

PgGet(t, d) == {r \in table : r.tenant = t /\ r.id = d}

\* MemoryReadModel: a map by (tenant, id), filtered twice, sorted, truncated; its
\* documents have the event's own time, to the last digit.
Documents == [k \in {<<r.tenant, r.id>> : r \in table} |-> CHOOSE r \in table :
                r.tenant = k[1] /\ r.id = k[2]]

MemList(t, limit, c) ==
  LET mine == {Documents[k] : k \in {k \in DOMAIN Documents : Documents[k].tenant = t}}
      page == {r \in mine : c = None \/ r.ts < c.at \/ (r.ts = c.at /\ r.id < c.id)}
  IN  Limit(InOrder(page, LAMBDA r, s : -r.ts < -s.ts \/ (r.ts = s.ts /\ -r.id < -s.id)),
            limit)

MemGet(t, d) == IF <<t, d>> \in DOMAIN Documents THEN {Documents[<<t, d>>]} ELSE {}

\* What a session may select: PERMISSIONS hold a user to the tenant, and no
\* system user.
Root == 0
Permitted(auth, r) == auth = Root \/ r.tenant = auth

\* list_feed of a user's session names no tenant, that of the system does.
SurListFeed(t, c, limit) ==
  Limit(InOrder({r \in table : Permitted(t, r) /\ After(c, r)}, Newer), limit)

SysListFeed(t, c, limit) ==
  Limit(InOrder({r \in table : Permitted(Root, r) /\ r.tenant = t /\ After(c, r)}, Newer), limit)

\* hex(<micros>:<document_id>) and back
DocumentCursor(r) == [at |-> Timestamptz(r.at), id |-> r.id]

\* Mutant: the microseconds of the time only.
FeedCursorMicros(r) == [at |-> Timestamptz(r.at), id |-> r.id]

\* RFC 3339 with all of the fraction, and the record key
FeedCursor(r) == [at |-> r.at, id |-> r.id]

Cursor(r) == IF kind = "documents" THEN DocumentCursor(r) ELSE FeedCursor(r)

\* DocumentService::list_documents
ListDocuments(t, n, c) ==
  LET limit == Clamp(n, 1, MaxLimit)
      items == PgList(t, limit, c)
  IN  [items |-> items,
       next |-> IF Len(items) = limit THEN Cursor(Last(items)) ELSE None]

\* discovery::feed
Feed(t, n, c) ==
  LET limit == Clamp(n, 1, MaxLimit)
      items == SurListFeed(t, c, limit)
  IN  [items |-> items,
       next |-> IF Len(items) = limit THEN Cursor(Last(items)) ELSE None]

\* The client asks for the next n rows; without a next there is no more to ask.
NextPage(n) ==
  LET page == IF kind = "documents" THEN ListDocuments(Me, n, walk.after)
                                    ELSE Feed(Me, n, walk.after)
  IN  /\ ~walk.over
      /\ walk' = [walk EXCEPT !.listed = @ \o page.items, !.after = page.next,
                              !.over = page.next = None]
      /\ UNCHANGED <<kind, table, clock, changes>>

ListingNext ==
  \/ \E t \in Tenants, d \in Docs : Fold(t, d) \/ Ingest(t, d)
  \/ Tick
  \/ \E n \in 0..(MaxLimit + 1) : NextPage(n)

ListingSpec == ListingInit /\ [][ListingNext]_listVars

----------------------------------------------------------------------------
\* A walk lists a document that was there when it began, and that no event has
\* touched since, exactly once by its end and never twice before it, whatever
\* is created or changed meanwhile, ties on the timestamp and changing page
\* sizes included; and it lists no other tenant's.
PagesAreWhole ==
  /\ \A r \in walk.kept :
       LET times == Cardinality({n \in DOMAIN walk.listed : walk.listed[n] = r})
       IN  IF walk.over THEN times = 1 ELSE times <= 1
  /\ \A n \in DOMAIN walk.listed : walk.listed[n].tenant = Me

\* Documents that share a microsecond have no finer fraction: the times of the
\* tests' fixtures are whole seconds.
WholeTimes == \A r, s \in table : r # s /\ r.tenant = s.tenant /\ r.at = s.at => r.ts = r.at

\* The double lists what Postgres does, page by page, whatever documents share a
\* time, and gets the same documents; the two feeds of the superseded backend are
\* one.  Documents with different times within one microsecond are outside: the
\* double keeps the fraction that timestamptz and the cursor drop.
ListingsAgree ==
  \A t \in Tenants :
    /\ \A d \in Docs : PgGet(t, d) = MemGet(t, d)
    /\ \A n \in 1..MaxLimit, c \in {None} \cup {Cursor(r) : r \in {r \in table : r.tenant = t}} :
         /\ WholeTimes => PgList(t, n, c) = MemList(t, n, c)
         /\ SurListFeed(t, c, n) = SysListFeed(t, c, n)

=============================================================================
