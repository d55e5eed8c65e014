---------------------------- MODULE RequestPool ----------------------------
(***************************************************************************)
(* How a request of the superseded backend gets its database session: the  *)
(* identity middleware (old/backend/src/auth/middleware.rs), the bounded   *)
(* pool of connections (storage/request.rs) and the first-request          *)
(* provisioning of tenant, user and membership (auth/bootstrap.rs).        *)
(* Every await is a step.                                                  *)
(***************************************************************************)
EXTENDS Integers, Sequences, FiniteSets

CONSTANTS
  Conns,        \* the pool's connections
  UserOf,       \* request -> the user its token names
  Known,        \* users provisioned before
  MaxFaults     \* failed calls and dropped requests

VARIABLES
  pool,         \* the channel of idle connections
  session,      \* connection -> the user it is authenticated as, or "none"
  req,          \* request -> its progress
  drops,        \* connections on their way back: [conn, cleared]
  tenants, users, members,  \* rows, named by the user they were made for
  faults

poolVars == <<pool, session, req, drops, tenants, users, members, faults>>

Requests == DOMAIN UserOf
None == "none"
\* collided: its CREATE was rolled back by the commit of another
NewRequest ==
  [pc |-> "acquire", conn |-> None, warm |-> TRUE, answer |-> 0, collided |-> FALSE]

PoolInit ==
  /\ pool \in {s \in [1..Cardinality(Conns) -> Conns] :
                 \A i, j \in DOMAIN s : s[i] = s[j] => i = j}
  /\ session = [c \in Conns |-> None]
  /\ req = [r \in Requests |-> NewRequest]
  /\ drops = {}
  /\ tenants = Known /\ users = Known /\ members = Known
  /\ faults = 0

Fault == faults < MaxFaults /\ faults' = faults + 1
At(r, pc) == req[r].pc = pc
Goto(r, pc) == req' = [req EXCEPT ![r].pc = pc]

\* The middleware answers by itself, or hands over to the handler.
Answer(r, status) ==
  req' = [req EXCEPT ![r].pc = "done", ![r].answer = status, ![r].conn = None]

----------------------------------------------------------------------------
(* RequestDbPool::acquire                                                  *)

\* recv: waits while the pool is empty
Receive(r) ==
  /\ At(r, "acquire") /\ pool # <<>>
  /\ pool' = Tail(pool)
  /\ req' = [req EXCEPT ![r].pc = "authenticate", ![r].conn = Head(pool)]
  /\ UNCHANGED <<session, drops, tenants, users, members, faults>>

\* db.authenticate resolves the token's user and tenant
Resolves(u) == u \in users

\* is_unknown_user: the one failure that is answered by provisioning
Unknown(r) == ~Resolves(UserOf[r])

\* On an error the connection goes straight back, its session as it was; an
\* unknown user is provisioned, on the first try only.
Authenticate(r) ==
  LET c == req[r].conn IN
  /\ At(r, "authenticate")
  /\ \/ /\ Resolves(UserOf[r])
        /\ session' = [session EXCEPT ![c] = UserOf[r]]
        /\ Goto(r, IF req[r].warm THEN "resolve" ELSE "serve")
        /\ UNCHANGED <<pool, faults>>
     \/ /\ Unknown(r)
        /\ pool' = Append(pool, c)
        /\ IF req[r].warm
             THEN req' = [req EXCEPT ![r].pc = "tenant", ![r].conn = None, ![r].warm = FALSE]
             ELSE Answer(r, 401)
        /\ UNCHANGED <<session, faults>>
     \/ Fault /\ pool' = Append(pool, c) /\ Answer(r, 401) /\ UNCHANGED session
  /\ UNCHANGED <<drops, tenants, users, members>>

\* Drop for AuthedDb: a task of its own takes the connection back.
DropDb(c) == drops' = drops \cup {[conn |-> c, cleared |-> FALSE]}

\* resolve_auth reads $auth; a failure is answered 500.
ResolveAuth(r) ==
  /\ At(r, "resolve")
  /\ \/ Goto(r, "serve") /\ UNCHANGED <<drops, faults>>
     \/ Fault /\ Answer(r, 500) /\ DropDb(req[r].conn)
  /\ UNCHANGED <<pool, session, tenants, users, members>>

\* Mutant: the connection is back in the pool before its logout has run.
ServeReturns(r) ==
  /\ At(r, "serve")
  /\ Answer(r, 200) /\ DropDb(req[r].conn)
  /\ pool' = Append(pool, req[r].conn)
  /\ UNCHANGED <<session, tenants, users, members, faults>>

\* The handler runs its queries and returns.
Serve(r) ==
  /\ At(r, "serve")
  /\ Answer(r, 200) /\ DropDb(req[r].conn)
  /\ UNCHANGED <<pool, session, tenants, users, members, faults>>

\* invalidate, whose failure is ignored, and then the way back to the pool
Invalidate(d) ==
  /\ d \in drops /\ ~d.cleared
  /\ drops' = (drops \ {d}) \cup {[d EXCEPT !.cleared = TRUE]}
  /\ \/ session' = [session EXCEPT ![d.conn] = None] /\ UNCHANGED faults
     \/ Fault /\ UNCHANGED session
  /\ UNCHANGED <<pool, req, tenants, users, members>>

Return(d) ==
  /\ d \in drops /\ d.cleared
  /\ drops' = drops \ {d}
  /\ pool' = Append(pool, d.conn)
  /\ UNCHANGED <<session, req, tenants, users, members, faults>>

----------------------------------------------------------------------------
(* bootstrap::ensure_user: SELECT, then CREATE under a UNIQUE index, and a *)
(* second SELECT for the one who comes second                              *)

\* Two CREATEs whose transactions overlap: the database rolls the later one back
\* with "read or write conflict" (as surreal.rs::is_transient_conflict describes
\* it), which is_index_exists does not recognise.  One that starts after the other
\* has committed is refused by the index instead.
Collides(r) ==
  req' = [req EXCEPT ![r].pc = "done", ![r].answer = 500, ![r].collided = TRUE]

\* Mutant: a CREATE that meets the UNIQUE index is an error like any other.
UpsertOnce(r, rows, here, next) ==
  \/ At(r, here) /\ Goto(r, IF UserOf[r] \in rows THEN next ELSE here \o "-create")
     /\ rows' = rows /\ UNCHANGED faults
  \/ At(r, here \o "-create") /\ UserOf[r] \notin rows
     /\ rows' = rows \cup {UserOf[r]} /\ Goto(r, next) /\ UNCHANGED faults
  \/ At(r, here \o "-create") /\ UserOf[r] \in rows
     /\ (Answer(r, 500) \/ Collides(r)) /\ rows' = rows /\ UNCHANGED faults

Upsert(r, rows, here, next) ==
  \/ At(r, here) /\ Goto(r, IF UserOf[r] \in rows THEN next ELSE here \o "-create")
     /\ rows' = rows /\ UNCHANGED faults
  \/ At(r, here \o "-create") /\ UserOf[r] \notin rows
     /\ rows' = rows \cup {UserOf[r]} /\ Goto(r, next) /\ UNCHANGED faults
  \/ At(r, here \o "-create") /\ UserOf[r] \in rows
     /\ (Goto(r, here) \/ Collides(r)) /\ rows' = rows /\ UNCHANGED faults

UpsertTenant(r) == Upsert(r, tenants, "tenant", "user") /\ UNCHANGED <<users, members>>
UpsertUser(r) == Upsert(r, users, "user", "member") /\ UNCHANGED <<tenants, members>>
UpsertMembership(r) == Upsert(r, members, "member", "acquire") /\ UNCHANGED <<tenants, users>>

EnsureUser(r) == UpsertTenant(r) \/ UpsertUser(r) \/ UpsertMembership(r)

Provision(r) ==
  EnsureUser(r) /\ UNCHANGED <<pool, session, drops>>

Provisioning(r) ==
  req[r].pc \in {"tenant", "tenant-create", "user", "user-create", "member",
                 "member-create"}

ProvisionFails(r) ==
  /\ Provisioning(r) /\ Fault
  /\ Answer(r, 500)
  /\ UNCHANGED <<pool, session, drops, tenants, users, members>>

\* The client goes away and the request is dropped at its await: a served
\* connection goes back through Drop, one that is still being authenticated is
\* closed with the future that held it.
Hangup(r) ==
  /\ ~At(r, "done") /\ Fault
  /\ Answer(r, 499)
  /\ IF req[r].pc \in {"resolve", "serve"} THEN DropDb(req[r].conn) ELSE UNCHANGED drops
  /\ UNCHANGED <<pool, session, tenants, users, members>>

PoolNext ==
  \/ \E r \in Requests : Receive(r) \/ Authenticate(r) \/ ResolveAuth(r) \/ Serve(r)
                         \/ Provision(r) \/ ProvisionFails(r) \/ Hangup(r)
  \/ \E d \in drops : Invalidate(d) \/ Return(d)

PoolSpec == PoolInit /\ [][PoolNext]_poolVars

----------------------------------------------------------------------------
\* A handler's queries run as the user of its request: from authenticate to the
\* end of the handler no other request holds the same connection, and the
\* background logout of an earlier request cannot strike its session.
SessionIsOwn ==
  \A r \in Requests :
    req[r].pc \in {"resolve", "serve"} =>
      /\ session[req[r].conn] = UserOf[r]
      /\ \A q \in Requests \ {r} : req[q].conn # req[r].conn
      /\ \A d \in drops : d.conn # req[r].conn
      /\ \A i \in DOMAIN pool : pool[i] # req[r].conn

\* While no call fails and nobody hangs up, the race of one user's first requests
\* turns away only those whose CREATE the database rolled back under a concurrent
\* one (they get a 500, bootstrap.rs recognises the index's refusal only), and
\* never all of them: a collision has a winner, who goes on to be served.
RacersAreServed ==
  faults = 0 =>
    /\ \A r \in Requests : At(r, "done") => req[r].answer = 200 \/ req[r].collided
    /\ \A r \in Requests : \E q \in Requests :
         UserOf[q] = UserOf[r] /\ (At(q, "done") => req[q].answer = 200)

=============================================================================
