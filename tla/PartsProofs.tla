----------------------------- MODULE PartsProofs ----------------------------
(***************************************************************************)
(* What two of the parts of MCParts guarantee, for all their constants.    *)
(*                                                                         *)
(* ServiceToken: TokenIsLive, for every refresh head, timeout, set of      *)
(* lifetimes and bound on the clock.                                       *)
(*                                                                         *)
(* LockBucket: CallsAreAtomic for any number of clients, turns and         *)
(* attempts: the calls over the KV bucket implement LockContract, in which *)
(* each is one step.                                                       *)
(***************************************************************************)
EXTENDS LockBucket, ServiceToken, TLAPS

USE ZenonT(30)

(***************************************************************************)
(* ServiceToken                                                            *)
(***************************************************************************)

\* A request in flight was sent less than the timeout ago and its token issued
\* since; a cached token with a lifetime the code counts on is due for refresh, or
\* will be before it expires.
CountedOn(t) == t.ttl >= (IF t.stated THEN RefreshHead ELSE DefaultTtl)

TokenInv ==
  /\ now \in Int
  /\ token.exp \in Int /\ token.refresh \in Int /\ token.ttl \in Int
  /\ token.stated \in BOOLEAN /\ given.stated \in BOOLEAN
  /\ given.exp \in Int /\ given.at \in Int /\ given.ttl \in Int
  /\ fetch \in [sent : Int, issued : Int, ttl : Int, stated : BOOLEAN]
  /\ InFlight =>
       /\ fetch.sent <= fetch.issued /\ fetch.issued <= now
       /\ now - fetch.sent < Timeout
  /\ CountedOn(token) => token.refresh <= now \/ token.refresh <= token.exp
  /\ TokenIsLive

\* fresh_token takes one step, or time passes.
LEMMA TokenStep ==
  ASSUME Timeout \in Nat \ {0}, RefreshHead \in Nat, Timeout <= RefreshHead,
         DefaultTtl \in Nat, RefreshHead <= DefaultTtl,
         Ttls \subseteq Nat, MaxTime \in Nat,
         TokenInv, [TokenNext]_tokenVars
  PROVE  TokenInv'
<1>1. CASE Hit
  BY SMT, <1>1 DEF Hit, TokenInv, TokenIsLive, CountedOn, InFlight, NoFetch
<1>2. CASE Request
  BY SMT, <1>2 DEF Request, TokenInv, TokenIsLive, CountedOn, InFlight, NoFetch
<1>3. CASE Tick
  <2>1. fetch' # NoFetch => InFlight
    BY <1>3 DEF Tick, InFlight
  <2>2. now' = now + 1 /\ UNCHANGED <<token, given>>
    BY <1>3 DEF Tick
  <2>3. fetch' \in [sent : Int, issued : Int, ttl : Int, stated : BOOLEAN]
    BY SMT, <1>3 DEF Tick, TokenInv
  <2>4. fetch' = fetch \/ (fetch'.sent = fetch.sent /\ fetch'.issued = now + 1)
    BY <1>3 DEF Tick, TokenInv
  <2>5. ASSUME fetch' # NoFetch
        PROVE  /\ fetch'.sent <= fetch'.issued /\ fetch'.issued <= now'
               /\ now' - fetch'.sent < Timeout
    BY SMT, <1>3, <2>1, <2>3, <2>4, <2>5 DEF Tick, TokenInv
  <2> QED
    BY SMT, <2>2, <2>3, <2>5 DEF TokenInv, TokenIsLive, CountedOn, InFlight
<1>4. CASE Arrive
  <2> DEFINE life == Lifetime(ExpiresIn)
  <2>1. /\ now' = now /\ fetch' = NoFetch
        /\ token'.exp = fetch.issued + fetch.ttl /\ token'.refresh = now + life
        /\ token'.ttl = fetch.ttl /\ token'.stated = fetch.stated
        /\ given'.exp = fetch.issued + fetch.ttl /\ given'.at = now /\ given'.ttl = fetch.ttl
        /\ given'.stated = fetch.stated
    BY <1>4 DEF Arrive
  <2>2. /\ fetch.issued \in Int /\ fetch.ttl \in Int /\ now \in Int
        /\ now - fetch.issued < RefreshHead
    BY SMT, <1>4 DEF Arrive, TokenInv
  <2>3. /\ life \in Int /\ fetch.stated \in BOOLEAN
        /\ CountedOn(fetch) => life <= fetch.ttl - RefreshHead
    BY SMT, <1>4, <2>2 DEF Lifetime, ExpiresIn, CountedOn, TokenInv
  <2> HIDE DEF life
  <2> QED
    BY SMT, <2>1, <2>2, <2>3 DEF TokenInv, TokenIsLive, CountedOn, InFlight, NoFetch
<1>5. CASE FetchFails
  BY SMT, <1>5 DEF FetchFails, TokenInv, TokenIsLive, CountedOn, InFlight, NoFetch
<1>6. CASE UNCHANGED tokenVars
  BY <1>6 DEF tokenVars, TokenInv, TokenIsLive, CountedOn, InFlight
<1> QED
  BY <1>1, <1>2, <1>3, <1>4, <1>5, <1>6 DEF TokenNext

\* service_identity.rs: as long as the refresh head is no shorter than the HTTP
\* client's timeout, and the lifetime assumed without an expires_in no shorter than
\* the head, no token fresh_token hands out has expired, however long the endpoint's
\* answers take and whatever it grants, down to the head, or to the assumed lifetime
\* when it states none.
THEOREM HandedOutTokensAreLive ==
  ASSUME Timeout \in Nat \ {0}, RefreshHead \in Nat, Timeout <= RefreshHead,
         DefaultTtl \in Nat, RefreshHead <= DefaultTtl,
         Ttls \subseteq Nat, MaxTime \in Nat
  PROVE  TokenSpec => []TokenIsLive
<1>1. TokenInit => TokenInv
  BY SMT DEF TokenInit, TokenInv, TokenIsLive, CountedOn, NoToken, NoFetch, InFlight
<1>2. TokenInv /\ [TokenNext]_tokenVars => TokenInv'
  BY TokenStep
<1>3. TokenInv => TokenIsLive
  BY DEF TokenInv
<1> QED
  BY <1>1, <1>2, <1>3, PTL DEF TokenSpec

-----------------------------------------------------------------------------
(***************************************************************************)
(* LockBucket                                                              *)
(***************************************************************************)

Locks == [turn : Turns \cup {None},
          state : {"absent", "requested", "running"} \cup Outcomes,
          worker : Clients \cup {None},
          stop : BOOLEAN, published : BOOLEAN, fresh : BOOLEAN]
Answers == {"none", "ok", "inflight", "nothing", "payload"}
Calls(c) == [op : Contract!Ops(c) \cup {Contract!NoOp}, answer : Answers, held : BOOLEAN]
Places == [pc : {"rest", "read", "create", "update", "purge"}, next : Locks,
           current : BOOLEAN, tries : Nat]

\* Which calls stand where; only the purge of an expired entry outlives its
\* call, and the lease counts as held for every call during which it holds.
PlaceInv(c) ==
  /\ call[c] \in Calls(c) /\ at[c] \in Places
  /\ call[c].held => Op(c) # Contract!NoOp
  /\ Op(c) # Contract!NoOp /\ lock.fresh => call[c].held
  /\ at[c].pc = "rest" => Op(c) = Contract!NoOp
  /\ Op(c) = Contract!NoOp => at[c].pc \in {"rest", "purge"}
  /\ at[c].pc = "create" => Op(c).op = "acquire"
  /\ at[c].pc = "update" => Op(c).op \in {"claim", "terminal", "published", "stop", "renew"}
  /\ at[c].pc = "purge" => Op(c).op \in {"none", "acquire", "release"}

\* A write at the last revision still finds what its call read, but for the
\* lease, and writes what the contract's call would.
Claims(c) ==
  Op(c).op = "claim" =>
    /\ Mine(c) /\ ~Terminal(lock) /\ call[c].held
    /\ lock.state = "running" => lock.worker = c
    /\ [at[c].next EXCEPT !.fresh = TRUE]
         = [lock EXCEPT !.state = "running", !.worker = c, !.fresh = TRUE]
Ends(c) ==
  Op(c).op = "terminal" =>
    /\ Mine(c) /\ Op(c).worker \in {None, lock.worker}
    /\ [at[c].next EXCEPT !.fresh = TRUE]
         = [lock EXCEPT !.state = Op(c).state, !.published = FALSE, !.fresh = TRUE]
Publishes(c) ==
  Op(c).op = "published" =>
    /\ Mine(c) /\ Terminal(lock)
    /\ [at[c].next EXCEPT !.fresh = lock.fresh] = [lock EXCEPT !.published = TRUE]
Stops(c) ==
  Op(c).op = "stop" =>
    /\ Present /\ call[c].held
    /\ [at[c].next EXCEPT !.fresh = lock.fresh] = [lock EXCEPT !.stop = TRUE]
Renews(c) ==
  Op(c).op = "renew" =>
    /\ Mine(c) /\ lock.worker = c /\ call[c].held
    /\ [at[c].next EXCEPT !.fresh = TRUE] = [lock EXCEPT !.fresh = TRUE]
Updates(c) == Claims(c) /\ Ends(c) /\ Publishes(c) /\ Stops(c) /\ Renews(c)
Purges(c) == Present /\ IF Op(c).op = "release" THEN Mine(c) ELSE ~lock.fresh

ClientInv(c) ==
  /\ PlaceInv(c)
  /\ at[c].current /\ at[c].pc = "update" => Updates(c)
  /\ at[c].current /\ at[c].pc = "purge" => Purges(c)

BucketInv ==
  /\ lock \in Locks
  /\ Present => lock.turn # None
  /\ call = [c \in Clients |-> call[c]] /\ at = [c \in Clients |-> at[c]]
  /\ \A c \in Clients : ClientInv(c)

-----------------------------------------------------------------------------
USE DEF Present, Mine, Terminal, Op, Contract!Present, Contract!Mine, Contract!Terminal

\* A pending call is one of ChatBus's; its name is not that of none.
LEMMA OpNames ==
  ASSUME NEW c \in Clients, call[c] \in Calls(c)
  PROVE  /\ Op(c) = Contract!NoOp <=> Op(c).op = "none"
         /\ Op(c) # Contract!NoOp => Op(c) \in Contract!Ops(c)
         /\ Op(c).op = "terminal" => Op(c).state \in Outcomes /\ Op(c).worker \in {c, None}
         /\ Op(c).op = "acquire" => Op(c).turn \in Turns
BY SMT DEF Calls, Contract!Ops, Contract!NoOp

\* What is written is an entry.
LEMMA LockTypes ==
  /\ NoLock \in Locks /\ ~NoLock.fresh
  /\ \A t \in Turns : Requested(t) \in Locks /\ Requested(t).fresh /\ Requested(t).turn = t
  /\ AtRest \in Places /\ AtRest.pc = "rest" /\ ~AtRest.current
BY DEF NoLock, Requested, Locks, Places, AtRest, Contract!NoLock, Contract!Requested

\* An answer that leaves the lease as it is changes no other call.
LEMMA HeldSame ==
  ASSUME BucketInv, NEW l, l.fresh \in BOOLEAN, l.fresh => lock.fresh, NEW d \in Clients
  PROVE  Contract!Held(l)[d] = call[d]
<1>1. call[d] \in Calls(d) /\ PlaceInv(d)
  BY DEF BucketInv, ClientInv, PlaceInv
<1>2. call[d].held \in BOOLEAN
  BY <1>1 DEF Calls
<1>3. ((call[d].held \/ l.fresh) /\ call[d].op # Contract!NoOp) = call[d].held
  BY <1>1, <1>2 DEF PlaceInv
<1>4. [call[d] EXCEPT !.held = call[d].held] = call[d]
  BY <1>1 DEF Calls
<1> QED
  BY <1>3, <1>4 DEF Contract!Held

\* What a client knows survives a step that changes nothing it looks at.
LEMMA Untouched ==
  ASSUME NEW d \in Clients, ClientInv(d), lock' = lock, call'[d] = call[d], at'[d] = at[d]
  PROVE  ClientInv(d)'
BY SMTT(30) DEF ClientInv, PlaceInv, Updates, Claims, Ends, Publishes, Stops, Renews, Purges

\* A client overtaken by another's write keeps its place and its call.
LEMMA OvertakenClient ==
  ASSUME NEW d \in Clients, ClientInv(d), lock' \in Locks,
         call'[d] = Contract!Held(lock')[d], at'[d] = Outdated(d)
  PROVE  ClientInv(d)'
<1>1. call[d] \in Calls(d) /\ at[d] \in Places /\ PlaceInv(d)
  BY DEF ClientInv, PlaceInv
<1>2. /\ call'[d].op = call[d].op /\ call'[d] \in Calls(d)
      /\ call'[d].held <=> (call[d].held \/ lock'.fresh) /\ call[d].op # Contract!NoOp
  BY <1>1 DEF Contract!Held, Calls, Locks
<1>3. at'[d].pc = at[d].pc /\ ~at'[d].current /\ at'[d] \in Places
  BY <1>1, LockTypes DEF Outdated, Places
<1>4. PlaceInv(d)'
  BY <1>1, <1>2, <1>3 DEF PlaceInv
<1> QED
  BY <1>3, <1>4 DEF ClientInv

\* A call is answered and the entry left alone; at most the purge of an expired
\* entry is still to come.
LEMMA DecideStep ==
  ASSUME BucketInv, NEW c \in Clients, NEW a \in Answers, Contract!Answer(c, a, lock),
         NEW x \in Places, at' = [at EXCEPT ![c] = x],
         x.pc = "rest" \/ (x.pc = "purge" /\ (x.current => Present /\ ~lock.fresh))
  PROVE  BucketInv'
<1>1. lock' = lock /\ lock \in Locks /\ lock.fresh \in BOOLEAN
  BY DEF BucketInv, Contract!Answer, Locks
<1>2. /\ call' = [[d \in Clients |-> Contract!Held(lock)[d]]
                  EXCEPT ![c] = [Idle EXCEPT !.answer = a]]
      /\ at' = [d \in Clients |-> IF d = c THEN x ELSE at[d]]
  BY DEF Contract!Answer, Contract!Held, Idle, BucketInv
<1>3. ASSUME NEW d \in Clients, d # c
      PROVE  ClientInv(d)'
  <2>1. call'[d] = call[d]
    BY SMT, <1>1, <1>2, <1>3, HeldSame
  <2>2. at'[d] = at[d]
    BY <1>2, <1>3
  <2> QED
    BY <1>1, <2>1, <2>2, Untouched DEF BucketInv
<1>4. ClientInv(c)'
  <2>1. call'[c] = [Idle EXCEPT !.answer = a] /\ at'[c] = x
    BY <1>2
  <2>2. call'[c] \in Calls(c) /\ call'[c].op = Contract!NoOp /\ ~call'[c].held
    BY <2>1 DEF Idle, Contract!Idle, Calls
  <2>3. Contract!NoOp.op = "none"
    BY DEF Contract!NoOp
  <2> QED
    BY <1>1, <2>1, <2>2, <2>3 DEF ClientInv, PlaceInv, Purges
<1>5. call' = [d \in Clients |-> call'[d]] /\ at' = [d \in Clients |-> at'[d]]
  BY <1>2
<1> QED
  BY <1>1, <1>3, <1>4, <1>5 DEF BucketInv

\* Only the place of one client changes.
LEMMA PlaceStep ==
  ASSUME BucketInv, NEW c \in Clients, UNCHANGED <<lock, call>>,
         NEW x, at' = [at EXCEPT ![c] = x], ClientInv(c)'
  PROVE  BucketInv'
<1>1. at' = [d \in Clients |-> IF d = c THEN x ELSE at[d]]
  BY DEF BucketInv
<1>2. ASSUME NEW d \in Clients PROVE ClientInv(d)'
  BY <1>1, Untouched DEF BucketInv
<1> QED
  BY <1>1, <1>2 DEF BucketInv

\* One client writes the entry and the others are overtaken.
LEMMA ChangeStep ==
  ASSUME BucketInv, NEW c \in Clients, lock' \in Locks, lock' # NoLock => lock'.turn # None,
         call' = [d \in Clients |-> IF d = c THEN call'[c] ELSE Contract!Held(lock')[d]],
         at' = [d \in Clients |-> IF d = c THEN at'[c] ELSE Outdated(d)],
         ClientInv(c)'
  PROVE  BucketInv'
<1>1. ASSUME NEW d \in Clients, d # c PROVE ClientInv(d)'
  <2>1. call'[d] = Contract!Held(lock')[d] /\ at'[d] = Outdated(d)
    BY <1>1
  <2> QED
    BY <2>1, OvertakenClient DEF BucketInv
<1>2. call' = [d \in Clients |-> call'[d]] /\ at' = [d \in Clients |-> at'[d]]
  OBVIOUS
<1> QED
  BY <1>1, <1>2 DEF BucketInv, NoLock

\* A call that goes on to write keeps the invariant when what it read and what
\* it will write fit together.
LEMMA WriteStep ==
  ASSUME BucketInv, NEW c \in Clients, at[c].pc = "read",
         NEW pc \in {"create", "update", "purge"}, NEW l \in Locks, Write(c, pc, l),
         pc = "create" => Op(c).op = "acquire",
         pc = "update" => /\ Op(c).op \in {"claim", "terminal", "published", "stop", "renew"}
                          /\ (at'[c].next = l => Updates(c)'),
         pc = "purge" => Op(c).op \in {"acquire", "release"} /\ Purges(c)
  PROVE  BucketInv'
<1> DEFINE x == [at[c] EXCEPT !.pc = pc, !.next = l, !.current = TRUE]
<1>1. at[c] \in Places /\ PlaceInv(c) /\ UNCHANGED <<lock, call>>
  BY DEF BucketInv, ClientInv, PlaceInv, Write
<1>2. x \in Places /\ x.pc = pc /\ x.next = l /\ x.current = TRUE
  BY <1>1 DEF Places
<1>3. at' = [at EXCEPT ![c] = x]
  BY DEF Write
<1>4. at'[c] = x
  BY <1>3 DEF BucketInv
<1> HIDE DEF x
<1>5. ClientInv(c)'
  <2>1. Op(c) # Contract!NoOp
    BY <1>1 DEF PlaceInv
  <2>2. PlaceInv(c)'
    BY <1>1, <1>2, <1>4, <2>1 DEF PlaceInv
  <2>3. pc = "purge" => Purges(c)'
    BY <1>1 DEF Purges
  <2> QED
    BY <1>2, <1>4, <2>2, <2>3 DEF ClientInv
<1> QED
  BY <1>1, <1>3, <1>5, PlaceStep

-----------------------------------------------------------------------------
\* What every step of a client starts from.
LEMMA ClientFacts ==
  ASSUME BucketInv, NEW c \in Clients
  PROVE  /\ lock \in Locks /\ ClientInv(c) /\ PlaceInv(c)
         /\ call[c] \in Calls(c) /\ at[c] \in Places
         /\ Op(c) = Contract!NoOp <=> Op(c).op = "none"
         /\ Present /\ lock.fresh /\ Op(c).op # "none" => Contract!Live(c)
         /\ ~Present => ~lock.fresh
<1>1. lock \in Locks /\ ClientInv(c) /\ PlaceInv(c) /\ call[c] \in Calls(c) /\ at[c] \in Places
  BY DEF BucketInv, ClientInv, PlaceInv
<1>2. Op(c) = Contract!NoOp <=> Op(c).op = "none"
  BY <1>1, OpNames
<1>3. ~Present => ~lock.fresh
  BY LockTypes DEF NoLock
<1> QED
  BY <1>1, <1>2, <1>3 DEF PlaceInv, Contract!Live

Simulated == Contract!ContractNext \/ UNCHANGED Contract!contractVars

\* A step of the contract by one client.
LEMMA Taken ==
  ASSUME NEW c \in Clients, Contract!Take(c) \/ Contract!Fails(c)
  PROVE  Simulated
BY DEF Simulated, Contract!ContractNext

\* A call that ends without a write, as one of the contract's does.
LEMMA DecidedStep ==
  ASSUME BucketInv, NEW c \in Clients, NEW a \in Answers, Decide(c, a),
         Contract!Take(c) \/ Contract!Fails(c)
  PROVE  BucketInv' /\ Simulated
BY DecideStep, Taken, LockTypes DEF Decide

\* A write still to come is invisible.
LEMMA Unseen ==
  ASSUME NEW c, NEW pc, NEW l, Write(c, pc, l)
  PROVE  Simulated
BY DEF Write, Simulated, Contract!contractVars

USE DEF Reads, Contract!Pending

\* acquire_kv_lock reads the entry.
LEMMA AcquireStep ==
  ASSUME BucketInv, NEW c \in Clients, ReadForAcquire(c)
  PROVE  BucketInv' /\ Simulated
<1>1. CASE ~Present
  <2>1. Write(c, "create", NoLock)
    BY <1>1 DEF ReadForAcquire
  <2> QED
    BY <2>1, WriteStep, Unseen, LockTypes DEF ReadForAcquire
<1>2. CASE Present /\ lock.fresh
  <2>1. Decide(c, "inflight")
    BY <1>2 DEF ReadForAcquire
  <2>2. Contract!AcquireLock(c)
    BY <1>2, <2>1 DEF ReadForAcquire, Decide, Contract!AcquireLock
  <2> QED
    BY <2>1, <2>2, DecidedStep DEF Contract!Take, Answers
<1>3. CASE Present /\ ~lock.fresh
  <2>1. Write(c, "purge", NoLock) /\ at[c].pc = "read" /\ Op(c).op = "acquire"
    BY <1>3 DEF ReadForAcquire
  <2>2. Purges(c)
    BY <1>3, <2>1 DEF Purges
  <2> QED
    BY <2>1, <2>2, WriteStep, Unseen, LockTypes
<1> QED
  BY <1>1, <1>2, <1>3

\* Calls that only read: load_lock and stop_requested.
LEMMA ReadOnlyStep ==
  ASSUME BucketInv, NEW c \in Clients, Load(c) \/ StopRequested(c)
  PROVE  BucketInv' /\ Simulated
<1>1. CASE Load(c)
  <2>1. PICK a \in {"ok", "nothing"} : Decide(c, a) /\ a = IF Present THEN "ok" ELSE "nothing"
    BY <1>1 DEF Load
  <2>2. Contract!LoadLock(c)
    BY <1>1, <2>1 DEF Load, Decide, Contract!LoadLock
  <2> QED
    BY <2>1, <2>2, DecidedStep DEF Contract!Take, Answers
<1>2. CASE StopRequested(c)
  <2>1. PICK a \in {"ok", "nothing"} :
          Decide(c, a) /\ a = IF Mine(c) /\ lock.fresh /\ lock.stop THEN "ok" ELSE "nothing"
    BY <1>2 DEF StopRequested
  <2>2. Contract!StopRequested(c)
    BY <1>2, <2>1, ClientFacts DEF StopRequested, Decide, Contract!StopRequested, Contract!Dead
  <2> QED
    BY <2>1, <2>2, DecidedStep DEF Contract!Take, Answers
<1> QED
  BY <1>1, <1>2

\* claim_kv_lock reads the entry and hands it out, refuses it or takes it.
LEMMA ClaimStep ==
  ASSUME BucketInv, NEW c \in Clients, ReadForClaim(c)
  PROVE  BucketInv' /\ Simulated
<1> DEFINE taken == [lock EXCEPT !.state = "running", !.worker = c, !.fresh = TRUE]
           busy == ~Mine(c) \/ (lock.state = "running" /\ lock.worker # c /\ lock.fresh)
<1>0. at[c].pc = "read" /\ Op(c).op = "claim" /\ lock \in Locks /\ lock.fresh \in BOOLEAN
  BY ClientFacts DEF ReadForClaim, Locks
<1>1. CASE ~Present \/ (Mine(c) /\ ~Terminal(lock) /\ ~busy /\ ~lock.fresh)
  <2>1. Decide(c, "payload")
    BY <1>1 DEF ReadForClaim
  <2>2. Contract!Fails(c)
    BY <1>0, <2>1 DEF Decide, Contract!Fails
  <2> QED
    BY <2>1, <2>2, DecidedStep DEF Answers
<1>2. CASE Present /\ Mine(c) /\ Terminal(lock)
  <2>1. Decide(c, "ok")
    BY <1>2 DEF ReadForClaim
  <2>2. Contract!ClaimLock(c)
    BY <1>0, <1>2, <2>1 DEF Decide, Contract!ClaimLock
  <2> QED
    BY <2>1, <2>2, DecidedStep DEF Contract!Take, Answers
<1>3. CASE Present /\ ~(Mine(c) /\ Terminal(lock)) /\ busy
  <2>1. Decide(c, "inflight")
    BY <1>3 DEF ReadForClaim
  <2>2. Contract!ClaimLock(c)
    BY <1>0, <1>3, <2>1, ClientFacts DEF Decide, Contract!ClaimLock
  <2> QED
    BY <2>1, <2>2, DecidedStep DEF Contract!Take, Answers
<1>4. CASE Present /\ Mine(c) /\ ~Terminal(lock) /\ ~busy /\ lock.fresh
  <2>1. Write(c, "update", taken)
    BY <1>4 DEF ReadForClaim
  <2>2. taken \in Locks /\ [taken EXCEPT !.fresh = TRUE] = taken
    BY <1>0 DEF Locks
  <2>3. UNCHANGED <<lock, call>> /\ call[c].held
    BY <1>0, <1>4, <2>1, ClientFacts DEF Write, Contract!Live
  <2>4. at'[c].next = taken => Updates(c)'
    BY <1>0, <1>4, <2>2, <2>3 DEF Updates, Claims, Ends, Publishes, Stops, Renews
  <2> QED
    BY <1>0, <2>1, <2>2, <2>4, WriteStep, Unseen
<1> QED
  BY <1>0, <1>1, <1>2, <1>3, <1>4

\* mark_kv_lock_terminal reads the entry.
LEMMA TerminalStep ==
  ASSUME BucketInv, NEW c \in Clients, ReadForTerminal(c)
  PROVE  BucketInv' /\ Simulated
<1> DEFINE ended == [lock EXCEPT !.state = Op(c).state, !.published = FALSE, !.fresh = TRUE]
           may == Mine(c) /\ Op(c).worker \in {None, lock.worker}
<1>0. at[c].pc = "read" /\ Op(c).op = "terminal" /\ lock \in Locks /\ Op(c).state \in Outcomes
  BY ClientFacts, OpNames DEF ReadForTerminal
<1>1. CASE may
  <2>1. Write(c, "update", ended)
    BY <1>1 DEF ReadForTerminal
  <2>2. ended \in Locks /\ [ended EXCEPT !.fresh = TRUE] = ended
    BY <1>0 DEF Locks
  <2>3. UNCHANGED <<lock, call>>
    BY <2>1 DEF Write
  <2>4. at'[c].next = ended => Updates(c)'
    BY <1>0, <1>1, <2>2, <2>3 DEF Updates, Claims, Ends, Publishes, Stops, Renews
  <2> QED
    BY <1>0, <2>1, <2>2, <2>4, WriteStep, Unseen
<1>2. CASE ~may
  <2>1. Decide(c, "inflight")
    BY <1>2 DEF ReadForTerminal
  <2>2. Contract!MarkLockTerminal(c)
    BY <1>0, <1>2, <2>1 DEF Decide, Contract!MarkLockTerminal
  <2> QED
    BY <2>1, <2>2, DecidedStep DEF Contract!Take, Answers
<1> QED
  BY <1>1, <1>2

\* mark_kv_terminal_event_published reads the entry.
LEMMA PublishedStep ==
  ASSUME BucketInv, NEW c \in Clients, ReadForPublished(c)
  PROVE  BucketInv' /\ Simulated
<1> DEFINE told == [lock EXCEPT !.published = TRUE]
           may == Mine(c) /\ Terminal(lock)
<1>0. at[c].pc = "read" /\ Op(c).op = "published" /\ lock \in Locks
  BY ClientFacts DEF ReadForPublished
<1>1. CASE may
  <2>1. Write(c, "update", told)
    BY <1>1 DEF ReadForPublished
  <2>2. told \in Locks /\ [told EXCEPT !.fresh = lock.fresh] = told
    BY <1>0 DEF Locks
  <2>3. UNCHANGED <<lock, call>>
    BY <2>1 DEF Write
  <2>4. at'[c].next = told => Updates(c)'
    BY <1>0, <1>1, <2>2, <2>3 DEF Updates, Claims, Ends, Publishes, Stops, Renews
  <2> QED
    BY <1>0, <2>1, <2>2, <2>4, WriteStep, Unseen
<1>2. CASE ~may
  <2>1. Decide(c, "ok")
    BY <1>2 DEF ReadForPublished
  <2>2. Contract!MarkTerminalEventPublished(c)
    BY <1>0, <1>2, <2>1 DEF Decide, Contract!Written, Contract!MarkTerminalEventPublished
  <2> QED
    BY <2>1, <2>2, DecidedStep DEF Contract!Take, Answers
<1> QED
  BY <1>1, <1>2

\* request_kv_stop reads the entry; an expired one is still to be purged when
\* its caller has the answer.
LEMMA StopStep ==
  ASSUME BucketInv, NEW c \in Clients, ReadForStop(c)
  PROVE  BucketInv' /\ Simulated
<1> DEFINE stopped == [lock EXCEPT !.stop = TRUE]
<1>0. at[c].pc = "read" /\ Op(c).op = "stop" /\ lock \in Locks /\ at[c] \in Places
  BY ClientFacts DEF ReadForStop
<1>1. CASE ~Present
  <2>1. Decide(c, "nothing")
    BY <1>1 DEF ReadForStop
  <2>2. Contract!RequestStop(c)
    BY <1>0, <1>1, <2>1, ClientFacts DEF Decide, Contract!RequestStop, Contract!Dead
  <2> QED
    BY <2>1, <2>2, DecidedStep DEF Contract!Take, Answers
<1>2. CASE Present /\ lock.fresh
  <2>1. Write(c, "update", stopped)
    BY <1>2 DEF ReadForStop
  <2>2. stopped \in Locks /\ [stopped EXCEPT !.fresh = lock.fresh] = stopped
    BY <1>0 DEF Locks
  <2>3. UNCHANGED <<lock, call>> /\ call[c].held
    BY <1>0, <1>2, <2>1, ClientFacts DEF Write, Contract!Live
  <2>4. at'[c].next = stopped => Updates(c)'
    BY <1>0, <1>2, <2>2, <2>3 DEF Updates, Claims, Ends, Publishes, Stops, Renews
  <2> QED
    BY <1>0, <2>1, <2>2, <2>4, WriteStep, Unseen
<1>3. CASE Present /\ ~lock.fresh
  <2> DEFINE x == [at[c] EXCEPT !.pc = "purge", !.current = TRUE]
  <2>1. Contract!Answer(c, "nothing", lock) /\ at' = [at EXCEPT ![c] = x]
    BY <1>3 DEF ReadForStop
  <2>2. x \in Places /\ x.pc = "purge"
    BY <1>0 DEF Places
  <2> HIDE DEF x
  <2>3. BucketInv'
    BY <1>3, <2>1, <2>2, DecideStep DEF Answers
  <2>4. Contract!RequestStop(c)
    BY <1>0, <1>3, <2>1 DEF Contract!RequestStop, Contract!Dead
  <2> QED
    BY <2>3, <2>4, Taken DEF Contract!Take
<1> QED
  BY SMT, <1>1, <1>2, <1>3

\* renew_kv_lock reads the entry.
LEMMA RenewStep ==
  ASSUME BucketInv, NEW c \in Clients, ReadForRenew(c)
  PROVE  BucketInv' /\ Simulated
<1> DEFINE may == Mine(c) /\ lock.worker = c /\ lock.fresh
<1>0. at[c].pc = "read" /\ Op(c).op = "renew" /\ lock \in Locks
  BY ClientFacts DEF ReadForRenew
<1>1. CASE may
  <2>1. Write(c, "update", lock)
    BY <1>1 DEF ReadForRenew
  <2>2. UNCHANGED <<lock, call>> /\ call[c].held
    BY <1>0, <1>1, <2>1, ClientFacts DEF Write, Contract!Live
  <2>3. at'[c].next = lock => Updates(c)'
    BY <1>0, <1>1, <2>2 DEF Updates, Claims, Ends, Publishes, Stops, Renews
  <2> QED
    BY <1>0, <2>1, <2>3, WriteStep, Unseen
<1>2. CASE ~may
  <2>1. Decide(c, "inflight")
    BY <1>2 DEF ReadForRenew
  <2>2. Contract!RenewLock(c)
    BY <1>0, <1>2, <2>1 DEF Decide, Contract!RenewLock, Contract!Dead
  <2> QED
    BY <2>1, <2>2, DecidedStep DEF Contract!Take, Answers
<1> QED
  BY <1>1, <1>2

\* release_lock reads the entry.
LEMMA ReleaseStep ==
  ASSUME BucketInv, NEW c \in Clients, ReadForRelease(c)
  PROVE  BucketInv' /\ Simulated
<1>0. at[c].pc = "read" /\ Op(c).op = "release"
  BY DEF ReadForRelease
<1>1. CASE Mine(c)
  <2>1. Write(c, "purge", NoLock) /\ Purges(c)
    BY <1>0, <1>1 DEF ReadForRelease, Purges
  <2> QED
    BY <1>0, <2>1, WriteStep, Unseen, LockTypes
<1>2. CASE ~Mine(c)
  <2>1. Decide(c, "ok")
    BY <1>2 DEF ReadForRelease
  <2>2. Contract!ReleaseLock(c)
    BY <1>0, <1>2, <2>1 DEF Decide, Contract!ReleaseLock
  <2> QED
    BY <2>1, <2>2, DecidedStep DEF Contract!Take, Answers
<1> QED
  BY <1>1, <1>2

-----------------------------------------------------------------------------
\* A call whose write takes effect.
LEMMA AnsweredStep ==
  ASSUME BucketInv, NEW c \in Clients, NEW a \in Answers, NEW l \in Locks,
         l # NoLock => l.turn # None, Contract!Answer(c, a, l), at' = Overtake(c)
  PROVE  BucketInv'
<1>1. /\ lock' = l
      /\ call' = [d \in Clients |-> IF d = c THEN [Idle EXCEPT !.answer = a]
                                   ELSE Contract!Held(l)[d]]
      /\ at' = [d \in Clients |-> IF d = c THEN AtRest ELSE Outdated(d)]
  BY DEF Contract!Answer, Contract!Held, Idle, Overtake
<1>2. call'[c] = [Idle EXCEPT !.answer = a] /\ at'[c] = AtRest
  BY <1>1
<1>3. call'[c] \in Calls(c) /\ call'[c].op = Contract!NoOp /\ ~call'[c].held
  BY <1>2 DEF Idle, Contract!Idle, Calls
<1>4. ClientInv(c)'
  BY <1>2, <1>3, LockTypes DEF ClientInv, PlaceInv
<1> QED
  BY <1>1, <1>2, <1>4, ChangeStep

\* A write whose caller hears of it, or of an error.
LEMMA WrittenStep ==
  ASSUME BucketInv, NEW c \in Clients, NEW l \in Locks,
         l # NoLock => l.turn # None, Contract!Written(c, l), at' = Overtake(c)
  PROVE  BucketInv'
BY AnsweredStep DEF Contract!Written, Answers

\* create_kv_lock, which fails when another client's entry is there.
LEMMA CreateStep ==
  ASSUME None \notin Turns, BucketInv, NEW c \in Clients, Create(c)
  PROVE  BucketInv' /\ Simulated
<1>0. Op(c).op = "acquire" /\ Op(c).turn \in Turns
  BY ClientFacts, OpNames DEF Create, PlaceInv
<1>1. CASE Present
  <2>1. Decide(c, "inflight")
    BY <1>1 DEF Create
  <2>2. Contract!AcquireLock(c)
    BY <1>0, <1>1, <2>1 DEF Decide, Contract!AcquireLock
  <2> QED
    BY <2>1, <2>2, DecidedStep DEF Contract!Take, Answers
<1>2. CASE ~Present
  <2>1. Contract!Written(c, Requested(Op(c).turn)) /\ at' = Overtake(c)
    BY <1>2 DEF Create
  <2>2. BucketInv'
    BY <1>0, <2>1, WrittenStep, LockTypes
  <2>3. Contract!AcquireLock(c)
    BY <1>0, <1>2, <2>1, ClientFacts DEF Contract!AcquireLock, Contract!Dead, Requested
  <2> QED
    BY <2>2, <2>3, Taken DEF Contract!Take
<1> QED
  BY <1>1, <1>2

\* An update at the revision read has the effect of the call at that moment.
LEMMA UpdateStep ==
  ASSUME BucketInv, NEW c \in Clients, Update(c)
  PROVE  BucketInv' /\ Simulated
<1> DEFINE l == [at[c].next EXCEPT !.fresh = Lease(c)]
<1>0. /\ Updates(c) /\ Contract!Written(c, l) /\ at' = Overtake(c)
      /\ Op(c).op \in {"claim", "terminal", "published", "stop", "renew"}
      /\ lock \in Locks /\ at[c] \in Places
  BY ClientFacts DEF Update, ClientInv, PlaceInv
<1>1. l \in Locks /\ l.turn = at[c].next.turn
  BY <1>0 DEF Locks, Places, Lease
<1>2. BucketInv'
  <2>1. Present /\ at[c].next.turn = lock.turn
    <3>1. Present
      BY <1>0 DEF Updates, Claims, Ends, Publishes, Stops, Renews, Mine, Present,
                         Contract!Mine
    <3>2. at[c].next \in Locks
      BY <1>0 DEF Places
    <3>3. CASE Op(c).op = "claim"
      BY <1>0, <3>2, <3>3 DEF Updates, Claims, Locks
    <3>4. CASE Op(c).op = "terminal"
      BY <1>0, <3>2, <3>4 DEF Updates, Ends, Locks
    <3>5. CASE Op(c).op = "published"
      BY <1>0, <3>2, <3>5 DEF Updates, Publishes, Locks
    <3>6. CASE Op(c).op = "stop"
      BY <1>0, <3>2, <3>6 DEF Updates, Stops, Locks
    <3>7. CASE Op(c).op = "renew"
      BY <1>0, <3>2, <3>7 DEF Updates, Renews, Locks
    <3> QED
      BY <1>0, <3>1, <3>3, <3>4, <3>5, <3>6, <3>7
  <2> QED
    BY <1>0, <1>1, <2>1, WrittenStep DEF BucketInv
<1>3. CASE Op(c).op = "claim"
  <2>1. l = [lock EXCEPT !.state = "running", !.worker = c, !.fresh = TRUE]
    BY <1>0, <1>3 DEF Updates, Claims, Lease
  <2> HIDE DEF l
  <2>2. Contract!ClaimLock(c)
    BY <1>0, <1>3, <2>1 DEF Updates, Claims, Contract!ClaimLock, Contract!Live
  <2> QED
    BY <1>2, <2>2, Taken DEF Contract!Take
<1>4. CASE Op(c).op = "terminal"
  <2>1. l = [lock EXCEPT !.state = Op(c).state, !.published = FALSE, !.fresh = TRUE]
    BY <1>0, <1>4 DEF Updates, Ends, Lease
  <2> HIDE DEF l
  <2>2. Contract!MarkLockTerminal(c)
    BY <1>0, <1>4, <2>1 DEF Updates, Ends, Contract!MarkLockTerminal
  <2> QED
    BY <1>2, <2>2, Taken DEF Contract!Take
<1>5. CASE Op(c).op = "published"
  <2>1. l = [lock EXCEPT !.published = TRUE]
    BY <1>0, <1>5 DEF Updates, Publishes, Lease
  <2> HIDE DEF l
  <2>2. Contract!MarkTerminalEventPublished(c)
    BY <1>0, <1>5, <2>1 DEF Updates, Publishes, Contract!MarkTerminalEventPublished
  <2> QED
    BY <1>2, <2>2, Taken DEF Contract!Take
<1>6. CASE Op(c).op = "stop"
  <2>1. l = [lock EXCEPT !.stop = TRUE]
    BY <1>0, <1>6 DEF Updates, Stops, Lease
  <2> HIDE DEF l
  <2>2. Contract!RequestStop(c)
    BY <1>0, <1>6, <2>1 DEF Updates, Stops, Contract!RequestStop, Contract!Live
  <2> QED
    BY SMT, <1>2, <2>2, Taken DEF Contract!Take
<1>7. CASE Op(c).op = "renew"
  <2>1. l = [lock EXCEPT !.fresh = TRUE]
    BY <1>0, <1>7 DEF Updates, Renews, Lease
  <2> HIDE DEF l
  <2>2. Contract!RenewLock(c)
    BY <1>0, <1>7, <2>1 DEF Updates, Renews, Contract!RenewLock, Contract!Live
  <2> QED
    BY <1>2, <2>2, Taken DEF Contract!Take
<1> QED
  BY <1>0, <1>3, <1>4, <1>5, <1>6, <1>7

\* An update at an older revision has none, and the call reads again or fails.
LEMMA RetryStep ==
  ASSUME BucketInv, NEW c \in Clients, Retry(c)
  PROVE  BucketInv' /\ Simulated
<1>0. Op(c).op \in {"claim", "terminal", "published", "stop", "renew"} /\ at[c] \in Places
  BY ClientFacts DEF Retry, PlaceInv
<1>1. CASE at[c].tries + 1 < Attempts
  <2> DEFINE x == [AtRest EXCEPT !.pc = "read", !.tries = at[c].tries + 1]
  <2>1. at' = [at EXCEPT ![c] = x] /\ UNCHANGED <<lock, call>>
    BY <1>1 DEF Retry
  <2>2. at[c].tries + 1 \in Nat
    BY SMT, <1>0 DEF Places
  <2>3. x \in Places /\ x.pc = "read" /\ ~x.current
    BY <2>2, LockTypes DEF AtRest, Places
  <2> HIDE DEF x
  <2>4. at'[c] = x
    BY <2>1 DEF BucketInv
  <2>5. ClientInv(c)'
    BY <1>0, <2>1, <2>3, <2>4, ClientFacts DEF ClientInv, PlaceInv
  <2> QED
    BY <2>1, <2>5, PlaceStep DEF Simulated, Contract!contractVars
<1>2. CASE ~(at[c].tries + 1 < Attempts)
  <2>1. Decide(c, "payload")
    BY <1>2 DEF Retry
  <2>2. Contract!Fails(c)
    BY <1>0, <2>1 DEF Decide, Contract!Fails
  <2> QED
    BY SMT, <2>1, <2>2, DecidedStep DEF Answers
<1> QED
  BY <1>1, <1>2

\* A purge: of an expired entry, for acquire or a stop request that has its
\* answer already, or of the caller's own, for release.
LEMMA PurgeStep ==
  ASSUME BucketInv, NEW c \in Clients, Purge(c)
  PROVE  BucketInv' /\ Simulated
<1>0. /\ lock' = NoLock /\ NoLock \in Locks /\ ~NoLock.fresh /\ Purges(c) /\ PlaceInv(c)
      /\ at[c].pc = "purge" /\ Op(c).op \in {"none", "acquire", "release"}
      /\ call = [d \in Clients |-> call[d]]
  BY ClientFacts, LockTypes DEF Purge, ClientInv, PlaceInv, BucketInv
<1>1. \A d \in Clients : Contract!Held(NoLock)[d] = call[d]
  BY SMT, <1>0, HeldSame DEF Locks
<1>2. CASE Op(c).op = "release"
  <2>1. at' = Overtake(c) /\ call' = [call EXCEPT ![c] = [Idle EXCEPT !.answer = "ok"]]
    BY <1>0, <1>2 DEF Purge
  <2>2. Contract!Held(NoLock) = call
    BY <1>0, <1>1 DEF Contract!Held
  <2>3. Contract!Answer(c, "ok", NoLock)
    BY <1>0, <2>1, <2>2 DEF Contract!Answer, Idle
  <2>4. Contract!ReleaseLock(c)
    BY <1>0, <1>2, <2>3 DEF Contract!ReleaseLock, Purges, NoLock
  <2> QED
    BY <1>0, <2>1, <2>3, <2>4, AnsweredStep, Taken DEF Contract!Take, Answers
<1>3. CASE Op(c).op # "release"
  <2>1. /\ call' = call
        /\ at' = [d \in Clients |-> IF d = c THEN at'[c] ELSE Outdated(d)]
        /\ at'[c] = IF Op(c).op = "acquire" THEN [AtRest EXCEPT !.pc = "create"] ELSE AtRest
    BY <1>0, <1>3 DEF Purge, Overtake
  <2>2. at'[c] \in Places /\ at'[c].pc = IF Op(c).op = "acquire" THEN "create" ELSE "rest"
    <3>1. /\ AtRest \in Places /\ AtRest.pc = "rest"
          /\ [AtRest EXCEPT !.pc = "create"] \in Places
          /\ [AtRest EXCEPT !.pc = "create"].pc = "create"
      BY LockTypes DEF Places
    <3> QED
      BY <2>1, <3>1
  <2>3. Op(c) = Contract!NoOp <=> Op(c).op = "none"
    BY ClientFacts
  <2>4. ClientInv(c)'
    BY <1>0, <1>3, <2>1, <2>2, <2>3 DEF ClientInv, PlaceInv
  <2>5. call' = [d \in Clients |-> IF d = c THEN call'[c] ELSE Contract!Held(lock')[d]]
    BY <1>0, <1>1, <2>1
  <2>6. BucketInv'
    BY <1>0, <2>1, <2>4, <2>5, ChangeStep
  <2>7. Contract!Drop
    BY <1>0, <1>3, <2>1 DEF Contract!Drop, Purges, NoLock
  <2> QED
    BY <2>6, <2>7 DEF Simulated, Contract!ContractNext
<1> QED
  BY <1>2, <1>3

\* A purge at an older revision has no effect.
LEMMA RefusedStep ==
  ASSUME BucketInv, NEW c \in Clients, PurgeRefused(c)
  PROVE  BucketInv' /\ Simulated
<1>0. /\ at[c].pc = "purge" /\ Op(c).op \in {"none", "acquire", "release"}
      /\ Op(c) = Contract!NoOp <=> Op(c).op = "none"
  BY ClientFacts DEF PurgeRefused, PlaceInv
<1>1. CASE Op(c).op = "none"
  <2>1. at' = [at EXCEPT ![c] = AtRest] /\ UNCHANGED <<lock, call>>
    BY <1>0, <1>1 DEF PurgeRefused
  <2>2. at'[c] = AtRest
    BY <2>1 DEF BucketInv
  <2>3. ClientInv(c)'
    BY <1>0, <1>1, <2>1, <2>2, ClientFacts, LockTypes DEF ClientInv, PlaceInv
  <2> QED
    BY <2>1, <2>3, PlaceStep DEF Simulated, Contract!contractVars
<1>2. CASE Op(c).op = "acquire"
  <2>1. Decide(c, "payload")
    BY <1>0, <1>2 DEF PurgeRefused
  <2>2. Contract!Fails(c)
    BY <1>2, <2>1 DEF Decide, Contract!Fails
  <2> QED
    BY SMT, <2>1, <2>2, DecidedStep DEF Answers
<1>3. CASE Op(c).op = "release"
  <2>1. Decide(c, "ok")
    BY <1>0, <1>3 DEF PurgeRefused
  <2>2. Contract!ReleaseLock(c)
    BY <1>3, <2>1 DEF Decide, Contract!ReleaseLock
  <2> QED
    BY SMT, <2>1, <2>2, DecidedStep DEF Contract!Take, Answers
<1> QED
  BY <1>0, <1>1, <1>2, <1>3

\* A request that does not reach the bucket has no effect.
LEMMA UnavailableStep ==
  ASSUME BucketInv, NEW c \in Clients, Unavailable(c)
  PROVE  BucketInv' /\ Simulated
<1>0. Op(c) = Contract!NoOp <=> Op(c).op = "none"
  BY ClientFacts
<1>1. CASE Op(c).op = "release"
  <2>1. Decide(c, "ok")
    BY <1>0, <1>1 DEF Unavailable
  <2>2. Contract!ReleaseLock(c)
    BY SMT, <1>1, <2>1 DEF Decide, Contract!ReleaseLock
  <2> QED
    BY SMT, <2>1, <2>2, DecidedStep DEF Contract!Take, Answers
<1>2. CASE Op(c).op = "none"
  <2>1. at' = [at EXCEPT ![c] = AtRest] /\ UNCHANGED <<lock, call>>
    BY <1>0, <1>2 DEF Unavailable
  <2>2. at'[c] = AtRest
    BY <2>1 DEF BucketInv
  <2>3. ClientInv(c)'
    BY <1>0, <1>2, <2>1, <2>2, ClientFacts, LockTypes DEF ClientInv, PlaceInv
  <2> QED
    BY <2>1, <2>3, PlaceStep DEF Simulated, Contract!contractVars
<1>3. CASE Op(c).op \notin {"release", "none"}
  <2>1. Decide(c, "payload")
    BY <1>0, <1>3 DEF Unavailable
  <2>2. Contract!Fails(c)
    BY <1>3, <2>1 DEF Decide, Contract!Fails
  <2> QED
    BY SMT, <2>1, <2>2, DecidedStep DEF Answers
<1> QED
  BY SMT, <1>1, <1>2, <1>3

-----------------------------------------------------------------------------
\* A client calls the bus.
LEMMA CallStep ==
  ASSUME BucketInv, NEW c \in Clients, NEW o \in Contract!Ops(c), Call(c, o)
  PROVE  BucketInv' /\ Simulated
<1> DEFINE k == [op |-> o, answer |-> "none", held |-> lock.fresh]
           x == [AtRest EXCEPT !.pc = "read"]
<1>1. /\ lock' = lock /\ lock \in Locks /\ lock.fresh \in BOOLEAN
      /\ call' = [d \in Clients |-> IF d = c THEN k ELSE call[d]]
      /\ at' = [d \in Clients |-> IF d = c THEN x ELSE at[d]]
  BY DEF Call, Contract!Call, BucketInv, Locks
<1>2. x \in Places /\ x.pc = "read" /\ ~x.current
  BY LockTypes DEF AtRest, Places
<1>3. k \in Calls(c) /\ k.op = o /\ k.held = lock.fresh
  BY <1>1 DEF Calls, Answers
<1>4. o # Contract!NoOp
  BY SMT DEF Contract!Ops, Contract!NoOp
<1> HIDE DEF k, x
<1>5. ClientInv(c)'
  BY <1>1, <1>2, <1>3, <1>4 DEF ClientInv, PlaceInv
<1>6. ASSUME NEW d \in Clients, d # c PROVE ClientInv(d)'
  BY <1>1, <1>6, Untouched DEF BucketInv
<1>7. BucketInv'
  BY <1>1, <1>5, <1>6 DEF BucketInv
<1> QED
  BY <1>7 DEF Call, Simulated, Contract!ContractNext

\* The lease runs out under whatever calls are under way.
LEMMA ExpireStep ==
  ASSUME BucketInv, Expire
  PROVE  BucketInv' /\ Simulated
<1>1. /\ lock \in Locks /\ lock' = [lock EXCEPT !.fresh = FALSE] /\ lock.fresh
      /\ UNCHANGED <<call, at>>
  BY DEF Expire, Contract!Expire, BucketInv
<1>2. /\ lock' \in Locks /\ ~lock'.fresh /\ lock'.state = lock.state
      /\ lock'.worker = lock.worker /\ lock'.turn = lock.turn
  BY <1>1 DEF Locks
<1>3. ASSUME NEW c \in Clients PROVE ClientInv(c)'
  <2>1. PlaceInv(c)' /\ at[c] \in Places
    BY <1>1, <1>2, ClientFacts DEF PlaceInv
  <2>2. Present /\ Present' /\ (Mine(c)' <=> Mine(c)) /\ (Terminal(lock)' <=> Terminal(lock))
    <3>1. Present
      BY <1>1, ClientFacts
    <3>2. lock' # NoLock
      BY <1>1, <1>2, <3>1 DEF BucketInv, NoLock, Contract!NoLock
    <3> QED
      BY <1>1, <1>2, <3>1, <3>2 DEF NoLock
  <2>3. ASSUME Updates(c) PROVE Updates(c)'
    <3>1. /\ [lock' EXCEPT !.fresh = TRUE] = [lock EXCEPT !.fresh = TRUE]
          /\ [lock' EXCEPT !.state = "running", !.worker = c, !.fresh = TRUE]
               = [lock EXCEPT !.state = "running", !.worker = c, !.fresh = TRUE]
          /\ [lock' EXCEPT !.state = Op(c).state, !.published = FALSE, !.fresh = TRUE]
               = [lock EXCEPT !.state = Op(c).state, !.published = FALSE, !.fresh = TRUE]
      BY <1>1 DEF Locks
    <3>2. Claims(c)' /\ Ends(c)' /\ Renews(c)'
      BY <1>1, <1>2, <2>2, <2>3, <3>1 DEF Updates, Claims, Ends, Renews
    <3>3. at[c].next \in Locks /\ at'[c] = at[c] /\ Op(c)' = Op(c) /\ call'[c] = call[c]
      BY <1>1, <2>1 DEF Places, Op
    <3>4. Publishes(c)'
      BY <1>1, <1>2, <2>2, <2>3, <3>3 DEF Updates, Publishes, Locks
    <3>5. Stops(c)'
      BY <1>1, <1>2, <2>2, <2>3, <3>3 DEF Updates, Stops, Locks
    <3> QED
      BY <3>2, <3>4, <3>5 DEF Updates
  <2>4. Purges(c) => Purges(c)'
    BY <1>1, <1>2, <2>2 DEF Purges
  <2> QED
    BY <1>1, <2>1, <2>3, <2>4, ClientFacts DEF ClientInv
<1>4. lock'.turn # None
  BY <1>1, <1>2, LockTypes DEF BucketInv, NoLock
<1>5. BucketInv'
  BY <1>1, <1>2, <1>3, <1>4 DEF BucketInv
<1> QED
  BY <1>5 DEF Simulated, Contract!ContractNext, Expire

\* The entry goes by its age: nobody's revision is the last one any more.
LEMMA MaxAgeStep ==
  ASSUME BucketInv, MaxAge
  PROVE  BucketInv' /\ Simulated
<1>1. /\ lock' = NoLock /\ NoLock \in Locks /\ ~NoLock.fresh /\ call' = call
      /\ at' = [d \in Clients |-> Outdated(d)] /\ call = [d \in Clients |-> call[d]]
  BY LockTypes DEF MaxAge, Contract!Drop, NoLock, BucketInv
<1>2. \A d \in Clients : Contract!Held(NoLock)[d] = call[d]
  BY SMT, <1>1, HeldSame DEF Locks
<1>3. ASSUME NEW d \in Clients PROVE ClientInv(d)'
  <2>1. call'[d] = Contract!Held(lock')[d] /\ at'[d] = Outdated(d)
    BY <1>1, <1>2
  <2> QED
    BY <1>1, <2>1, OvertakenClient DEF BucketInv
<1> QED
  BY <1>1, <1>3 DEF BucketInv, MaxAge, Simulated, Contract!ContractNext, NoLock

\* Every step of the bucket keeps the invariant, and is a step of the contract
\* or invisible to it.
LEMMA BucketStep ==
  ASSUME None \notin Turns, BucketInv, [BucketNext]_bucketVars
  PROVE  BucketInv' /\ Simulated
<1>1. CASE Expire \/ MaxAge
  BY <1>1, ExpireStep, MaxAgeStep
<1>2. ASSUME NEW c \in Clients, NEW o \in Contract!Ops(c), Call(c, o)
      PROVE  BucketInv' /\ Simulated
  BY <1>2, CallStep
<1>3. ASSUME NEW c \in Clients, Step(c)
      PROVE  BucketInv' /\ Simulated
  BY <1>3, AcquireStep, CreateStep, ReadOnlyStep, ClaimStep, TerminalStep, PublishedStep,
     StopStep, RenewStep, ReleaseStep, UpdateStep, RetryStep, PurgeStep, RefusedStep,
     UnavailableStep DEF Step
<1>4. CASE UNCHANGED bucketVars
  <2>1. \A c \in Clients : ClientInv(c)'
    BY <1>4, Untouched DEF bucketVars, BucketInv
  <2> QED
    BY <1>4, <2>1 DEF bucketVars, BucketInv, Simulated, Contract!contractVars
<1> QED
  BY <1>1, <1>2, <1>3, <1>4 DEF BucketNext

\* No lock, and nobody waits for one.
LEMMA BucketStart ==
  ASSUME BucketInit
  PROVE  BucketInv /\ Contract!LockInit
<1>1. /\ lock = NoLock /\ call = [c \in Clients |-> Idle] /\ at = [c \in Clients |-> AtRest]
      /\ Contract!LockInit
  BY DEF BucketInit, Contract!LockInit, NoLock, Idle
<1>2. ASSUME NEW c \in Clients PROVE ClientInv(c)
  <2>1. call[c] \in Calls(c) /\ call[c].op = Contract!NoOp /\ ~call[c].held /\ at[c] = AtRest
    BY <1>1 DEF Idle, Contract!Idle, Calls, Answers
  <2> QED
    BY <2>1, LockTypes DEF ClientInv, PlaceInv
<1> QED
  BY <1>1, <1>2, LockTypes DEF BucketInv, NoLock

\* crates/nats: a lock call over the KV bucket, however it interleaves with other
\* clients' calls, retries, the lease and the bucket's max_age, acts as one call of
\* the contract at one moment, also when its reply is lost.  ChatTurn takes each lock call as one step on the strength of it.
THEOREM LockCallsAreAtomic ==
  ASSUME None \notin Turns
  PROVE  BucketSpec => CallsAreAtomic
<1>1. BucketInit => BucketInv /\ Contract!LockInit
  BY BucketStart
<1>2. BucketInv /\ [BucketNext]_bucketVars
        => BucketInv' /\ [Contract!ContractNext]_(Contract!contractVars)
  BY BucketStep DEF Simulated
<1> QED
  BY <1>1, <1>2, PTL DEF BucketSpec, CallsAreAtomic, Contract!ContractSpec

=============================================================================
