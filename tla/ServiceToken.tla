---------------------------- MODULE ServiceToken ----------------------------
(***************************************************************************)
(* The service token of the superseded backend's scheduler                 *)
(* (old/backend/src/auth/service_identity.rs): fetched or minted on        *)
(* demand, cached, and replaced a refresh head before it expires.          *)
(***************************************************************************)
EXTENDS Integers

CONSTANTS
  RefreshHead,  \* OAUTH_REFRESH_HEAD_SECS, HS512_REFRESH_HEAD_SECS
  Timeout,      \* the HTTP client's timeout
  DefaultTtl,   \* the lifetime assumed when the answer has no expires_in
  Ttls,         \* the lifetimes the token endpoint may grant
  MaxTime       \* bound on the clock

VARIABLES
  now,
  token,        \* the cached token: [exp, ttl, stated, refresh], or NoToken
  fetch,        \* the token request in flight: [sent, issued, ttl, stated], or NoFetch
  given         \* the token last handed to a caller: [exp, ttl, stated, at]

tokenVars == <<now, token, fetch, given>>

NoToken == [exp |-> 0, ttl |-> 0, stated |-> TRUE, refresh |-> 0]
NoFetch == [sent |-> 0, issued |-> -1, ttl |-> 0, stated |-> TRUE]

TokenInit ==
  /\ now = 0 /\ token = NoToken /\ fetch = NoFetch
  /\ given = [exp |-> 1, ttl |-> 1, stated |-> TRUE, at |-> 0]

\* fresh_token holds the cache's mutex from here to the answer.
InFlight == fetch # NoFetch

Hit ==
  /\ ~InFlight /\ now < token.refresh
  /\ given' = [exp |-> token.exp, ttl |-> token.ttl, stated |-> token.stated, at |-> now]
  /\ UNCHANGED <<now, token, fetch>>

\* The endpoint grants some lifetime, and states it as expires_in or does not.
Request ==
  /\ ~InFlight /\ now >= token.refresh
  /\ \E ttl \in Ttls, stated \in BOOLEAN :
       fetch' = [sent |-> now, issued |-> now, ttl |-> ttl, stated |-> stated]
  /\ UNCHANGED <<now, token, given>>

\* The endpoint issues the token some time before the answer arrives, and the
\* call takes less than the client's timeout.
Tick ==
  /\ now < MaxTime
  /\ InFlight => now + 1 - fetch.sent < Timeout
  /\ now' = now + 1
  /\ fetch' \in IF InFlight /\ fetch.issued = now
                THEN {fetch, [fetch EXCEPT !.issued = now + 1]} ELSE {fetch}
  /\ UNCHANGED <<token, given>>

\* Mutant: the token is cached for as long as it was granted.
LifetimeWhole(ttl) == ttl

\* checked_sub(head).unwrap_or(ZERO)
Lifetime(ttl) == IF ttl >= RefreshHead THEN ttl - RefreshHead ELSE 0

\* expires_in.unwrap_or(3600)
ExpiresIn == IF fetch.stated THEN fetch.ttl ELSE DefaultTtl

\* refresh_after counts from the answer's arrival.
Arrive ==
  /\ InFlight
  /\ LET exp == fetch.issued + fetch.ttl IN
       /\ token' = [exp |-> exp, ttl |-> fetch.ttl, stated |-> fetch.stated,
                    refresh |-> now + Lifetime(ExpiresIn)]
       /\ given' = [exp |-> exp, ttl |-> fetch.ttl, stated |-> fetch.stated, at |-> now]
  /\ fetch' = NoFetch
  /\ UNCHANGED now

\* The old token stays in the slot, and is past its refresh time.
FetchFails ==
  /\ InFlight
  /\ fetch' = NoFetch
  /\ UNCHANGED <<now, token, given>>

TokenNext == Hit \/ Request \/ Tick \/ Arrive \/ FetchFails

TokenSpec == TokenInit /\ [][TokenNext]_tokenVars

----------------------------------------------------------------------------
\* A token that fresh_token hands out has not expired, however slow the token
\* endpoint was: the time the answer spent on the way is missing from
\* refresh_after, and the refresh head makes up for it just because it is no
\* shorter than the HTTP client's timeout.  What the endpoint must do for it: grant
\* no less than the head or, when it leaves out expires_in, no less than the hour
\* fetch then assumes; a shorter life that is not stated is handed out expired.
TokenIsLive ==
  given.ttl >= (IF given.stated THEN RefreshHead ELSE DefaultTtl) => given.at < given.exp

=============================================================================
