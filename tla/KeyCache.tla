------------------------------ MODULE KeyCache ------------------------------
(***************************************************************************)
(* The services' check of a bearer token (crates/auth/src/lib.rs): the     *)
(* cached key set, and the refresh a token with an unknown kid causes.     *)
(* Requests run concurrently and take the cache's lock only to read or to  *)
(* replace it; the provider rotates its keys meanwhile.  A kid names one   *)
(* key for good.                                                           *)
(***************************************************************************)
EXTENDS Integers, FiniteSets

CONSTANTS
  KeySets,      \* the sets of keys the provider may publish: [kid, kind, alg, parses]
  TokensOf,     \* request -> the tokens it may carry: [bearer, kid, alg, fits, sub]
  MaxRotations, \* bounds: changes of the published set, failed fetches
  MaxFaults

VARIABLES
  published,    \* what the provider's jwks_uri answers
  cache,        \* kid -> algorithm, of the keys held
  check,        \* request -> its progress
  rotations, faults

keyVars == <<published, cache, check, rotations, faults>>

Requests == DOMAIN TokensOf
NoKeys == [k \in {} |-> ""]
Token(r) == check[r].token

\* answer: the outcome; held: the set its fetch answered; steady: the keys
\* published ever since it began; overtaken: after its own refresh another request
\* stored a set without its key.
NewCheck(t) ==
  [pc |-> "header", token |-> t, answer |-> "", held |-> {}, steady |-> {}, overtaken |-> FALSE]

KeysInit ==
  /\ published \in KeySets
  /\ cache = NoKeys
  /\ check \in [Requests -> {NewCheck(t) : t \in UNION {TokensOf[r] : r \in Requests}}]
  /\ \A r \in Requests : Token(r) \in TokensOf[r]
  /\ rotations = 0 /\ faults = 0

At(r, pc) == check[r].pc = pc
Goto(r, pc) == check' = [check EXCEPT ![r].pc = pc]
Answer(r, a) == check' = [check EXCEPT ![r].pc = "done", ![r].answer = a]

----------------------------------------------------------------------------
(* Keys                                                                    *)

is_asymmetric(kind) == kind \in {"RSA", "EC", "OKP"}

\* asymmetric_alg_to_alg: symmetric and encryption algorithms are nothing.
asymmetric_alg(alg) ==
  IF alg \in {"RS256", "RS384", "RS512", "ES256", "ES384", "PS256", "PS384", "PS512", "EdDSA"}
  THEN alg ELSE ""

infer_alg(kind) ==
  CASE kind = "RSA" -> "RS256" [] kind = "EC" -> "ES256" [] kind = "OKP" -> "EdDSA"

AlgOf(jwk) ==
  IF asymmetric_alg(jwk.alg) # "" THEN asymmetric_alg(jwk.alg) ELSE infer_alg(jwk.kind)

\* refresh keeps the keys with an id that are asymmetric and parse.
Kept(set) == {j \in set : j.kid # "" /\ is_asymmetric(j.kind) /\ j.parses}
KeySet(set) ==
  [k \in {j.kid : j \in Kept(set)} |-> AlgOf(CHOOSE j \in Kept(set) : j.kid = k)]

\* try_cached's decode: the token is signed with the key's own algorithm, and
\* issuer, audience and expiry are as expected (apply_iss_aud).
Decodes(t, alg) == t.alg = alg /\ t.fits

----------------------------------------------------------------------------
(* verify_headers, one step per await                                      *)

\* No bearer token, or a header without a kid: no key is looked for.
Begin(r) ==
  /\ At(r, "header")
  /\ check' = [check EXCEPT ![r].steady = Kept(published),
       ![r].pc = IF Token(r).bearer /\ Token(r).kid # "" THEN "cached" ELSE "done",
       ![r].answer = IF ~Token(r).bearer THEN "missing"
                     ELSE IF Token(r).kid = "" THEN "malformed" ELSE ""]
  /\ UNCHANGED <<published, cache, rotations, faults>>

\* Claims without a subject are refused after the signature has been checked.
Judge(r) ==
  Answer(r, IF ~Decodes(Token(r), cache[Token(r).kid]) THEN "rejected"
            ELSE IF Token(r).sub THEN "verified" ELSE "no subject")

\* Slip: a kid that is not cached is refused without a refresh.
TryCachedOnly(r) ==
  /\ At(r, "cached") \/ At(r, "again")
  /\ IF Token(r).kid \in DOMAIN cache THEN Judge(r) ELSE Answer(r, "unknown kid")
  /\ UNCHANGED <<published, cache, rotations, faults>>

\* try_cached, before the refresh and after it
TryCached(r) ==
  /\ At(r, "cached") \/ At(r, "again")
  /\ IF Token(r).kid \in DOMAIN cache THEN Judge(r)
     ELSE IF At(r, "cached") THEN Goto(r, "fetch") ELSE Answer(r, "unknown kid")
  /\ UNCHANGED <<published, cache, rotations, faults>>

\* refresh: the provider answers with its set of that moment ...
Fetch(r) ==
  /\ At(r, "fetch")
  /\ check' = [check EXCEPT ![r].pc = "store", ![r].held = published]
  /\ UNCHANGED <<published, cache, rotations, faults>>

\* ... or not within the client's five seconds, or not with a key set.
FetchFails(r) ==
  /\ At(r, "fetch") /\ faults < MaxFaults /\ faults' = faults + 1
  /\ Answer(r, "fetch failed")
  /\ UNCHANGED <<published, cache, rotations>>

\* The whole cache is replaced, by an older set too.
Store(r) ==
  /\ At(r, "store")
  /\ cache' = KeySet(check[r].held)
  /\ check' = [q \in Requests |->
       IF q = r THEN [check[q] EXCEPT !.pc = "again", !.held = {}]
       ELSE [check[q] EXCEPT !.overtaken =
              @ \/ (check[q].pc = "again" /\ Token(q).kid \notin DOMAIN cache')]]
  /\ UNCHANGED <<published, rotations, faults>>

\* The provider publishes another set.
Rotate ==
  /\ rotations < MaxRotations /\ rotations' = rotations + 1
  /\ published' \in KeySets \ {published}
  /\ check' = [r \in Requests |-> [check[r] EXCEPT !.steady = @ \cap Kept(published')]]
  /\ UNCHANGED <<cache, faults>>

KeysNext ==
  \/ Rotate
  \/ \E r \in Requests : Begin(r) \/ TryCached(r) \/ Fetch(r) \/ FetchFails(r) \/ Store(r)

KeysSpec == KeysInit /\ [][KeysNext]_keyVars

----------------------------------------------------------------------------
\* A sound token whose key has been published since the request began is verified,
\* whatever the cache held then, with two exceptions.  Its own fetch may fail.  And
\* since validate takes the lock for the refresh and for the second look each by
\* itself, a slower request may store a set without the key, which it fetched
\* before this request began, in between: the caller is then refused for an
\* unknown kid.  No other interleaving with rotations and refreshes refuses it.
RotationIsSeamless ==
  \A r \in Requests :
    LET t == Token(r) IN
    /\ At(r, "done") /\ t.bearer /\ t.fits /\ t.sub
    /\ \E j \in check[r].steady : j.kid = t.kid /\ AlgOf(j) = t.alg
    => \/ check[r].answer \in {"verified", "fetch failed"}
       \/ check[r].answer = "unknown kid" /\ check[r].overtaken
=============================================================================
