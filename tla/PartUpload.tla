----------------------------- MODULE PartUpload -----------------------------
(***************************************************************************)
(* One upload from the browser's side: preflight fixes the geometry, a     *)
(* pass asks which parts storage already holds, signs and PUTs the others, *)
(* and after a failed pass the next one resumes.  The worker's side of     *)
(* /complete is UploadPipeline; here it only adds up what storage holds.   *)
(***************************************************************************)
EXTENDS PartGeometry, FiniteSets

CONSTANTS
  Sizes, Targets,   \* declared sizes and configured part sizes to try
  MaxUploadBytes,   \* policy.max_upload_bytes
  Concurrency,      \* PART_UPLOAD_CONCURRENCY
  Passes,           \* UPLOAD_PASSES
  MaxOdd            \* bound: parts left by a client that slices differently

ASSUME ClientAssumption ==
  /\ Sizes \subseteq Nat /\ Targets \subseteq Nat /\ MaxUploadBytes \in Nat
  /\ Concurrency \in Nat \ {0} /\ Passes \in Nat \ {0} /\ MaxOdd \in Nat

VARIABLES
  pc,       \* where the client is
  size, part, count,  \* the geometry preflight answered
  record,   \* is the upload's KV record there?
  open,     \* is the multipart open?
  stored,   \* the length of each part in storage, 0 when it is not there
  pass,     \* passes begun
  todo,     \* parts this pass still has to get into storage
  flight,   \* parts of this pass with a PUT under way
  stray,    \* PUTs under way that an earlier pass gave up on
  object,   \* length of the assembled object, 0 when there is none
  odd       \* spent budget

geometry == <<size, part, count>>
client == <<pc, pass, todo, flight, stray>>
vars == <<client, geometry, record, open, stored, object, odd>>

Numbers == 1..MAX_PARTS

Init ==
  /\ pc = "preflight" /\ size = 0 /\ part = 0 /\ count = 0
  /\ record = FALSE /\ open = FALSE /\ stored = [k \in Numbers |-> 0]
  /\ pass = 0 /\ todo = {} /\ flight = {} /\ stray = {}
  /\ object = 0 /\ odd = 0

-----------------------------------------------------------------------------
(***************************************************************************)
(* The API                                                                 *)
(***************************************************************************)
\* preflight, refused: too large for the policy, or for the geometry.
Refused(s, t) == s > MaxUploadBytes \/ ~Accepted(s, t)
PreflightRefused(s, t) ==
  /\ pc = "preflight" /\ Refused(s, t)
  /\ pc' = "failed"
  /\ UNCHANGED <<geometry, record, open, stored, pass, todo, flight, stray, object, odd>>

Preflight(s, t) ==
  /\ pc = "preflight" /\ ~Refused(s, t)
  /\ size' = s /\ part' = PartSize(s, t) /\ count' = PartCount(s, PartSize(s, t))
  /\ record' = TRUE /\ open' = TRUE
  /\ pc' = "list" /\ pass' = 1
  /\ UNCHANGED <<stored, todo, flight, stray, object, odd>>

\* Slip: every stored part is reported, whatever its length.
ReportedAny == {k \in Numbers : stored[k] # 0}

\* uploaded_parts: only parts of exactly the expected length may be resumed.
Reported == {k \in Numbers : stored[k] # 0 /\ stored[k] = ExpectedPartSize(size, part, k)}

\* renew with from_part: the n parts from there on, stored or not.
Signed(from, n) ==
  IF from \in 1..count THEN {k \in from..count : k < from + n \/ k = from} ELSE {}

\* ApiFailure: the status each DocumentError is answered with
Status(error) ==
  CASE error = "Invalid" -> 400
    [] error = "Forbidden" -> 403
    [] error = "NotFound" -> 404
    [] error \in {"Conflict", "Deleted"} -> 409
    [] error = "Gone" -> 410
    [] error = "TooLarge" -> 413
    [] error = "Internal" -> 500

-----------------------------------------------------------------------------
(***************************************************************************)
(* The client                                                              *)
(***************************************************************************)
\* An error without a status (0) is the network's or storage's.
IsResumable(status) == status \notin 400..499

EndPassUncounted(resumable) ==
  /\ todo' = {} /\ flight' = {} /\ stray' = stray \cup flight
  /\ pc' = (IF resumable THEN "list" ELSE "failed") /\ pass' = pass

\* The pass is over.  What is resumable is resumed while passes are left; the
\* PUTs of this pass may still reach storage.
EndPass(resumable) ==
  /\ todo' = {} /\ flight' = {} /\ stray' = stray \cup flight
  /\ IF resumable /\ pass < Passes
     THEN pc' = "list" /\ pass' = pass + 1
     ELSE pc' = "failed" /\ pass' = pass

\* listParts at the start of a pass
ListParts ==
  /\ pc = "list"
  /\ IF record /\ open
     THEN /\ todo' = (1..count) \ Reported
          /\ pc' = "put"
          /\ UNCHANGED <<pass, flight, stray>>
     ELSE EndPass(IsResumable(Status(IF record THEN "Gone" ELSE "NotFound")))
  /\ UNCHANGED <<geometry, record, open, stored, object, odd>>

\* signPart, immediately before the PUT.  Signing does not ask storage.
SignPart(k) ==
  /\ pc = "put" /\ k \in todo \ flight /\ Cardinality(flight) < Concurrency
  /\ IF record /\ k \in Signed(k, 1)
     THEN flight' = flight \cup {k} /\ UNCHANGED <<pc, pass, todo, stray>>
     ELSE EndPass(IsResumable(Status(IF record THEN "Invalid" ELSE "NotFound")))
  /\ UNCHANGED <<geometry, record, open, stored, object, odd>>

\* The slice of the file the client sends as part k.
Slice(k) == IF k * part <= size THEN part ELSE size - (k - 1) * part

\* A PUT reaches storage and its answer reaches the client...
PutLands(k) ==
  /\ pc = "put" /\ k \in flight /\ open
  /\ stored' = [stored EXCEPT ![k] = Slice(k)]
  /\ todo' = todo \ {k} /\ flight' = flight \ {k}
  /\ UNCHANGED <<pc, pass, stray, geometry, record, open, object, odd>>

\* ... or storage has no such multipart any more...
PutRefused(k) ==
  /\ pc = "put" /\ k \in flight /\ ~open
  /\ EndPass(IsResumable(0))
  /\ UNCHANGED <<geometry, record, open, stored, object, odd>>

\* ... or an earlier pass no longer waits for it.
StrayLands(k) ==
  /\ k \in stray /\ stray' = stray \ {k}
  /\ stored' = IF open THEN [stored EXCEPT ![k] = Slice(k)] ELSE stored
  /\ UNCHANGED <<pc, pass, todo, flight, geometry, record, open, object, odd>>

\* A connection drops, a 5xx, an S3 error, an answer that is lost.
PassFails ==
  /\ pc \in {"list", "put"}
  /\ \E status \in {0, Status("Internal")} : EndPass(IsResumable(status))
  /\ UNCHANGED <<geometry, record, open, stored, object, odd>>

PassDone ==
  /\ pc = "put" /\ todo = {}
  /\ pc' = "complete"
  /\ UNCHANGED <<pass, todo, flight, stray, geometry, record, open, stored, object, odd>>

\* The parts that ListParts names, one after the other.
Assembled ==
  LET upTo[k \in 0..MAX_PARTS] == IF k = 0 THEN 0 ELSE upTo[k - 1] + stored[k]
  IN upTo[MAX_PARTS]

\* /complete, and the worker assembling whatever is stored.
Complete ==
  /\ pc = "complete"
  /\ IF record /\ open
     THEN /\ object' = Assembled
          /\ open' = FALSE /\ pc' = "done"
     ELSE pc' = "failed" /\ UNCHANGED <<object, open>>
  /\ UNCHANGED <<pass, todo, flight, stray, geometry, record, stored, odd>>

\* An error of /complete is not retried.
CompleteFails ==
  /\ pc = "complete" /\ pc' = "failed"
  /\ UNCHANGED <<pass, todo, flight, stray, geometry, record, open, stored, object, odd>>

-----------------------------------------------------------------------------
(***************************************************************************)
(* Others                                                                  *)
(***************************************************************************)
\* A part of another length was left by a client that slices differently,
\* before this pass asks.
OddPart(k, n) ==
  /\ odd < MaxOdd /\ odd' = odd + 1
  /\ pc = "list" /\ open
  /\ stored' = [stored EXCEPT ![k] = n]
  /\ UNCHANGED <<client, geometry, record, open, object>>

\* The bucket's max_age; storage's incomplete-multipart reaper.
Expire ==
  /\ record /\ record' = FALSE
  /\ UNCHANGED <<client, geometry, open, stored, object, odd>>
Reap ==
  /\ open /\ open' = FALSE
  /\ stored' = [k \in Numbers |-> 0]
  /\ UNCHANGED <<client, geometry, record, object, odd>>

-----------------------------------------------------------------------------
Client ==
  \/ \E s \in Sizes, t \in Targets : Preflight(s, t) \/ PreflightRefused(s, t)
  \/ ListParts \/ PassDone \/ Complete
  \/ \E k \in Numbers : SignPart(k) \/ PutLands(k) \/ PutRefused(k)
Next ==
  \/ Client \/ PassFails \/ CompleteFails \/ Expire \/ Reap
  \/ \E k \in Numbers : StrayLands(k)
  \/ \E k \in 1..count, n \in Sizes \ {0} : OddPart(k, n)

Spec == Init /\ [][Next]_vars

\* The client keeps going.
FairSpec == Spec /\ WF_vars(Client)

-----------------------------------------------------------------------------
(***************************************************************************)
(* Properties                                                              *)
(***************************************************************************)

\* When the client stops uploading, every part in storage has the length the
\* geometry calls for, whatever earlier passes, other clients and late PUTs
\* left there (unless the multipart is gone).
PartsInPlace ==
  pc = "complete" /\ open => \A k \in 1..count : stored[k] = ExpectedPartSize(size, part, k)

\* So the object the worker assembles has the declared size and is not
\* rejected for a size mismatch.
WholeObject == object # 0 => object = size

\* The upload ends, whatever fails.
UploadEnds == <>(pc \in {"done", "failed"})
=============================================================================
