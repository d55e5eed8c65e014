---------------------------- MODULE SessionUpload ----------------------------
(***************************************************************************)
(* Uploads of the superseded backend (old/backend/src/ingestion/uploads.rs *)
(* and completion.rs): a session row per upload, a multipart upload and    *)
(* then an object in the store, a document on commit, a rejection record   *)
(* otherwise.  Every await of a handler is a step.  The uploads carry the  *)
(* same canonical id, or none (manual uploads).                            *)
(***************************************************************************)
EXTENDS Integers, FiniteSets

CONSTANTS
  Docs,         \* uploads, named by the document id they mint
  Completes,    \* POST /complete requests
  Canonical,    \* the uploads that carry the canonical id
  Ingested,     \* the documents POST /ingest may store under that canonical id
  TxAttempts,   \* TX_MAX_COMMIT_ATTEMPTS
  MaxFaults     \* calls that fail, replies that are lost and crashes

VARIABLES
  session,      \* doc -> "none", "uploading" or "validating"
  mpu,          \* doc -> "none", "open", "filled" or "gone"
  object,       \* doc -> the object exists
  bytes,        \* doc -> what the bytes are: "good", "bad" or "badmeta"
  document,     \* documents committed
  rejection,    \* uploads with a rejection record
  creating,     \* doc -> progress of POST /uploads
  req,          \* POST /complete -> its progress
  mislaid,      \* uploads whose rejection record could not be written
  faults

uploadVars == <<session, mpu, object, bytes, document, rejection, creating, req,
                mislaid, faults>>

Idle == [pc |-> "idle", doc |-> "none", attempt |-> 0]

UploadInit ==
  /\ session = [d \in Docs |-> "none"]
  /\ mpu = [d \in Docs |-> "none"]
  /\ object = [d \in Docs |-> FALSE]
  /\ bytes \in [Docs -> {"good", "bad", "badmeta"}]
  /\ document = {}
  /\ rejection = {}
  /\ creating = [d \in Docs |-> "new"]
  /\ req = [r \in Completes |-> Idle]
  /\ mislaid = {}
  /\ faults = 0

Fault == faults < MaxFaults /\ faults' = faults + 1

At(r, pc) == req[r].pc = pc
Goto(r, pc) == req' = [req EXCEPT ![r].pc = pc]
Doc(r) == req[r].doc

----------------------------------------------------------------------------
(* POST /uploads and the parts                                             *)

OpenMultipart(d) ==
  /\ creating[d] = "new"
  /\ creating' = [creating EXCEPT ![d] = "opened"]
  /\ mpu' = [mpu EXCEPT ![d] = "open"]
  /\ UNCHANGED <<session, object, bytes, document, rejection, req, mislaid, faults>>

\* The UNIQUE index over the sessions' dedup_key, which manual uploads leave
\* unset.
SessionTaken(d) ==
  d \in Canonical /\ \E e \in Canonical \ {d} : session[e] # "none"

CreateSession(d) ==
  /\ creating[d] = "opened" /\ ~SessionTaken(d)
  /\ creating' = [creating EXCEPT ![d] = "done"]
  /\ session' = [session EXCEPT ![d] = "uploading"]
  /\ UNCHANGED <<mpu, object, bytes, document, rejection, req, mislaid, faults>>

\* 409, or any other failure: the multipart is aborted, best effort.
CreateSessionFails(d) ==
  /\ creating[d] = "opened"
  /\ \/ SessionTaken(d) /\ mpu' = [mpu EXCEPT ![d] = "gone"] /\ UNCHANGED faults
     \/ Fault /\ (mpu' = [mpu EXCEPT ![d] = "gone"] \/ UNCHANGED mpu)
  /\ creating' = [creating EXCEPT ![d] = "refused"]
  /\ UNCHANGED <<session, object, bytes, document, rejection, req, mislaid>>

\* Parts are signed while the session is uploading, and PUT by the browser.
PutParts(d) ==
  /\ session[d] = "uploading" /\ mpu[d] = "open"
  /\ mpu' = [mpu EXCEPT ![d] = "filled"]
  /\ UNCHANGED <<session, object, bytes, document, rejection, creating, req, mislaid,
                 faults>>

----------------------------------------------------------------------------
(* POST /uploads/:doc_id/complete                                          *)

\* UPDATE ... WHERE state = from
Cas(d, from, to) ==
  session' = IF session[d] = from THEN [session EXCEPT ![d] = to] ELSE session

\* Mutant: any session is acquired, whatever state it is in.
AcquireAny(r, d) ==
  /\ At(r, "idle") /\ creating[d] = "done" /\ session[d] # "none"
  /\ session' = [session EXCEPT ![d] = "validating"]
  /\ req' = [req EXCEPT ![r] = [pc |-> "load", doc |-> d, attempt |-> 0]]
  /\ UNCHANGED <<mpu, object, bytes, document, rejection, creating, mislaid, faults>>

Acquire(r, d) ==
  /\ At(r, "idle") /\ creating[d] = "done"
  /\ Cas(d, "uploading", "validating")
  /\ req' = [req EXCEPT ![r] =
               [pc |-> IF session[d] = "uploading" THEN "load" ELSE "done",
                doc |-> d, attempt |-> 0]]
  /\ UNCHANGED <<mpu, object, bytes, document, rejection, creating, mislaid, faults>>

Load(r) ==
  /\ At(r, "load")
  /\ \/ session[Doc(r)] # "none" /\ Goto(r, "s3") /\ UNCHANGED faults
     \/ Fault /\ Goto(r, "done")
  /\ UNCHANGED <<session, mpu, object, bytes, document, rejection, creating, mislaid>>

\* complete_multipart_upload: done, done but reported as an error, refused as
\* NoSuchUpload (taken for done before), or failed.
CompleteMultipart(r) ==
  LET d == Doc(r)
      assembled == /\ mpu[d] = "filled"
                   /\ mpu' = [mpu EXCEPT ![d] = "gone"]
                   /\ object' = [object EXCEPT ![d] = TRUE]
  IN  /\ At(r, "s3")
      /\ \/ assembled /\ Goto(r, "validate") /\ UNCHANGED faults
         \/ assembled /\ Fault /\ Goto(r, "rollback")
         \/ mpu[d] = "gone" /\ Goto(r, "validate") /\ UNCHANGED <<mpu, object, faults>>
         \/ mpu[d] = "open" /\ Goto(r, "rollback") /\ UNCHANGED <<mpu, object, faults>>
         \/ Fault /\ Goto(r, "rollback") /\ UNCHANGED <<mpu, object>>
      /\ UNCHANGED <<session, bytes, document, rejection, creating, mislaid>>

\* The session goes back to uploading, for a retry; a failure is ignored.
Rollback(r) ==
  /\ At(r, "rollback")
  /\ \/ Cas(Doc(r), "validating", "uploading") /\ UNCHANGED faults
     \/ Fault /\ UNCHANGED session
  /\ Goto(r, "done")
  /\ UNCHANGED <<mpu, object, bytes, document, rejection, creating, mislaid>>

\* Stage 4: the object is there and its bytes pass, or it is rejected; a HEAD
\* or a ranged GET that fails rejects it as well.
ValidateObject(r) ==
  /\ At(r, "validate")
  /\ \/ object[Doc(r)] /\ bytes[Doc(r)] # "bad" /\ Goto(r, "readback") /\ UNCHANGED faults
     \/ (object[Doc(r)] => bytes[Doc(r)] = "bad") /\ Goto(r, "wipe") /\ UNCHANGED faults
     \/ Fault /\ Goto(r, "wipe")
  /\ UNCHANGED <<session, mpu, object, bytes, document, rejection, creating, mislaid>>

\* Stages 4b to 9: text extraction and autofill never fail the upload, the
\* final metadata gate may; a failed read-back leaves the session as it is.
ReadBack(r) ==
  /\ At(r, "readback")
  /\ \/ object[Doc(r)] /\ Goto(r, IF bytes[Doc(r)] = "good" THEN "precheck" ELSE "wipe")
        /\ UNCHANGED faults
     \/ Fault /\ Goto(r, "done")
  /\ UNCHANGED <<session, mpu, object, bytes, document, rejection, creating, mislaid>>

SameCanonical(d) ==
  IF d \in Canonical THEN document \cap (Canonical \cup Ingested) ELSE {}

\* commit_upload, first the lookup by canonical id
PreCheck(r) ==
  /\ At(r, "precheck")
  /\ \/ Goto(r, IF SameCanonical(Doc(r)) = {} THEN "tx" ELSE "wipe") /\ UNCHANGED faults
     \/ Fault /\ Goto(r, "done")
  /\ UNCHANGED <<session, mpu, object, bytes, document, rejection, creating, mislaid>>

\* ... then the transaction: the document under its id, guarded by the UNIQUE
\* index over the uploads' dedup_key, and the session gone, or neither; also
\* done but reported as failed.  A write conflict is retried, another error is
\* not, and leaves the session validating.
CommitTx(r) ==
  LET d == Doc(r)
      free == d \notin document /\ (d \in Canonical => document \cap Canonical = {})
      applied == /\ free
                 /\ document' = document \cup {d}
                 /\ session' = [session EXCEPT ![d] = "none"]
  IN  /\ At(r, "tx")
      /\ \/ applied /\ Goto(r, "done") /\ UNCHANGED faults
         \/ applied /\ Fault /\ Goto(r, "done")
         \/ ~free /\ Goto(r, "done") /\ UNCHANGED <<document, session, faults>>
         \/ Fault /\ Goto(r, "done") /\ UNCHANGED <<document, session>>
         \/ /\ Fault
            /\ req' = [req EXCEPT ![r] =
                 IF @.attempt + 1 < TxAttempts THEN [@ EXCEPT !.attempt = @ + 1]
                 ELSE [@ EXCEPT !.pc = "done"]]
            /\ UNCHANGED <<document, session>>
      /\ UNCHANGED <<mpu, object, bytes, rejection, creating, mislaid>>

\* handle_reject and the conflict arm: the object, the multipart, the session, the
\* record, in that order, each of them best effort.
WipeObject(r) ==
  /\ At(r, "wipe")
  /\ \/ object' = [object EXCEPT ![Doc(r)] = FALSE] /\ UNCHANGED faults
     \/ Fault /\ UNCHANGED object
  /\ Goto(r, "abort")
  /\ UNCHANGED <<session, mpu, bytes, document, rejection, creating, mislaid>>

AbortMultipart(r) ==
  /\ At(r, "abort")
  /\ \/ mpu' = [mpu EXCEPT ![Doc(r)] = "gone"] /\ UNCHANGED faults
     \/ Fault /\ UNCHANGED mpu
  /\ Goto(r, "forget")
  /\ UNCHANGED <<session, object, bytes, document, rejection, creating, mislaid>>

\* Mutant: the rejection is not recorded.
DropSessionOnly(r) ==
  /\ At(r, "forget")
  /\ \/ session' = [session EXCEPT ![Doc(r)] = "none"] /\ UNCHANGED faults
     \/ Fault /\ UNCHANGED session
  /\ Goto(r, "done")
  /\ UNCHANGED <<mpu, object, bytes, document, rejection, creating, mislaid>>

DropSession(r) ==
  /\ At(r, "forget")
  /\ \/ session' = [session EXCEPT ![Doc(r)] = "none"] /\ UNCHANGED faults
     \/ Fault /\ UNCHANGED session
  /\ Goto(r, "record")
  /\ UNCHANGED <<mpu, object, bytes, document, rejection, creating, mislaid>>

RecordRejection(r) ==
  /\ At(r, "record")
  /\ \/ rejection' = rejection \cup {Doc(r)} /\ UNCHANGED <<mislaid, faults>>
     \/ Fault /\ mislaid' = mislaid \cup {Doc(r)} /\ UNCHANGED rejection
  /\ Goto(r, "done")
  /\ UNCHANGED <<session, mpu, object, bytes, document, creating>>

\* The request is dropped or the process dies at an await.
Crash(r) ==
  /\ ~At(r, "idle") /\ ~At(r, "done") /\ Fault
  /\ Goto(r, "done")
  /\ mislaid' = IF At(r, "record") THEN mislaid \cup {Doc(r)} ELSE mislaid
  /\ UNCHANGED <<session, mpu, object, bytes, document, rejection, creating>>

----------------------------------------------------------------------------
\* POST /ingest creates a document under the canonical id; its row carries no
\* dedup_key, so no index stands between it and an upload.  Where a row with
\* the canonical id exists it is merged into, under the id it has and with no
\* session or object touched: no step of this model.
IngestSame(j) ==
  /\ SameCanonical(CHOOSE d \in Canonical : TRUE) = {}
  /\ document' = document \cup {j}
  /\ UNCHANGED <<session, mpu, object, bytes, rejection, creating, req, mislaid, faults>>

\* GET /uploads/:doc_id
Status(d) ==
  CASE session[d] # "none" -> session[d]
    [] session[d] = "none" /\ d \in document -> "ready"
    [] session[d] = "none" /\ d \notin document /\ d \in rejection -> "rejected"
    [] OTHER -> "not found"

CompleteStep(r) ==
  \/ \E d \in Docs : Acquire(r, d)
  \/ Load(r) \/ CompleteMultipart(r) \/ Rollback(r)
  \/ ValidateObject(r) \/ ReadBack(r) \/ PreCheck(r) \/ CommitTx(r)
  \/ WipeObject(r) \/ AbortMultipart(r) \/ DropSession(r) \/ RecordRejection(r) \/ Crash(r)

UploadNext ==
  \/ \E d \in Docs : OpenMultipart(d) \/ CreateSession(d) \/ CreateSessionFails(d)
                     \/ PutParts(d)
  \/ \E r \in Completes : CompleteStep(r)
  \/ \E j \in Ingested : IngestSame(j)

UploadSpec == UploadInit /\ [][UploadNext]_uploadVars

----------------------------------------------------------------------------
\* A document committed by an upload keeps its object, and is never also
\* reported rejected: no concurrent, repeated or half-failed /complete deletes
\* the bytes (handle_reject) after commit_upload has pointed a row at them.
CommittedKeepsBytes ==
  \A d \in Docs \cap document : object[d] /\ d \notin rejection

\* The outcome of an upload outlives its session: once a session has been made,
\* GET /uploads/:doc_id finds the session, the document or the rejection, except
\* while a handler stands between deleting the session and recording the
\* rejection, or where that record could not be written.
OutcomeIsKept ==
  \A d \in Docs :
    (creating[d] = "done" /\ Status(d) = "not found") =>
      d \in mislaid \/ \E r \in Completes : At(r, "record") /\ Doc(r) = d

=============================================================================
