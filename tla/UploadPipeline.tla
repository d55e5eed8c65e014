--------------------------- MODULE UploadPipeline ---------------------------
(***************************************************************************)
(* The life of the uploads of ONE document: POST /complete in the          *)
(* api-service, the DOCUMENT_WORK queue, the document worker's finisher,   *)
(* the object store, the UPLOAD_STATE record and the document's subject of *)
(* the DOCUMENT_EVENTS log.  All of these are keyed by the upload or by    *)
(* the document, so uploads of different documents never meet.             *)
(*                                                                         *)
(* Every await of the code is a step of its own: two handlers of the same  *)
(* work item (a redelivery that overtakes a slow one) and the HTTP         *)
(* requests interleave between any two of them.                            *)
(***************************************************************************)
EXTENDS Naturals, Sequences

CONSTANTS
  Uploads,        \* the upload ids minted for this document
  Creator,        \* the upload whose preflight minted the document id
  Workers,        \* handler slots of all document-worker instances
  Requests,       \* POST /complete calls; each is made once
  IfMatches,      \* if_match values a client may send; 0 stands for None
  Policies,       \* on_conflict values a client may send
  Kinds,          \* what the uploaded parts amount to
  MaxDeliver,     \* consumer max_deliver
  CasAttempts,    \* CAS_ATTEMPTS of transition.rs
  UpdateAttempts, \* UPDATE_ATTEMPTS of append.rs
  MaxItems,       \* bound: work items published for this document
  MaxFaults,      \* bound: errors, lost acks, crashes, expiries and windows
                  \* that pass, together, in one behaviour
  MaxLapses       \* bound: deadlines that lapse under a live handler

ASSUME UploadsAssumption == Creator \in Uploads
ASSUME ProcsAssumption == Workers \cap Requests = {}
ASSUME InputsAssumption ==
  /\ IfMatches \subseteq Nat
  /\ 0 \in IfMatches
  /\ Policies \subseteq {"supersede", "fail"}
  /\ Kinds \subseteq {"good", "badsize", "refused", "invalid"}
ASSUME BoundsAssumption ==
  /\ MaxDeliver \in Nat \ {0}
  /\ CasAttempts \in Nat \ {0}
  /\ UpdateAttempts \in Nat \ {0}
  /\ MaxItems \in Nat
  /\ MaxFaults \in Nat
  /\ MaxLapses \in Nat

VARIABLES
  rec,      \* UPLOAD_STATE: the record of each upload
  mp,       \* its multipart upload: none, open or gone
  bytes,    \* what the client's parts amount to, or none
  obj,      \* the assembled object, or absent
  orphaned, \* uploads some of whose bytes a reclaim could not give back
  issued,   \* uploads whose preflight answered the client
  log,      \* the document's subject of DOCUMENT_EVENTS
  window,   \* uploads whose event id is inside the duplicate window
  cmds,     \* uploads whose command id is inside the duplicate window
  queue,    \* DOCUMENT_WORK: every item ever published
  h,        \* the program state of each handler and request
  faults,   \* faults spent, out of MaxFaults
  lapses    \* lapsed deadlines, out of MaxLapses

vars == <<rec, mp, bytes, obj, orphaned, issued, log, window, cmds, queue, h, faults, lapses>>

Procs == Workers \cup Requests
Terminal == {"accepted", "rejected"}

\* The record: status, its answer, and the KV revision the CAS compares.
Record == [status: {"absent", "uploading", "scanning"} \cup Terminal,
           version: Nat, superseded: BOOLEAN, rev: Nat]
NoRecord == [status |-> "absent", version |-> 0, superseded |-> FALSE, rev |-> 0]

\* The part of UploadCompleted that steers the worker.
Command == [u: Uploads, ifm: IfMatches, pol: {"supersede", "fail"}]
NoCommand == [u |-> Creator, ifm |-> 0, pol |-> "supersede"]

\* An event: DocumentCreated for Creator, DocumentBlobValidated otherwise.
Event == [blob: Uploads, version: Nat, based: IfMatches]

Item == [cmd: Command, n: Nat, st: {"ready", "out", "gone"}]

\* Where a handler or request stands: the call it makes next, the command it
\* serves, and the locals that survive an await.
Local == [pc: {"idle", "load", "expired", "list", "assemble", "head", "scan",
               "create", "dup", "history", "last", "append", "abort", "delete",
               "get", "cas", "settle", "publish", "done"},
          cmd: Command, item: Nat, final: BOOLEAN,
          want: {"scanning", "accepted", "rejected", "expired", "retry"},
          ver: Nat, sup: BOOLEAN, seq: Nat, rev: Nat, tries: Nat]
Idle == [pc |-> "idle", cmd |-> NoCommand, item |-> 0, final |-> FALSE,
         want |-> "scanning", ver |-> 0, sup |-> FALSE, seq |-> 0, rev |-> 0,
         tries |-> 0]

Init ==
  /\ rec = [u \in Uploads |-> NoRecord]
  /\ mp = [u \in Uploads |-> "none"]
  /\ bytes = [u \in Uploads |-> "none"]
  /\ obj = [u \in Uploads |-> "absent"]
  /\ orphaned = {}
  /\ issued = {}
  /\ log = <<>>
  /\ window = {}
  /\ cmds = {}
  /\ queue = <<>>
  /\ h = [p \in Procs |-> Idle]
  /\ faults = 0
  /\ lapses = 0

blobVars == <<mp, bytes, obj, orphaned>>
logVars == <<log, window>>
workVars == <<cmds, queue>>
budget == <<faults, lapses>>

At(p, pc) == h[p].pc = pc
Upload(p) == h[p].cmd.u
Become(p, local) == h' = [h EXCEPT ![p] = local]
Goto(p, pc) == Become(p, [h[p] EXCEPT !.pc = pc])
Spend == faults < MaxFaults /\ faults' = faults + 1 /\ UNCHANGED lapses

------------------------------------------------------------------------------
(***************************************************************************)
(* The client and object storage                                           *)
(***************************************************************************)

\* POST /api/uploads.  A replace resolves its target in the event log first.
\* Nobody else can name the upload before the handler returns, so the handler
\* is one step.
Preflight(u) ==
  /\ mp[u] = "none"
  /\ u # Creator => log # <<>>
  /\ mp' = [mp EXCEPT ![u] = "open"]
  /\ rec' = [rec EXCEPT ![u] = [NoRecord EXCEPT !.status = "uploading", !.rev = 1]]
  /\ issued' = issued \cup {u}
  /\ UNCHANGED <<bytes, obj, orphaned, logVars, workVars, h, budget>>

\* The record could not be created: the preflight purges it and aborts the
\* multipart, and the client never learns the id.  Each undo may fail, and a
\* crash skips both.
PreflightUnwound(u) ==
  /\ mp[u] = "none"
  /\ u # Creator => log # <<>>
  /\ Spend
  /\ \E left \in {"open", "gone"} : mp' = [mp EXCEPT ![u] = left]
  /\ \E left \in {NoRecord, [NoRecord EXCEPT !.status = "uploading", !.rev = 1]} :
       rec' = [rec EXCEPT ![u] = left]
  /\ UNCHANGED <<bytes, obj, orphaned, issued, logVars, workVars, h>>

\* The browser PUTs its parts to presigned URLs.
PutParts(u) ==
  /\ u \in issued
  /\ mp[u] = "open"
  /\ bytes[u] = "none"
  /\ \E k \in Kinds : bytes' = [bytes EXCEPT ![u] = k]
  /\ UNCHANGED <<rec, mp, obj, orphaned, issued, logVars, workVars, h, budget>>

\* The bucket's max_age takes the record.
Expire(u) ==
  /\ rec[u].status # "absent"
  /\ rec' = [rec EXCEPT ![u] = NoRecord]
  /\ Spend
  /\ UNCHANGED <<blobVars, issued, logVars, workVars, h>>

\* The incomplete-multipart reaper, which runs on the same lifetime.
ReapMultipart(u) ==
  /\ mp[u] = "open"
  /\ mp' = [mp EXCEPT ![u] = "gone"]
  /\ Spend
  /\ UNCHANGED <<rec, bytes, obj, orphaned, issued, logVars, workVars, h>>

\* The two-hour duplicate windows pass.  The window on events is sized to
\* outlast every delivery of the work item that could append the same event.
ForgetCommand(u) ==
  /\ u \in cmds
  /\ cmds' = cmds \ {u}
  /\ Spend
  /\ UNCHANGED <<rec, blobVars, issued, logVars, queue, h>>

ForgetEvent(u) ==
  /\ u \in window
  /\ \A w \in Workers : ~At(w, "idle") => Upload(w) # u
  /\ window' = window \ {u}
  /\ Spend
  /\ UNCHANGED <<rec, blobVars, issued, log, workVars, h>>

------------------------------------------------------------------------------
(***************************************************************************)
(* POST /complete: publish the work item, then mark the record scanning    *)
(***************************************************************************)

\* load_context, and the refusal of if_match on a create.  A terminal record
\* does not refuse the call.
Complete(q) ==
  /\ At(q, "idle")
  /\ \E u \in issued, ifm \in IfMatches, pol \in Policies :
       /\ rec[u].status # "absent"
       /\ u = Creator => ifm = 0
       /\ Become(q, [Idle EXCEPT !.pc = "publish",
                       !.cmd = [u |-> u, ifm |-> ifm, pol |-> pol]])
  /\ UNCHANGED <<rec, blobVars, issued, logVars, workVars, budget>>

\* The message id derives from the upload alone: inside the window a second
\* command is acknowledged as a duplicate and dropped.
Enqueue(cmd) ==
  IF cmd.u \in cmds
  THEN UNCHANGED workVars
  ELSE /\ Len(queue) < MaxItems
       /\ queue' = Append(queue, [cmd |-> cmd, n |-> 0, st |-> "ready"])
       /\ cmds' = cmds \cup {cmd.u}

Publish(q) ==
  /\ At(q, "publish")
  /\ Enqueue(h[q].cmd)
  /\ Goto(q, "get")
  /\ UNCHANGED <<rec, blobVars, issued, logVars, budget>>

\* The publish fails, before or after the stream stored the item, or the
\* api-service dies: the record is not marked.
RequestFails(q) ==
  /\ ~At(q, "idle") /\ ~At(q, "done")
  /\ Spend
  /\ \/ At(q, "publish") /\ Enqueue(h[q].cmd)
     \/ UNCHANGED workVars
  /\ Become(q, [Idle EXCEPT !.pc = "done"])
  /\ UNCHANGED <<rec, blobVars, issued, logVars>>

------------------------------------------------------------------------------
(***************************************************************************)
(* transition::set_status, the one way a status moves: shared by /complete *)
(* (scanning) and by the worker's record (accepted, rejected)              *)
(***************************************************************************)

\* Every way out of set_status ends the write; nothing reacts to which.
Recorded(p) ==
  Become(p, IF p \in Workers
            THEN [h[p] EXCEPT !.pc = "settle", !.rev = 0, !.tries = 0]
            ELSE [Idle EXCEPT !.pc = "done"])

\* Slip: a status that is already terminal is not left alone.
StateGetOverTerminal(p) ==
  /\ At(p, "get")
  /\ IF rec[Upload(p)].status = "absent"
     THEN Recorded(p)
     ELSE Become(p, [h[p] EXCEPT !.pc = "cas", !.rev = rec[Upload(p)].rev])
  /\ UNCHANGED <<rec, blobVars, issued, logVars, workVars, budget>>

StateGet(p) ==
  /\ At(p, "get")
  /\ IF rec[Upload(p)].status \in {"absent"} \cup Terminal
     THEN Recorded(p)
     ELSE Become(p, [h[p] EXCEPT !.pc = "cas", !.rev = rec[Upload(p)].rev])
  /\ UNCHANGED <<rec, blobVars, issued, logVars, workVars, budget>>

\* Slip: a plain put, whatever the revision.
StateCasBlind(p) ==
  /\ At(p, "cas")
  /\ rec' = [rec EXCEPT ![Upload(p)] =
               [status |-> h[p].want, version |-> h[p].ver,
                superseded |-> h[p].sup, rev |-> @.rev + 1]]
  /\ Recorded(p)
  /\ UNCHANGED <<blobVars, issued, logVars, workVars, budget>>

StateCas(p) ==
  /\ At(p, "cas")
  /\ LET r == rec[Upload(p)] IN
     \/ /\ r.rev = h[p].rev
        /\ rec' = [rec EXCEPT ![Upload(p)] =
                     [status |-> h[p].want, version |-> h[p].ver,
                      superseded |-> h[p].sup, rev |-> r.rev + 1]]
        /\ Recorded(p)
     \/ /\ r.rev # h[p].rev
        /\ IF r.status # "absent" /\ h[p].tries + 1 < CasAttempts
           THEN Become(p, [h[p] EXCEPT !.pc = "get", !.rev = 0, !.tries = @ + 1])
           ELSE Recorded(p)
        /\ UNCHANGED rec
  /\ UNCHANGED <<blobVars, issued, logVars, workVars, budget>>

\* The KV store answers the worker with an error, which is a log line.
StateFails(w) ==
  /\ At(w, "get") \/ At(w, "cas")
  /\ Spend
  /\ Recorded(w)
  /\ UNCHANGED <<rec, blobVars, issued, logVars, workVars>>

------------------------------------------------------------------------------
(***************************************************************************)
(* The outcomes of the finisher                                            *)
(***************************************************************************)

\* accept: record the answer, then let the caller ack.
Accept(w, version, superseded) ==
  Become(w, [h[w] EXCEPT !.pc = "get", !.want = "accepted", !.ver = version,
               !.sup = superseded, !.seq = 0, !.tries = 0])

\* Slip: the answer is recorded and the bytes are left behind.
RejectUnreclaimed(w) ==
  Become(w, [h[w] EXCEPT !.pc = "get", !.want = "rejected", !.ver = 0,
               !.sup = FALSE, !.seq = 0, !.tries = 0])

\* reject: reclaim the bytes first (abort, then delete), then record.
Reject(w) ==
  Become(w, [h[w] EXCEPT !.pc = "abort", !.want = "rejected", !.ver = 0,
               !.sup = FALSE, !.seq = 0, !.tries = 0])

\* finish: a transient failure is retried, except on the final delivery,
\* where it becomes a rejection.
Retry(w) ==
  IF h[w].final
  THEN Reject(w)
  ELSE Become(w, [h[w] EXCEPT !.pc = "settle", !.want = "retry", !.ver = 0,
                    !.seq = 0, !.tries = 0])

------------------------------------------------------------------------------
(***************************************************************************)
(* The work queue and the handler's decision                               *)
(***************************************************************************)

\* The consumer pulls a message; num_delivered decides whether it is final.
Deliver(w) ==
  /\ At(w, "idle")
  /\ \E i \in DOMAIN queue :
       /\ queue[i].st = "ready"
       /\ queue[i].n < MaxDeliver
       /\ queue' = [queue EXCEPT ![i].st = "out", ![i].n = @ + 1]
       /\ Become(w, [Idle EXCEPT !.pc = "load", !.cmd = queue[i].cmd, !.item = i,
                        !.final = (queue[i].n + 1 >= MaxDeliver)])
  /\ UNCHANGED <<rec, blobVars, issued, logVars, cmds, budget>>

\* ack_wait passes without an answer: the handler died, or its heartbeat did.
AckWait(i) ==
  /\ queue[i].st = "out"
  /\ IF \E w \in Workers : ~At(w, "idle") /\ h[w].item = i
     THEN lapses < MaxLapses /\ lapses' = lapses + 1
     ELSE UNCHANGED lapses
  /\ queue' = [queue EXCEPT ![i].st = "ready"]
  /\ UNCHANGED <<rec, blobVars, issued, logVars, cmds, h, faults>>

\* Slip: a retry acks the item like every other outcome.
SettleAcksRetry(w) ==
  /\ At(w, "settle")
  /\ \/ queue' = [queue EXCEPT ![h[w].item].st = "gone"] /\ UNCHANGED budget
     \/ Spend /\ UNCHANGED queue
  /\ Become(w, Idle)
  /\ UNCHANGED <<rec, blobVars, issued, logVars, cmds>>

\* handle_work_item: Accepted and Rejected ack (or term) the item, which
\* deletes it; Retry naks it.  The answer may be lost on its way.
Settle(w) ==
  /\ At(w, "settle")
  /\ \/ /\ queue' = [queue EXCEPT ![h[w].item].st =
                        IF h[w].want = "retry" /\ @ # "gone" THEN "ready" ELSE "gone"]
        /\ UNCHANGED budget
     \/ Spend /\ UNCHANGED queue
  /\ Become(w, Idle)
  /\ UNCHANGED <<rec, blobVars, issued, logVars, cmds>>

Crash(w) ==
  /\ ~At(w, "idle")
  /\ Spend
  /\ Become(w, Idle)
  /\ UNCHANGED <<rec, blobVars, issued, logVars, workVars>>

------------------------------------------------------------------------------
(***************************************************************************)
(* UploadFinisher::run, up to the verdict on the bytes                     *)
(***************************************************************************)

\* Step 0: a terminal record is replayed, a missing one is cleaned up.
LoadState(w) ==
  /\ At(w, "load")
  /\ LET s == rec[Upload(w)].status IN
     \/ s \in Terminal /\ Become(w, [h[w] EXCEPT !.pc = "settle", !.want = s])
     \/ s = "absent" /\ Goto(w, "expired")
     \/ s \in {"uploading", "scanning"} /\ Goto(w, "list")
  /\ UNCHANGED <<rec, blobVars, issued, logVars, workVars, budget>>

\* Positions of an upload's events in the document's history.
Applied(u) == {k \in DOMAIN log : log[k].blob = u}

\* Slip: an expired record means the upload never landed.
DiscardUnasked(w) ==
  /\ At(w, "expired")
  /\ Become(w, [h[w] EXCEPT !.pc = "abort", !.want = "expired"])
  /\ UNCHANGED <<rec, blobVars, issued, logVars, workVars, budget>>

\* discard_expired: the log is asked first; only bytes that never became a
\* version are reclaimed, and nothing is recorded.
DiscardExpired(w) ==
  /\ At(w, "expired")
  /\ IF Applied(Upload(w)) # {}
     THEN Become(w, [h[w] EXCEPT !.pc = "settle", !.want = "accepted"])
     ELSE Become(w, [h[w] EXCEPT !.pc = "abort", !.want = "expired"])
  /\ UNCHANGED <<rec, blobVars, issued, logVars, workVars, budget>>

\* assemble: ListParts.
ListParts(w) ==
  /\ At(w, "list")
  /\ \/ mp[Upload(w)] # "open" /\ Goto(w, "head")
     \/ mp[Upload(w)] = "open" /\ bytes[Upload(w)] = "none" /\ Reject(w)
     \/ mp[Upload(w)] = "open" /\ bytes[Upload(w)] # "none" /\ Goto(w, "assemble")
  /\ UNCHANGED <<rec, blobVars, issued, logVars, workVars, budget>>

\* assemble: CompleteMultipartUpload.  NoSuchUpload means another delivery got
\* there first; a HEAD settles it.  A transient error may follow the effect.
CompleteMultipart(w) ==
  /\ At(w, "assemble")
  /\ LET u == Upload(w) IN
     \/ /\ mp[u] # "open"
        /\ Goto(w, "head")
        /\ UNCHANGED <<mp, obj, budget>>
     \/ /\ mp[u] = "open" /\ bytes[u] = "invalid"
        /\ Reject(w)
        /\ UNCHANGED <<mp, obj, budget>>
     \/ /\ mp[u] = "open" /\ bytes[u] # "invalid"
        /\ mp' = [mp EXCEPT ![u] = "gone"]
        /\ obj' = [obj EXCEPT ![u] = bytes[u]]
        /\ \/ Goto(w, "head") /\ UNCHANGED budget
           \/ Spend /\ Retry(w)
  /\ UNCHANGED <<rec, bytes, orphaned, issued, logVars, workVars>>

\* Step 2: HEAD, and the declared size.
HeadObject(w) ==
  /\ At(w, "head")
  /\ IF obj[Upload(w)] \in {"absent", "badsize"} THEN Reject(w) ELSE Goto(w, "scan")
  /\ UNCHANGED <<rec, blobVars, issued, logVars, workVars, budget>>

\* Steps 3 and 4: sniff the prefix, scan the whole object.  Both only read, and
\* a read of a deleted object is an error like any other, so they are one step.
Scan(w) ==
  /\ At(w, "scan")
  /\ LET u == Upload(w) IN
     \/ obj[u] = "absent" /\ Retry(w)
     \/ obj[u] = "refused" /\ Reject(w)
     \/ obj[u] = "good" /\ Goto(w, IF u = Creator THEN "create" ELSE "history")
  /\ UNCHANGED <<rec, blobVars, issued, logVars, workVars, budget>>

------------------------------------------------------------------------------
(***************************************************************************)
(* The append paths                                                        *)
(***************************************************************************)

HeadVersion == IF log = <<>> THEN 0 ELSE log[Len(log)].version

\* superseded: the uploader named a version other than the one replaced.
Supersedes(based, version) == based # 0 /\ based # version - 1

\* Slips: a random event id, which no window recognises, and a publish that
\* expects nothing of the subject.
DuplicateNever(u) == u \in window \ Uploads
ConflictsNever(seq) == seq > Len(log)

\* EventStore::append.  JetStream looks at the message id before the expected
\* sequence, so a duplicate is acknowledged whatever the subject holds now.
Duplicate(u) == u \in window
Conflicts(seq) == seq # Len(log)
Store(u, version, based) ==
  /\ log' = Append(log, [blob |-> u, version |-> version, based |-> based])
  /\ window' = window \cup {u}

\* Slip: a publish that failed is taken for one whose ack was lost.
AppendCreateUnchecked(w) ==
  /\ At(w, "create")
  /\ LET u == Upload(w) IN
     \/ /\ Duplicate(u) \/ Conflicts(0)
        /\ Goto(w, "dup")
        /\ UNCHANGED <<logVars, budget>>
     \/ /\ ~Duplicate(u) /\ ~Conflicts(0)
        /\ \/ Store(u, 1, 0) /\ UNCHANGED budget
           \/ Spend /\ UNCHANGED logVars
        /\ Accept(w, 1, FALSE)
  /\ UNCHANGED <<rec, blobVars, issued, workVars>>

\* append_create: expects an empty subject; a conflict means an earlier
\* delivery created the document, and is answered like a duplicate.  The ack
\* of a stored event may be lost, which reads as Unavailable.
AppendCreate(w) ==
  /\ At(w, "create")
  /\ LET u == Upload(w) IN
     \/ /\ Duplicate(u) \/ Conflicts(0)
        /\ Goto(w, "dup")
        /\ UNCHANGED <<logVars, budget>>
     \/ /\ ~Duplicate(u) /\ ~Conflicts(0)
        /\ Store(u, 1, 0)
        /\ \/ Accept(w, 1, FALSE) /\ UNCHANGED budget
           \/ Spend /\ Retry(w)
  /\ UNCHANGED <<rec, blobVars, issued, workVars>>

\* resolve_duplicate, and the last() after AlreadyCreated: both take the
\* version of the newest event of the subject.
ResolveDuplicate(w) ==
  /\ At(w, "dup")
  /\ Accept(w, HeadVersion, Supersedes(h[w].cmd.ifm, HeadVersion))
  /\ UNCHANGED <<rec, blobVars, issued, logVars, workVars, budget>>

\* append_replaced: the redelivery guard over the whole history, then the
\* conflict policy against the folded version.  The history is never empty
\* (preflight found the document) and always folds (see VersionsDense), so
\* the two rejections for those cases cannot happen here.
ReadHistory(w) ==
  /\ At(w, "history")
  /\ LET cmd == h[w].cmd IN
     \/ \E k \in Applied(cmd.u) :
          /\ \A j \in Applied(cmd.u) : k <= j
          /\ Accept(w, log[k].version, Supersedes(log[k].based, log[k].version))
     \/ /\ Applied(cmd.u) = {}
        /\ cmd.ifm \notin {0, HeadVersion} /\ cmd.pol = "fail"
        /\ Reject(w)
     \/ /\ Applied(cmd.u) = {}
        /\ ~(cmd.ifm \notin {0, HeadVersion} /\ cmd.pol = "fail")
        /\ Goto(w, "last")
  /\ UNCHANGED <<rec, blobVars, issued, logVars, workVars, budget>>

\* append_update, one attempt: read the subject's last version and sequence...
ReadLast(w) ==
  /\ At(w, "last")
  /\ Become(w, [h[w] EXCEPT !.pc = "append", !.ver = HeadVersion + 1, !.seq = Len(log)])
  /\ UNCHANGED <<rec, blobVars, issued, logVars, workVars, budget>>

\* ...and compare-and-append on it.  A conflict re-reads, UpdateAttempts times.
AppendUpdate(w) ==
  /\ At(w, "append")
  /\ LET cmd == h[w].cmd IN
     \/ /\ Duplicate(cmd.u)
        /\ Goto(w, "dup")
        /\ UNCHANGED <<logVars, budget>>
     \/ /\ ~Duplicate(cmd.u) /\ Conflicts(h[w].seq)
        /\ IF h[w].tries + 1 < UpdateAttempts
           THEN Become(w, [h[w] EXCEPT !.pc = "last", !.ver = 0, !.seq = 0, !.tries = @ + 1])
           ELSE Retry(w)
        /\ UNCHANGED <<logVars, budget>>
     \/ /\ ~Duplicate(cmd.u) /\ ~Conflicts(h[w].seq)
        /\ Store(cmd.u, h[w].ver, cmd.ifm)
        /\ \/ /\ Accept(w, h[w].ver, Supersedes(cmd.ifm, h[w].ver))
              /\ UNCHANGED budget
           \/ Spend /\ Retry(w)
  /\ UNCHANGED <<rec, blobVars, issued, workVars>>

\* Any of the calls above answers with a transient error.
Transient(w) ==
  /\ h[w].pc \in {"load", "expired", "list", "assemble", "head", "scan", "create",
                  "dup", "history", "last", "append"}
  /\ Spend
  /\ Retry(w)
  /\ UNCHANGED <<rec, blobVars, issued, logVars, workVars>>

------------------------------------------------------------------------------
(***************************************************************************)
(* reclaim: abort, then delete; a failure of either is a log line          *)
(***************************************************************************)

AbortMultipart(w) ==
  /\ At(w, "abort")
  /\ \/ /\ mp' = [mp EXCEPT ![Upload(w)] = "gone"]
        /\ UNCHANGED <<orphaned, budget>>
     \/ /\ Spend
        /\ orphaned' = orphaned \cup {Upload(w)}
        /\ UNCHANGED mp
  /\ Goto(w, "delete")
  /\ UNCHANGED <<rec, bytes, obj, issued, logVars, workVars>>

DeleteObject(w) ==
  /\ At(w, "delete")
  /\ \/ /\ obj' = [obj EXCEPT ![Upload(w)] = "absent"]
        /\ UNCHANGED <<orphaned, budget>>
     \/ /\ Spend
        /\ orphaned' = orphaned \cup {Upload(w)}
        /\ UNCHANGED obj
  /\ Goto(w, IF h[w].want = "expired" THEN "settle" ELSE "get")
  /\ UNCHANGED <<rec, mp, bytes, issued, logVars, workVars>>

------------------------------------------------------------------------------

Client(u) == Preflight(u) \/ PreflightUnwound(u) \/ PutParts(u)
Passage(u) == Expire(u) \/ ReapMultipart(u) \/ ForgetCommand(u) \/ ForgetEvent(u)
Request(q) == Complete(q) \/ Publish(q) \/ RequestFails(q) \/ StateGet(q) \/ StateCas(q)
Pipeline(w) ==
  \/ LoadState(w) \/ DiscardExpired(w) \/ ListParts(w) \/ CompleteMultipart(w)
  \/ HeadObject(w) \/ Scan(w) \/ AppendCreate(w) \/ ResolveDuplicate(w)
  \/ ReadHistory(w) \/ ReadLast(w) \/ AppendUpdate(w) \/ AbortMultipart(w)
  \/ DeleteObject(w) \/ StateGet(w) \/ StateCas(w) \/ Settle(w)
Handler(w) == Deliver(w) \/ Pipeline(w) \/ Transient(w) \/ StateFails(w) \/ Crash(w)

Next ==
  \/ \E u \in Uploads : Client(u) \/ Passage(u)
  \/ \E q \in Requests : Request(q)
  \/ \E w \in Workers : Handler(w)
  \/ \E i \in DOMAIN queue : AckWait(i)

Spec == Init /\ [][Next]_vars

------------------------------------------------------------------------------
(***************************************************************************)
(* Properties                                                              *)
(***************************************************************************)

\* Every variable holds a value of its type.
TypeOK ==
  /\ rec \in [Uploads -> Record]
  /\ mp \in [Uploads -> {"none", "open", "gone"}]
  /\ bytes \in [Uploads -> {"none"} \cup Kinds]
  /\ obj \in [Uploads -> {"absent"} \cup Kinds]
  /\ orphaned \subseteq Uploads
  /\ issued \subseteq Uploads
  /\ log \in Seq(Event)
  /\ window \subseteq Uploads
  /\ cmds \subseteq Uploads
  /\ queue \in Seq(Item)
  /\ h \in [Procs -> Local]
  /\ faults \in 0..MaxFaults
  /\ lapses \in 0..MaxLapses

\* The versions of a document are 1, 2, 3, ... in log order, whatever
\* uploads race: append_update's version comes from the last() it read, and
\* the per-subject sequence CAS refuses it once anything landed in between.
VersionsDense == \A k \in DOMAIN log : log[k].version = k

\* An upload becomes at most one version, although its work item is delivered
\* several times, by several handlers at once, and its append may be stored
\* while its ack is lost.
OneEventPerUpload ==
  \A j, k \in DOMAIN log : log[j].blob = log[k].blob => j = k

\* A record says accepted only when the upload's event is in the log, at or
\* before the version the record names ("after the event, never before").
AcceptedIsLogged ==
  \A u \in Uploads : rec[u].status = "accepted" =>
    \E k \in DOMAIN log : /\ log[k].blob = u
                          /\ k <= rec[u].version
                          /\ rec[u].version <= Len(log)

\* A terminal status is final: a late scanning, or a second handler's answer,
\* never replaces it, and an expired record is never resurrected.  Only the
\* bucket's max_age removes it.
TerminalIsFinal ==
  [][\A u \in Uploads :
       /\ rec[u].status \in Terminal => rec'[u] \in {rec[u], NoRecord}
       /\ mp[u] # "none" /\ rec[u] = NoRecord => rec'[u] = NoRecord]_vars

\* While an upload has one work item, deliveries left and one handler at a
\* time, neither a rejection nor an expiry reclaims the bytes of a version:
\* discard_expired asks the log, and the history guard precedes every verdict.
ReclaimSparesVersions ==
  \A k \in DOMAIN log : LET u == log[k].blob
                           mine == {i \in DOMAIN queue : queue[i].cmd.u = u} IN
    obj[u] = "absent" =>
      \/ lapses > 0
      \/ \E i \in mine : queue[i].n >= MaxDeliver
      \/ \E i, j \in mine : i # j

\* The bytes of every version in the log are in the object store, without
\* those provisos: the callers of reclaim know that no version needs them.
ReferencedBlobsKept == \A k \in DOMAIN log : obj[log[k].blob] # "absent"

\* An assembled object that is not yet a version is covered by a work item
\* that was not acked ("ack after append, never before"), or its delete failed
\* and the failure was logged.  An item out of deliveries counts: what becomes of
\* the bytes then is BytesResolved's matter.
UnloggedBytesAreOwned ==
  \A u \in Uploads : obj[u] # "absent" /\ Applied(u) = {} =>
    \/ u \in orphaned
    \/ \E i \in DOMAIN queue : queue[i].cmd.u = u /\ queue[i].st # "gone"

\* When a record says rejected the bytes are gone, multipart and object,
\* unless a storage call of the reclaim failed: reject reclaims before it
\* records, and no slower handler of the item can bring them back.
RejectedIsReclaimed ==
  \A u \in Uploads : rec[u].status = "rejected" =>
    u \in orphaned \/ (obj[u] = "absent" /\ mp[u] = "gone")

(***************************************************************************)
(* Progress.  A handler or request whose next call can be made makes it    *)
(* (each is a task the runtime polls), an idle slot pulls what is ready,   *)
(* and an unanswered item's ack_wait runs out.                             *)
(***************************************************************************)
Fairness ==
  /\ \A w \in Workers : WF_vars(Deliver(w) \/ Pipeline(w))
  /\ \A q \in Requests : WF_vars(Publish(q) \/ StateGet(q) \/ StateCas(q))
  /\ \A i \in 1..MaxItems : WF_vars(i \in DOMAIN queue /\ AckWait(i))

FairSpec == Spec /\ Fairness

\* A record that says scanning does not say so for ever, as long as no call
\* fails: the late scanning of a /complete never buries the worker's answer.
ScanningEnds ==
  \A u \in Uploads : rec[u].status = "scanning" ~>
    rec[u].status # "scanning" \/ faults > 0

\* Assembled bytes become a version or are reclaimed (or reported orphaned),
\* although a handler may die between assembling them and appending.
BytesResolved ==
  \A u \in Uploads : obj[u] # "absent" ~>
    obj[u] = "absent" \/ Applied(u) # {} \/ u \in orphaned

------------------------------------------------------------------------------
(***************************************************************************)
(* The pipeline implements UploadContract: what a client polls is the      *)
(* record, and the history is the log.                                     *)
(***************************************************************************)
Contract == INSTANCE UploadContract WITH
  status  <- [u \in Uploads |-> IF rec[u].status = "absent"
                                THEN IF mp[u] = "none" THEN "none" ELSE "gone"
                                ELSE rec[u].status],
  version <- [u \in Uploads |-> rec[u].version],
  history <- [k \in DOMAIN log |-> log[k].blob]

\* Every step of handlers, requests and storage is a step of the contract or
\* is invisible to it, in every interleaving, crash and redelivery.
ImplementsContract == Contract!ContractSpec

=============================================================================
