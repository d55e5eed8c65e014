-------------------------- MODULE UploadInvariant ---------------------------
(***************************************************************************)
(* The inductive invariant of UploadPipeline, for any number of uploads,   *)
(* handlers, requests, redeliveries and faults, and its preservation by the*)
(* client, the passage of time, the requests, the compare-and-swap loop on *)
(* the status record, the work queue, and the worker up to the append.     *)
(***************************************************************************)
EXTENDS UploadPipeline, TLAPS

(***************************************************************************)
(* The inductive invariant: what is shared, then what one handler or       *)
(* request knows about it.                                                 *)
(***************************************************************************)
Landed(u) == \E k \in 1..Len(log) : log[k].blob = u

\* The log: dense versions, one event per upload, created first.
LogInv ==
  /\ \A k \in 1..Len(log) : log[k].version = k
  /\ \A j, k \in 1..Len(log) : log[j].blob = log[k].blob => j = k
  /\ Len(log) > 0 => Landed(Creator)
  /\ \A u \in window : Landed(u)

\* The records: nothing exists before preflight, a revision marks presence,
\* only an accepted record names a version, and that version is in the log.
RecOK(u) ==
  /\ mp[u] = "none" => rec[u] = NoRecord /\ u \notin issued
  /\ rec[u].status = "absent" => rec[u] = NoRecord
  /\ rec[u].status # "absent" => rec[u].rev > 0
  /\ rec[u].status # "accepted" => rec[u].version = 0
  /\ rec[u].status = "accepted" =>
       /\ rec[u].version <= Len(log)
       /\ \E k \in 1..rec[u].version : log[k].blob = u
  /\ mp[u] # "none" /\ u # Creator => Len(log) > 0

RecordInv == \A u \in Uploads : RecOK(u)

\* The queue holds commands of uploads that exist.
QueueInv == \A i \in 1..Len(queue) : mp[queue[i].cmd.u] # "none"

\* What each call site may rely on.
PcInv(p) ==
  LET l == h[p] IN
  /\ p \in Requests => l.pc \in {"idle", "publish", "get", "cas", "done"}
  /\ p \in Workers => l.pc \notin {"publish", "done"}
  /\ p \in Workers /\ l.pc # "idle" => l.item \in 1..Len(queue)
  /\ l.pc \notin {"idle", "done"} => mp[l.cmd.u] # "none"
  /\ l.pc = "assemble" => bytes[l.cmd.u] # "none"
  /\ l.pc \in {"load", "expired", "publish", "abort", "delete"} => l.ver = 0
  /\ l.pc = "publish" => l.want = "scanning"
  /\ l.pc \in {"abort", "delete"} => l.want \in {"rejected", "expired"}
  /\ l.pc \in {"get", "cas"} => l.want \in {"scanning", "accepted", "rejected"}
  /\ l.pc \in {"get", "cas"} /\ l.want # "accepted" => l.ver = 0

\* append_create runs for the creator, append_update for the others; between
\* the history guard and the append an upload that landed is in the window.
AppendInv(p) ==
  LET l == h[p] IN
  /\ l.pc = "create" => l.cmd.u = Creator
  /\ l.pc \in {"history", "last", "append"} => l.cmd.u # Creator
  /\ l.pc \in {"last", "append"} /\ Landed(l.cmd.u) => l.cmd.u \in window
  /\ l.pc = "append" => l.seq <= Len(log) /\ l.seq > 0 /\ l.ver = l.seq + 1

\* An answer about to be recorded is true, and a pending compare-and-swap
\* cannot succeed on a record that has become terminal or expired.
AnswerInv(p) ==
  LET l == h[p] IN
  /\ l.pc = "dup" => Landed(l.cmd.u)
  /\ l.pc \in {"get", "cas"} /\ l.want = "accepted" =>
       /\ l.ver <= Len(log)
       /\ \E k \in 1..l.ver : log[k].blob = l.cmd.u
  /\ l.pc = "cas" =>
       /\ l.rev > 0
       /\ rec[l.cmd.u].status # "absent" => l.rev <= rec[l.cmd.u].rev
       /\ rec[l.cmd.u].rev = l.rev => rec[l.cmd.u].status \in {"uploading", "scanning"}

ProcInv(p) == PcInv(p) /\ AppendInv(p) /\ AnswerInv(p)

IInv == TypeOK /\ LogInv /\ RecordInv /\ QueueInv /\ \A p \in Procs : ProcInv(p)

-----------------------------------------------------------------------------

USE ZenonT(30)
USE UploadsAssumption, ProcsAssumption, InputsAssumption, BoundsAssumption

\* Nothing is uploaded, queued or running at the start.
LEMMA InitInv == Init => IInv
<1> SUFFICES ASSUME Init PROVE IInv
  OBVIOUS
<1>1. TypeOK
  BY SMT DEF Init, TypeOK, NoRecord, Record, Procs, Idle, Local, NoCommand, Command, Event, Item
<1>2. LogInv /\ QueueInv
  BY SMT DEF Init, LogInv, QueueInv
<1>3. RecordInv
  BY DEF Init, RecordInv, RecOK, NoRecord
<1>4. \A p \in Procs : ProcInv(p)
  BY DEF Init, ProcInv, PcInv, AppendInv, AnswerInv, Idle, Procs
<1> QED
  BY <1>1, <1>2, <1>3, <1>4 DEF IInv

\* What a step may do to the shared state without anyone noticing: move bytes
\* and multiparts of uploads that exist, publish items, change their delivery
\* state, spend budgets.
Harmless ==
  /\ mp' \in [Uploads -> {"none", "open", "gone"}]
  /\ bytes' \in [Uploads -> {"none"} \cup Kinds]
  /\ obj' \in [Uploads -> {"absent"} \cup Kinds]
  /\ orphaned' \subseteq Uploads
  /\ \A u \in Uploads : mp'[u] = "none" <=> mp[u] = "none"
  /\ \A u \in Uploads : bytes[u] # "none" => bytes'[u] # "none"
  /\ cmds' \subseteq Uploads
  /\ queue' \in Seq(Item) /\ Len(queue') >= Len(queue)
  /\ \A i \in 1..Len(queue') : mp[queue'[i].cmd.u] # "none"
  /\ faults' \in 0..MaxFaults /\ lapses' \in 0..MaxLapses
  /\ UNCHANGED <<rec, issued, log, window>>

\* An answer stays true while the log stands, if the record at which a
\* compare-and-swap is pending still makes it fail or find a pending upload.
LEMMA AnswerKept ==
  ASSUME NEW o \in Procs, AnswerInv(o), h'[o] = h[o], log' = log,
         h[o].pc = "cas" =>
           /\ rec'[h[o].cmd.u].status # "absent" => h[o].rev <= rec'[h[o].cmd.u].rev
           /\ rec'[h[o].cmd.u].rev = h[o].rev =>
                rec'[h[o].cmd.u].status \in {"uploading", "scanning"}
  PROVE  AnswerInv(o)'
<1>1. Landed(h[o].cmd.u)' <=> Landed(h[o].cmd.u)
  BY DEF Landed
<1>2. (\E k \in 1..h[o].ver : log[k].blob = h[o].cmd.u)'
        <=> \E k \in 1..h[o].ver : log[k].blob = h[o].cmd.u
  OBVIOUS
<1> QED
  BY <1>1, <1>2 DEF AnswerInv

\* Such a step preserves the invariant if every handler and request that
\* moves ends in a state that satisfies its own part.
LEMMA HarmlessStep ==
  ASSUME IInv, Harmless, h' \in [Procs -> Local],
         \A o \in Procs : h'[o] = h[o] \/ ProcInv(o)'
  PROVE  IInv'
<1>1. TypeOK'
  BY DEF IInv, TypeOK, Harmless
<1>2. LogInv'
  BY DEF IInv, LogInv, Landed, Harmless
<1>3. QueueInv'
  <2> SUFFICES ASSUME NEW i \in 1..Len(queue') PROVE mp'[queue'[i].cmd.u] # "none"
    BY DEF QueueInv
  <2>1. queue'[i] \in Item
    BY SMT DEF Harmless
  <2>2. queue'[i].cmd.u \in Uploads
    BY <2>1 DEF Item, Command
  <2> QED
    BY <2>2 DEF Harmless
<1>4. RecordInv'
  BY SMT DEF IInv, RecordInv, RecOK, Harmless
<1>5. ASSUME NEW o \in Procs, h'[o] = h[o] PROVE ProcInv(o)'
  <2>1. ProcInv(o) /\ h[o] \in Local
    BY DEF IInv, TypeOK
  <2>2. h[o].cmd.u \in Uploads /\ h[o].item \in Nat
    BY <2>1 DEF Local, Command
  <2>3. Len(queue) \in Nat /\ Len(queue') \in Nat /\ Len(queue') >= Len(queue)
    BY SMT DEF IInv, TypeOK, Harmless
  <2>4. /\ UNCHANGED <<rec, log, window>>
        /\ mp'[h[o].cmd.u] = "none" <=> mp[h[o].cmd.u] = "none"
        /\ bytes[h[o].cmd.u] # "none" => bytes'[h[o].cmd.u] # "none"
    BY <2>2 DEF Harmless
  <2>5. PcInv(o)'
    <3>1. h[o].item \in 1..Len(queue) => h[o].item \in 1..Len(queue')
      BY SMT, <2>2, <2>3
    <3> QED
      BY <2>1, <2>4, <1>5, <3>1 DEF ProcInv, PcInv
  <2>6. AppendInv(o)' /\ AnswerInv(o)'
    BY <2>1, <2>4, <1>5 DEF ProcInv, AppendInv, AnswerInv, Landed
  <2> QED
    BY <2>5, <2>6 DEF ProcInv
<1> QED
  BY <1>1, <1>2, <1>3, <1>4, <1>5 DEF IInv

\* The usual case: one handler or request moves.
LEMMA LocalStep ==
  ASSUME IInv, NEW p \in Procs, NEW l \in Local, Become(p, l), Harmless, ProcInv(p)'
  PROVE  IInv'
<1>1. h' = [h EXCEPT ![p] = l] /\ h \in [Procs -> Local]
  BY DEF Become, IInv, TypeOK
<1> QED
  BY <1>1, HarmlessStep

\* A step that leaves bytes, log and queue alone is harmless.
LEMMA QuietStep ==
  ASSUME IInv, UNCHANGED <<rec, blobVars, issued, logVars, workVars>>,
         Spend \/ UNCHANGED budget
  PROVE  Harmless
<1>1. UNCHANGED <<rec, mp, bytes, obj, orphaned, issued, log, window, cmds, queue>>
  BY DEF blobVars, logVars, workVars
<1>2. faults' \in 0..MaxFaults /\ lapses' \in 0..MaxLapses
  BY SMT DEF Spend, budget, IInv, TypeOK
<1>3. Len(queue) \in Nat
  BY SMT DEF IInv, TypeOK
<1> QED
  BY SMT, <1>1, <1>2, <1>3 DEF IInv, TypeOK, QueueInv, Harmless

\* reject, and the retry of a transient failure, leave a handler in a state
\* that relies on nothing but its item.
LEMMA RejectLocal ==
  ASSUME TypeOK, NEW w \in Workers, PcInv(w), ~At(w, "idle"), Reject(w) \/ Retry(w),
         mp'[Upload(w)] # "none", Len(queue') = Len(queue)
  PROVE  \E l \in Local : Become(w, l) /\ ProcInv(w)'
<1> DEFINE r == [h[w] EXCEPT !.pc = "abort", !.want = "rejected", !.ver = 0,
                   !.sup = FALSE, !.seq = 0, !.tries = 0]
           s == [h[w] EXCEPT !.pc = "settle", !.want = "retry", !.ver = 0,
                   !.seq = 0, !.tries = 0]
<1>1. h[w] \in Local /\ h \in [Procs -> Local] /\ w \in Procs
  BY DEF TypeOK, Procs
<1>2. r \in Local /\ s \in Local
  BY <1>1 DEF Local
<1>3. Become(w, r) \/ Become(w, s)
  BY DEF Reject, Retry
<1>4. ASSUME NEW l \in {r, s}, Become(w, l) PROVE ProcInv(w)'
  <2>1. h'[w] = l
    BY <1>1, <1>4 DEF Become
  <2>2. l.pc \in {"abort", "settle"} /\ l.ver = 0 /\ l.item = h[w].item /\ l.cmd = h[w].cmd
        /\ (l.pc = "abort" => l.want = "rejected")
    <3>1. CASE l = r
      BY <1>1, <3>1 DEF Local
    <3>2. CASE l = s
      BY <1>1, <3>2 DEF Local
    <3> QED
      BY <3>1, <3>2
  <2>3. w \notin Requests
    BY DEF Procs
  <2> QED
    BY <2>1, <2>2, <2>3, <1>1 DEF ProcInv, PcInv, AppendInv, AnswerInv, At, Upload
<1> QED
  BY <1>2, <1>3, <1>4

\* Facts about the types that the steps below use again and again.
LEMMA TypeFacts ==
  ASSUME TypeOK
  PROVE  /\ \A p \in Procs : h[p] \in Local /\ Upload(p) \in Uploads
         /\ \A u \in Uploads : rec[u] \in Record
         /\ \A k \in 1..Len(log) : log[k] \in Event
         /\ \A i \in 1..Len(queue) : queue[i] \in Item
         /\ Len(log) \in Nat /\ Len(queue) \in Nat
         /\ DOMAIN log = 1..Len(log) /\ DOMAIN queue = 1..Len(queue)
<1>1. \A p \in Procs : h[p] \in Local
  BY DEF TypeOK
<1>2. \A p \in Procs : Upload(p) \in Uploads
  BY <1>1 DEF Local, Command, Upload
<1>3. /\ \A u \in Uploads : rec[u] \in Record
      /\ log \in Seq(Event) /\ queue \in Seq(Item)
  BY DEF TypeOK
<1>4. /\ \A k \in 1..Len(log) : log[k] \in Event
      /\ \A i \in 1..Len(queue) : queue[i] \in Item
      /\ Len(log) \in Nat /\ Len(queue) \in Nat
      /\ DOMAIN log = 1..Len(log) /\ DOMAIN queue = 1..Len(queue)
  BY SMT, <1>3
<1> QED
  BY <1>1, <1>2, <1>3, <1>4

\* Preflight brings an upload into being; nobody holds its id yet.
LEMMA PreflightStep ==
  ASSUME IInv, NEW u \in Uploads, Preflight(u) \/ PreflightUnwound(u)
  PROVE  IInv'
<1> DEFINE new == [NoRecord EXCEPT !.status = "uploading", !.rev = 1]
<1>1. new \in Record /\ NoRecord \in Record /\ new.status = "uploading" /\ new.rev = 1
      /\ new.version = 0 /\ NoRecord.status = "absent" /\ NoRecord.version = 0
  BY DEF Record, NoRecord
<1>2. PICK r \in {new, NoRecord}, m \in {"open", "gone"} :
        rec' = [rec EXCEPT ![u] = r] /\ mp' = [mp EXCEPT ![u] = m]
  BY DEF Preflight, PreflightUnwound
<1>3. /\ mp[u] = "none" /\ (u # Creator => log # <<>>)
      /\ issued' \in {issued, issued \cup {u}}
      /\ UNCHANGED <<bytes, obj, orphaned, log, window, cmds, queue, h, lapses>>
      /\ faults' \in 0..MaxFaults
  BY SMT DEF Preflight, PreflightUnwound, logVars, workVars, budget, Spend, IInv, TypeOK
<1>4. TypeOK /\ LogInv /\ RecordInv /\ QueueInv /\ \A p \in Procs : ProcInv(p)
  BY DEF IInv
<1>5. TypeOK'
  BY <1>1, <1>2, <1>3, <1>4 DEF TypeOK
<1>6. LogInv'
  BY <1>3, <1>4 DEF LogInv, Landed
<1>7. QueueInv'
  BY SMTT(90), <1>2, <1>3, <1>4, TypeFacts DEF QueueInv, TypeOK, Item, Command
<1>8. ASSUME NEW v \in Uploads PROVE RecOK(v)'
  <2>1. Len(log) \in Nat /\ (log # <<>> => Len(log) > 0)
    BY SMT, <1>4 DEF TypeOK
  <2>2. CASE v = u
    <3>1. rec'[v] = r /\ mp'[v] = m
      BY <1>2, <1>4, <2>2 DEF TypeOK
    <3>2. /\ r.status # "accepted" /\ r.version = 0
          /\ (r.status = "absent" => r = NoRecord)
          /\ (r.status # "absent" => r.rev > 0)
      <4>1. CASE r = new
        BY SMT, <4>1, <1>1
      <4>2. CASE r = NoRecord
        BY <4>2, <1>1
      <4> QED
        BY <4>1, <4>2
    <3> QED
      BY <3>1, <3>2, <1>3, <2>1, <2>2 DEF RecOK
  <2>3. CASE v # u
    <3>1. rec'[v] = rec[v] /\ mp'[v] = mp[v]
      BY <1>2, <1>4, <2>3 DEF TypeOK
    <3> QED
      BY <3>1, <1>3, <1>4, <2>3 DEF RecordInv, RecOK
  <2> QED
    BY <2>2, <2>3
<1>9. RecordInv'
  BY <1>8 DEF RecordInv
<1>10. ASSUME NEW p \in Procs PROVE ProcInv(p)'
  <2>1. ProcInv(p) /\ h'[p] = h[p] /\ h[p] \in Local /\ h[p].cmd.u \in Uploads
    BY <1>3, <1>4, TypeFacts DEF Upload
  <2>2. CASE h[p].pc \in {"idle", "done"}
    BY <2>1, <2>2, <1>3 DEF ProcInv, PcInv, AppendInv, AnswerInv
  <2>3. CASE h[p].pc \notin {"idle", "done"}
    <3>1. h[p].cmd.u # u
      BY <2>1, <2>3, <1>3 DEF ProcInv, PcInv
    <3>2. rec'[h[p].cmd.u] = rec[h[p].cmd.u] /\ mp'[h[p].cmd.u] = mp[h[p].cmd.u]
      BY <3>1, <2>1, <1>2, <1>4 DEF TypeOK
    <3>3. PcInv(p)'
      BY <3>2, <2>1, <1>3 DEF ProcInv, PcInv
    <3>4. AppendInv(p)'
      BY <2>1, <1>3 DEF ProcInv, AppendInv, Landed
    <3>5. AnswerInv(p)'
      BY <3>2, <2>1, <1>3 DEF ProcInv, AnswerInv, Landed
    <3> QED
      BY <3>3, <3>4, <3>5 DEF ProcInv
  <2> QED
    BY <2>2, <2>3
<1> QED
  BY <1>5, <1>6, <1>7, <1>9, <1>10 DEF IInv

\* Storage and time act on bytes, multiparts and the command window only.
LEMMA PassageStep ==
  ASSUME IInv, NEW u \in Uploads, PutParts(u) \/ ReapMultipart(u) \/ ForgetCommand(u)
  PROVE  IInv'
<1>1. /\ UNCHANGED <<rec, obj, orphaned, issued, log, window, queue, h>>
      /\ faults' \in 0..MaxFaults /\ lapses' \in 0..MaxLapses
      /\ cmds' \subseteq Uploads
  BY SMT DEF PutParts, ReapMultipart, ForgetCommand, blobVars, logVars, workVars, Spend,
         budget, IInv, TypeOK
<1>2. /\ bytes' \in [Uploads -> {"none"} \cup Kinds]
      /\ \A v \in Uploads : bytes[v] # "none" => bytes'[v] # "none"
  BY SMT DEF PutParts, ReapMultipart, ForgetCommand, blobVars, IInv, TypeOK
<1>3. mp' = mp \/ (mp[u] = "open" /\ mp' = [mp EXCEPT ![u] = "gone"])
  BY DEF PutParts, ReapMultipart, ForgetCommand, blobVars
<1>4. /\ mp' \in [Uploads -> {"none", "open", "gone"}]
      /\ \A v \in Uploads : mp'[v] = "none" <=> mp[v] = "none"
  BY <1>3 DEF IInv, TypeOK
<1>5. Harmless
  <2>1. Len(queue) \in Nat
    BY SMT DEF IInv, TypeOK
  <2> QED
    BY SMT, <1>1, <1>2, <1>4, <2>1 DEF Harmless, IInv, TypeOK, QueueInv
<1> QED
  BY <1>1, <1>5, HarmlessStep DEF IInv, TypeOK

\* The record's lifetime ends: a compare-and-swap still pending on it has a
\* positive revision in hand, which an absent record does not match.
LEMMA ExpireStep ==
  ASSUME IInv, NEW u \in Uploads, Expire(u)
  PROVE  IInv'
<1>1. /\ rec' = [rec EXCEPT ![u] = NoRecord]
      /\ UNCHANGED <<mp, bytes, obj, orphaned, issued, log, window, cmds, queue, h, lapses>>
      /\ faults' \in 0..MaxFaults
  BY SMT DEF Expire, blobVars, logVars, workVars, Spend, IInv, TypeOK
<1>2. NoRecord \in Record /\ NoRecord.status = "absent" /\ NoRecord.version = 0
      /\ NoRecord.rev = 0
  BY DEF Record, NoRecord
<1>3. TypeOK'
  BY <1>1, <1>2 DEF IInv, TypeOK
<1>4. LogInv' /\ QueueInv'
  BY <1>1 DEF IInv, LogInv, Landed, QueueInv
<1>5. \A v \in Uploads : rec'[v] = rec[v] \/ rec'[v] = NoRecord
  BY <1>1 DEF IInv, TypeOK
<1>6. RecordInv'
  BY <1>1, <1>2, <1>5 DEF IInv, RecordInv, RecOK
<1>7. ASSUME NEW o \in Procs PROVE ProcInv(o)'
  <2>1. ProcInv(o) /\ h'[o] = h[o] /\ h[o] \in Local
    BY <1>1 DEF IInv, TypeOK
  <2>2. h[o].cmd.u \in Uploads /\ h[o].rev \in Nat
    BY <2>1 DEF Local, Command
  <2>3. rec'[h[o].cmd.u] = rec[h[o].cmd.u] \/ rec'[h[o].cmd.u] = NoRecord
    BY <2>2, <1>5
  <2>4. PcInv(o)' /\ AppendInv(o)'
    <3>1. PcInv(o)'
      BY <1>1, <2>1 DEF ProcInv, PcInv
    <3>2. AppendInv(o)'
      BY <1>1, <2>1 DEF ProcInv, AppendInv, Landed
    <3> QED
      BY <3>1, <3>2
  <2>5. AnswerInv(o)'
    <3>1. AnswerInv(o) /\ log' = log
      BY <1>1, <2>1 DEF ProcInv
    <3>2. CASE rec'[h[o].cmd.u] = rec[h[o].cmd.u]
      <4>1. h[o].pc = "cas" =>
              /\ rec'[h[o].cmd.u].status # "absent" => h[o].rev <= rec'[h[o].cmd.u].rev
              /\ rec'[h[o].cmd.u].rev = h[o].rev =>
                   rec'[h[o].cmd.u].status \in {"uploading", "scanning"}
        BY <3>1, <3>2 DEF AnswerInv
      <4> QED
        BY <2>1, <3>1, <4>1, AnswerKept
    <3>3. CASE rec'[h[o].cmd.u] = NoRecord
      <4>1. rec'[h[o].cmd.u].status = "absent" /\ rec'[h[o].cmd.u].rev = 0
        BY <1>2, <3>3
      <4>2. h[o].pc = "cas" => h[o].rev > 0 /\ rec'[h[o].cmd.u].rev # h[o].rev
        BY SMTT(30), <2>2, <3>1, <4>1 DEF AnswerInv
      <4> QED
        BY <2>1, <3>1, <4>1, <4>2, AnswerKept
    <3> QED
      BY <2>3, <3>2, <3>3
  <2> QED
    BY <2>4, <2>5 DEF ProcInv
<1> QED
  BY <1>3, <1>4, <1>6, <1>7 DEF IInv

\* The event window passes: the guard that no handler serves the upload is
\* what keeps a landed upload from being appended a second time.
LEMMA ForgetEventStep ==
  ASSUME IInv, NEW u \in Uploads, ForgetEvent(u)
  PROVE  IInv'
<1>1. /\ window' = window \ {u}
      /\ \A w \in Workers : h[w].pc # "idle" => h[w].cmd.u # u
      /\ UNCHANGED <<rec, mp, bytes, obj, orphaned, issued, log, cmds, queue, h, lapses>>
      /\ faults' \in 0..MaxFaults
  BY SMT DEF ForgetEvent, At, Upload, blobVars, workVars, Spend, IInv, TypeOK
<1>2. TypeOK' /\ QueueInv'
  BY <1>1 DEF IInv, TypeOK, QueueInv
<1>3. LogInv'
  <2>1. LogInv /\ log' = log /\ window' \subseteq window
    BY <1>1 DEF IInv
  <2> QED
    BY <2>1 DEF LogInv, Landed
<1>4. RecordInv'
  BY <1>1 DEF IInv, RecordInv, RecOK
<1>5. ASSUME NEW o \in Procs PROVE ProcInv(o)'
  <2>1. ProcInv(o) /\ h'[o] = h[o] /\ (o \in Workers \/ o \in Requests)
    BY <1>1 DEF IInv, TypeOK, Procs
  <2>2. PcInv(o)'
    BY <1>1, <2>1 DEF ProcInv, PcInv
  <2>3. AnswerInv(o)'
    BY <1>1, <2>1 DEF ProcInv, AnswerInv, Landed
  <2>4. AppendInv(o)'
    BY <1>1, <2>1 DEF ProcInv, PcInv, AppendInv, Landed
  <2> QED
    BY <2>2, <2>3, <2>4 DEF ProcInv
<1> QED
  BY <1>2, <1>3, <1>4, <1>5 DEF IInv

\* /complete: the command it publishes names an upload that exists.
LEMMA EnqueueHarmless ==
  ASSUME IInv, NEW cmd \in Command, Enqueue(cmd) \/ UNCHANGED workVars,
         mp[cmd.u] # "none",
         UNCHANGED <<rec, blobVars, issued, logVars>>, Spend \/ UNCHANGED budget
  PROVE  Harmless
<1>1. UNCHANGED <<rec, mp, bytes, obj, orphaned, issued, log, window>>
  BY DEF blobVars, logVars
<1>2. faults' \in 0..MaxFaults /\ lapses' \in 0..MaxLapses
  BY SMT DEF Spend, budget, IInv, TypeOK
<1>3. CASE UNCHANGED workVars
  BY <1>3, QuietStep
<1>4. CASE /\ queue' = Append(queue, [cmd |-> cmd, n |-> 0, st |-> "ready"])
           /\ cmds' = cmds \cup {cmd.u}
  <2>1. cmd.u \in Uploads /\ [cmd |-> cmd, n |-> 0, st |-> "ready"] \in Item
        /\ queue \in Seq(Item)
    BY DEF Command, Item, IInv, TypeOK
  <2>2. /\ queue' \in Seq(Item) /\ Len(queue') = Len(queue) + 1 /\ Len(queue) \in Nat
        /\ \A i \in 1..Len(queue') :
             IF i <= Len(queue) THEN queue'[i] = queue[i] ELSE queue'[i].cmd = cmd
    BY SMT, <1>4, <2>1
  <2>3. \A i \in 1..Len(queue') : mp[queue'[i].cmd.u] # "none"
    BY SMT, <2>2 DEF IInv, QueueInv
  <2>4. /\ mp \in [Uploads -> {"none", "open", "gone"}]
        /\ bytes \in [Uploads -> {"none"} \cup Kinds]
        /\ obj \in [Uploads -> {"absent"} \cup Kinds]
        /\ orphaned \subseteq Uploads /\ cmds \subseteq Uploads
    BY DEF IInv, TypeOK
  <2>5. cmds' \subseteq Uploads /\ Len(queue') >= Len(queue)
    BY SMT, <1>4, <2>1, <2>2, <2>4
  <2> QED
    BY <1>1, <1>2, <2>2, <2>3, <2>4, <2>5 DEF Harmless
<1> QED
  BY <1>3, <1>4 DEF Enqueue

\* Idle, and a request that is done, rely on nothing.
LEMMA IdleLocal ==
  ASSUME NEW p \in Procs, NEW pc \in {"idle", "done"}, p \in Workers => pc = "idle",
         h'[p] = [Idle EXCEPT !.pc = pc]
  PROVE  [Idle EXCEPT !.pc = pc] \in Local /\ ProcInv(p)'
<1>1. Idle \in Local
  BY DEF Idle, Local, NoCommand, Command
<1>2. [Idle EXCEPT !.pc = pc] \in Local /\ [Idle EXCEPT !.pc = pc].pc = pc
  BY <1>1 DEF Local
<1> QED
  BY <1>2 DEF ProcInv, PcInv, AppendInv, AnswerInv, Procs

\* The three ways a request moves before it writes the record.
LEMMA RequestStep ==
  ASSUME IInv, NEW q \in Requests, Complete(q) \/ Publish(q) \/ RequestFails(q)
  PROVE  IInv'
<1>1. q \in Procs /\ q \notin Workers /\ h \in [Procs -> Local] /\ h[q] \in Local /\ ProcInv(q)
  BY DEF Procs, IInv, TypeOK
<1>2. h[q].cmd \in Command /\ h[q].cmd.u \in Uploads
  BY <1>1 DEF Local, Command
<1>3. CASE Complete(q)
  <2>1. PICK u \in issued, ifm \in IfMatches, pol \in Policies :
          Become(q, [Idle EXCEPT !.pc = "publish",
                       !.cmd = [u |-> u, ifm |-> ifm, pol |-> pol]])
    BY <1>3 DEF Complete
  <2> DEFINE l == [Idle EXCEPT !.pc = "publish",
                     !.cmd = [u |-> u, ifm |-> ifm, pol |-> pol]]
  <2>2. u \in Uploads /\ mp[u] # "none"
    BY DEF IInv, TypeOK, RecordInv, RecOK
  <2>3. l \in Local /\ l.pc = "publish" /\ l.ver = 0 /\ l.want = "scanning" /\ l.cmd.u = u
    BY <2>2 DEF Idle, Local, NoCommand, Command
  <2>4. h'[q] = l
    BY <2>1, <1>1 DEF Become
  <2>5. Harmless
    BY <1>3, QuietStep DEF Complete
  <2>6. mp'[u] # "none"
    BY <2>2, <2>5 DEF Harmless
  <2>7. ProcInv(q)'
    BY <2>3, <2>4, <2>6, <1>1 DEF ProcInv, PcInv, AppendInv, AnswerInv
  <2> QED
    BY <1>1, <2>1, <2>3, <2>5, <2>7, LocalStep
<1>4. CASE Publish(q)
  <2> DEFINE l == [h[q] EXCEPT !.pc = "get"]
  <2>1. h[q].pc = "publish" /\ h[q].ver = 0 /\ h[q].want = "scanning" /\ mp[h[q].cmd.u] # "none"
    BY <1>1, <1>4 DEF Publish, At, ProcInv, PcInv
  <2>2. Harmless
    BY <1>2, <1>4, <2>1, EnqueueHarmless DEF Publish
  <2>3. l \in Local /\ l.pc = "get" /\ l.ver = 0 /\ l.want = "scanning" /\ l.cmd = h[q].cmd
    BY <1>1, <2>1 DEF Local
  <2>4. h'[q] = l /\ Become(q, l)
    BY <1>1, <1>4 DEF Publish, Goto, Become
  <2>5. mp'[h[q].cmd.u] # "none"
    BY <1>2, <2>1, <2>2 DEF Harmless
  <2>6. ProcInv(q)'
    BY <2>3, <2>4, <2>5, <1>1 DEF ProcInv, PcInv, AppendInv, AnswerInv
  <2> QED
    BY <1>1, <2>2, <2>3, <2>4, <2>6, LocalStep
<1>5. CASE RequestFails(q)
  <2>1. mp[h[q].cmd.u] # "none" /\ Become(q, [Idle EXCEPT !.pc = "done"])
    BY <1>1, <1>5 DEF RequestFails, At, ProcInv, PcInv
  <2>2. Harmless
    BY <1>2, <1>5, <2>1, EnqueueHarmless DEF RequestFails
  <2>3. h'[q] = [Idle EXCEPT !.pc = "done"]
    BY <1>1, <2>1 DEF Become
  <2> QED
    BY <1>1, <2>1, <2>2, <2>3, IdleLocal, LocalStep
<1> QED
  BY <1>3, <1>4, <1>5

-----------------------------------------------------------------------------
(***************************************************************************)
(* The compare-and-swap loop on the status record                          *)
(***************************************************************************)

\* Leaving set_status, whatever came of it.
LEMMA RecordedLocal ==
  ASSUME TypeOK, NEW p \in Procs, ProcInv(p), h[p].pc \in {"get", "cas"}, Recorded(p),
         UNCHANGED <<mp, queue>>
  PROVE  \E l \in Local : Become(p, l) /\ ProcInv(p)'
<1>1. h \in [Procs -> Local] /\ h[p] \in Local
  BY DEF TypeOK
<1>2. CASE p \in Workers
  <2> DEFINE l == [h[p] EXCEPT !.pc = "settle", !.rev = 0, !.tries = 0]
  <2>1. l \in Local /\ l.pc = "settle" /\ l.item = h[p].item /\ l.cmd = h[p].cmd
    BY <1>1 DEF Local
  <2>2. Become(p, l) /\ h'[p] = l
    BY <1>1, <1>2 DEF Recorded, Become
  <2>3. p \notin Requests
    BY <1>2
  <2>4. PcInv(p)'
    BY <2>1, <2>2, <2>3 DEF ProcInv, PcInv
  <2>5. AppendInv(p)' /\ AnswerInv(p)'
    BY <2>1, <2>2 DEF AppendInv, AnswerInv
  <2> QED
    BY <2>1, <2>2, <2>4, <2>5 DEF ProcInv
<1>3. CASE p \notin Workers
  <2>1. Become(p, [Idle EXCEPT !.pc = "done"])
    BY <1>3 DEF Recorded
  <2>2. h'[p] = [Idle EXCEPT !.pc = "done"]
    BY <1>1, <2>1 DEF Become
  <2> QED
    BY <1>3, <2>1, <2>2, IdleLocal
<1> QED
  BY <1>2, <1>3

\* set_status without a write: the read, a lost compare-and-swap, an error.
LEMMA StateReadStep ==
  ASSUME IInv, NEW p \in Procs,
         StateGet(p) \/ (StateCas(p) /\ UNCHANGED rec) \/ StateFails(p)
  PROVE  IInv'
<1>1. TypeOK /\ ProcInv(p) /\ h \in [Procs -> Local] /\ h[p] \in Local
      /\ h[p].pc \in {"get", "cas"}
  BY DEF IInv, TypeOK, StateGet, StateCas, StateFails, At
<1>2. Harmless /\ UNCHANGED <<rec, mp, queue, log>>
  BY QuietStep DEF StateGet, StateCas, StateFails, blobVars, workVars, logVars
<1>3. CASE Recorded(p)
  BY <1>1, <1>2, <1>3, RecordedLocal, LocalStep
<1>4. CASE /\ h[p].pc = "get" /\ rec[Upload(p)].status \notin {"absent"} \cup Terminal
           /\ Become(p, [h[p] EXCEPT !.pc = "cas", !.rev = rec[Upload(p)].rev])
  <2> DEFINE l == [h[p] EXCEPT !.pc = "cas", !.rev = rec[Upload(p)].rev]
  <2>1. Upload(p) \in Uploads /\ rec[Upload(p)] \in Record /\ rec[Upload(p)].rev \in Nat
        /\ rec[Upload(p)].status \in {"uploading", "scanning"} /\ rec[Upload(p)].rev > 0
    <3>1. Upload(p) \in Uploads /\ rec[Upload(p)] \in Record
      BY <1>1, TypeFacts
    <3>2. rec[Upload(p)].rev > 0
      BY <3>1, <1>4 DEF IInv, RecordInv, RecOK
    <3> QED
      BY <3>1, <3>2, <1>4 DEF Record, Terminal
  <2>2. l \in Local /\ l.pc = "cas" /\ l.rev = rec[Upload(p)].rev /\ l.cmd = h[p].cmd
        /\ l.want = h[p].want /\ l.ver = h[p].ver /\ l.item = h[p].item
    BY <1>1, <2>1 DEF Local
  <2>3. h'[p] = l
    BY <1>1, <1>4 DEF Become
  <2>4. ProcInv(p)'
    <3>1. PcInv(p)'
      BY <1>1, <1>2, <1>4, <2>2, <2>3 DEF ProcInv, PcInv
    <3>2. AppendInv(p)'
      BY <2>2, <2>3 DEF AppendInv
    <3>3. AnswerInv(p)'
      <4>1. AnswerInv(p) /\ Upload(p) = h[p].cmd.u /\ log' = log /\ rec' = rec
        BY <1>1, <1>2 DEF ProcInv, Upload
      <4>2. l.want = "accepted" => /\ l.ver <= Len(log)
                                   /\ \E k \in 1..l.ver : log[k].blob = l.cmd.u
        BY <1>4, <2>2, <4>1 DEF AnswerInv
      <4>3. l.cmd.u = Upload(p) /\ l.rev > 0 /\ l.rev = rec[l.cmd.u].rev
            /\ rec[l.cmd.u].status \in {"uploading", "scanning"} /\ l.rev \in Nat
        BY <2>1, <2>2, <4>1
      <4> HIDE DEF l
      <4>4. /\ l.rev > 0 /\ l.rev <= rec[l.cmd.u].rev
            /\ rec[l.cmd.u].status \in {"uploading", "scanning"}
        BY SMT, <4>3
      <4> QED
        BY <2>2, <2>3, <4>1, <4>2, <4>4 DEF AnswerInv
    <3> QED
      BY <3>1, <3>2, <3>3 DEF ProcInv
  <2> QED
    BY <1>2, <1>4, <2>2, <2>4, LocalStep
<1>5. CASE /\ h[p].pc = "cas"
           /\ Become(p, [h[p] EXCEPT !.pc = "get", !.rev = 0, !.tries = @ + 1])
  <2> DEFINE l == [h[p] EXCEPT !.pc = "get", !.rev = 0, !.tries = @ + 1]
  <2>1. l \in Local /\ l.pc = "get" /\ l.cmd = h[p].cmd
        /\ l.want = h[p].want /\ l.ver = h[p].ver /\ l.item = h[p].item
    <3>1. h[p].tries + 1 \in Nat
      BY SMT, <1>1 DEF Local
    <3> QED
      BY <1>1, <3>1 DEF Local
  <2>2. h'[p] = l
    BY <1>1, <1>5 DEF Become
  <2>3. ProcInv(p)'
    <3>1. PcInv(p)'
      BY <1>1, <1>2, <1>5, <2>1, <2>2 DEF ProcInv, PcInv
    <3>2. AppendInv(p)' /\ AnswerInv(p)'
      BY SMT, <1>1, <1>2, <1>5, <2>1, <2>2 DEF ProcInv, AppendInv, AnswerInv
    <3> QED
      BY <3>1, <3>2 DEF ProcInv
  <2> QED
    BY <1>2, <1>5, <2>1, <2>3, LocalStep
<1> QED
  BY <1>3, <1>4, <1>5 DEF StateGet, StateCas, StateFails, At

\* StateCas where the revision in hand is the record's.
Writes(p) ==
  /\ At(p, "cas") /\ rec[Upload(p)].rev = h[p].rev
  /\ rec' = [rec EXCEPT ![Upload(p)] =
               [status |-> h[p].want, version |-> h[p].ver,
                superseded |-> h[p].sup, rev |-> rec[Upload(p)].rev + 1]]
  /\ Recorded(p)
  /\ UNCHANGED <<blobVars, issued, logVars, workVars, budget>>

\* set_status, the write: the revision in hand is current, so the record is
\* not terminal, and every other pending compare-and-swap on it is now stale.
LEMMA StateWriteStep ==
  ASSUME IInv, NEW p \in Procs, Writes(p)
  PROVE  IInv'
<1> DEFINE u == Upload(p)
           new == [status |-> h[p].want, version |-> h[p].ver,
                   superseded |-> h[p].sup, rev |-> rec[u].rev + 1]
<1>1. UNCHANGED <<mp, bytes, obj, orphaned, issued, log, window, cmds, queue, faults, lapses>>
  BY DEF Writes, blobVars, logVars, workVars, budget
<1>2. TypeOK /\ ProcInv(p) /\ h[p] \in Local /\ u \in Uploads /\ u = h[p].cmd.u
      /\ rec[u] \in Record /\ rec[u].rev \in Nat /\ h[p].pc = "cas" /\ rec[u].rev = h[p].rev
  BY TypeFacts DEF IInv, Record, Upload, Writes, At
<1>3. /\ h[p].want \in {"scanning", "accepted", "rejected"} /\ mp[u] # "none"
      /\ h[p].want # "accepted" => h[p].ver = 0
      /\ h[p].want = "accepted" => /\ h[p].ver <= Len(log)
                                   /\ \E k \in 1..h[p].ver : log[k].blob = u
      /\ h[p].ver \in Nat /\ h[p].sup \in BOOLEAN
  BY <1>2 DEF ProcInv, PcInv, AnswerInv, Local
<1>4. new \in Record /\ new.status = h[p].want /\ new.version = h[p].ver
      /\ new.rev = rec[u].rev + 1
  <2>1. rec[u].rev + 1 \in Nat
    BY SMTT(30), <1>2
  <2> QED
    BY <1>3, <2>1 DEF Record, Terminal
<1>5. rec' \in [Uploads -> Record] /\ rec'[u] = new /\ \A v \in Uploads \ {u} : rec'[v] = rec[v]
  <2>1. rec' = [rec EXCEPT ![u] = new]
    BY DEF Writes
  <2> HIDE DEF new
  <2> QED
    BY <1>2, <1>4, <2>1 DEF TypeOK
<1> HIDE DEF new
<1>6. PICK l \in Local : Become(p, l) /\ ProcInv(p)'
  <2>1. h[p].pc \in {"get", "cas"} /\ UNCHANGED <<mp, queue>> /\ Recorded(p)
    BY <1>1, <1>2 DEF Writes
  <2> QED
    BY <1>2, <2>1, RecordedLocal
<1>7. TypeOK'
  BY <1>1, <1>2, <1>5, <1>6 DEF TypeOK, Become
<1>8. LogInv' /\ QueueInv'
  BY <1>1 DEF IInv, LogInv, Landed, QueueInv
<1>9. RecordInv'
  <2> SUFFICES ASSUME NEW v \in Uploads PROVE RecOK(v)'
    BY DEF RecordInv
  <2>1. CASE v = u
    <3>1. rec'[v].status = h[p].want /\ rec'[v].version = h[p].ver
          /\ rec'[v].rev = rec[u].rev + 1
      BY <1>4, <1>5, <2>1
    <3>2. u # Creator => Len(log) > 0
      BY <1>2, <1>3 DEF IInv, RecordInv, RecOK
    <3>3. rec'[v].rev > 0 /\ rec'[v].status \in {"scanning", "accepted", "rejected"}
      BY SMTT(30), <1>2, <1>3, <3>1
    <3> QED
      BY <3>1, <3>2, <3>3, <2>1, <1>1, <1>3 DEF RecOK
  <2>2. CASE v # u
    BY <1>1, <1>5, <2>2 DEF IInv, RecordInv, RecOK
  <2> QED
    BY <2>1, <2>2
<1>10. ASSUME NEW o \in Procs, o # p PROVE ProcInv(o)'
  <2>1. h'[o] = h[o] /\ ProcInv(o) /\ h[o] \in Local /\ h[o].cmd.u \in Uploads
        /\ h[o].rev \in Nat
    <3>1. h'[o] = h[o] /\ ProcInv(o) /\ h[o] \in Local
      BY <1>2, <1>6, <1>10 DEF TypeOK, IInv, Become
    <3> QED
      BY <3>1 DEF Local, Command
  <2>2. PcInv(o)' /\ AppendInv(o)'
    <3>1. PcInv(o) /\ AppendInv(o)
      BY <2>1 DEF ProcInv
    <3>2. PcInv(o)'
      BY <1>1, <2>1, <3>1 DEF PcInv
    <3>3. AppendInv(o)'
      BY <1>1, <2>1, <3>1 DEF AppendInv, Landed
    <3> QED
      BY <3>2, <3>3
  <2>3. CASE h[o].pc = "cas" /\ h[o].cmd.u = u
    <3>1. rec[u].status # "absent" /\ h[o].rev <= rec[u].rev /\ h[o].rev > 0
      BY <1>2, <2>1, <2>3 DEF ProcInv, AnswerInv
    <3>2. rec'[u].rev = rec[u].rev + 1 /\ rec[u].rev \in Nat
      BY <1>2, <1>4, <1>5
    <3>3. rec'[u].rev # h[o].rev /\ h[o].rev <= rec'[u].rev
      BY SMTT(30), <2>1, <3>1, <3>2
    <3>4. AnswerInv(o)
      BY <2>1 DEF ProcInv
    <3>5. AnswerInv(o)'
      BY <1>1, <2>1, <2>3, <3>3, <3>4, AnswerKept
    <3> QED
      BY <2>2, <3>5 DEF ProcInv
  <2>4. CASE ~(h[o].pc = "cas" /\ h[o].cmd.u = u)
    <3>1. h[o].cmd.u = u \/ rec'[h[o].cmd.u] = rec[h[o].cmd.u]
      BY <1>5, <2>1
    <3>2. AnswerInv(o)
      BY SMT, <2>1 DEF ProcInv
    <3>3. AnswerInv(o)'
      <4>1. h[o].pc = "cas" =>
              /\ rec'[h[o].cmd.u].status # "absent" => h[o].rev <= rec'[h[o].cmd.u].rev
              /\ rec'[h[o].cmd.u].rev = h[o].rev =>
                   rec'[h[o].cmd.u].status \in {"uploading", "scanning"}
        BY <2>4, <3>1, <3>2 DEF AnswerInv
      <4> QED
        BY <1>1, <2>1, <3>2, <4>1, AnswerKept
    <3> QED
      BY SMT, <2>2, <3>3 DEF ProcInv
  <2> QED
    BY <2>3, <2>4
<1> QED
  BY <1>6, <1>7, <1>8, <1>9, <1>10 DEF IInv

-----------------------------------------------------------------------------
(***************************************************************************)
(* The queue, and the worker up to the append                              *)
(***************************************************************************)

\* The delivery state of an item changes; the command it carries does not.
LEMMA ItemHarmless ==
  ASSUME IInv, NEW i \in 1..Len(queue), NEW it \in Item, it.cmd = queue[i].cmd,
         queue' = [queue EXCEPT ![i] = it], UNCHANGED <<rec, blobVars, issued, logVars, cmds>>,
         faults' \in 0..MaxFaults, lapses' \in 0..MaxLapses
  PROVE  Harmless /\ Len(queue') = Len(queue)
<1>1. UNCHANGED <<rec, mp, bytes, obj, orphaned, issued, log, window, cmds>>
  BY DEF blobVars, logVars
<1>2. queue \in Seq(Item) /\ Len(queue) \in Nat
  BY SMT DEF IInv, TypeOK
<1>3. /\ queue' \in Seq(Item) /\ Len(queue') = Len(queue)
      /\ \A j \in 1..Len(queue) : queue'[j].cmd = queue[j].cmd
  BY SMT, <1>2
<1> QED
  BY SMT, <1>1, <1>2, <1>3 DEF IInv, TypeOK, QueueInv, Harmless

\* A handler takes an item; the command in it names an upload that exists.
LEMMA DeliverStep ==
  ASSUME IInv, NEW w \in Workers, Deliver(w)
  PROVE  IInv'
<1>1. PICK i \in DOMAIN queue :
        /\ queue[i].st = "ready"
        /\ queue' = [queue EXCEPT ![i].st = "out", ![i].n = @ + 1]
        /\ Become(w, [Idle EXCEPT !.pc = "load", !.cmd = queue[i].cmd, !.item = i,
                         !.final = (queue[i].n + 1 >= MaxDeliver)])
  BY DEF Deliver
<1> DEFINE it == [queue[i] EXCEPT !.st = "out", !.n = @ + 1]
           l == [Idle EXCEPT !.pc = "load", !.cmd = queue[i].cmd, !.item = i,
                   !.final = (queue[i].n + 1 >= MaxDeliver)]
<1>2. i \in 1..Len(queue) /\ queue[i] \in Item /\ w \in Procs /\ w \notin Requests
      /\ h \in [Procs -> Local] /\ Len(queue) \in Nat
  BY TypeFacts DEF IInv, TypeOK, Procs
<1>3. it \in Item /\ it.cmd = queue[i].cmd /\ queue[i].cmd \in Command /\ queue[i].n \in Nat
  <2>1. queue[i].n \in Nat /\ queue[i].n + 1 \in Nat
    BY SMTT(30), <1>2 DEF Item
  <2> QED
    BY <1>2, <2>1 DEF Item
<1>4. queue' = [queue EXCEPT ![i] = it]
  BY <1>1
<1>5. UNCHANGED <<rec, blobVars, issued, logVars, cmds, budget>>
  BY DEF Deliver
<1>6. Harmless /\ Len(queue') = Len(queue)
  BY <1>2, <1>3, <1>4, <1>5, ItemHarmless DEF IInv, TypeOK, budget
<1>7. l \in Local /\ l.pc = "load" /\ l.cmd = queue[i].cmd /\ l.item = i /\ l.ver = 0
  <2>1. (queue[i].n + 1 >= MaxDeliver) \in BOOLEAN
    BY SMT
  <2>2. Idle \in Local /\ Idle.ver = 0 /\ i \in Nat
    BY SMT, <1>2 DEF Idle, Local, NoCommand, Command
  <2> QED
    BY <1>3, <2>1, <2>2 DEF Local
<1>8. h'[w] = l
  BY <1>1, <1>2 DEF Become
<1>9. mp'[queue[i].cmd.u] # "none"
  <2>1. queue[i].cmd.u \in Uploads /\ mp[queue[i].cmd.u] # "none"
    BY <1>2, <1>3 DEF IInv, QueueInv, Command
  <2> QED
    BY <2>1, <1>6 DEF Harmless
<1>10. ProcInv(w)'
  BY <1>2, <1>6, <1>7, <1>8, <1>9 DEF ProcInv, PcInv, AppendInv, AnswerInv
<1> QED
  BY <1>1, <1>2, <1>6, <1>7, <1>10, LocalStep

\* An item's ack_wait passes.
LEMMA AckWaitStep ==
  ASSUME IInv, NEW i \in DOMAIN queue, AckWait(i)
  PROVE  IInv'
<1> DEFINE it == [queue[i] EXCEPT !.st = "ready"]
<1>1. i \in 1..Len(queue) /\ queue[i] \in Item
  BY TypeFacts DEF IInv
<1>2. it \in Item /\ it.cmd = queue[i].cmd /\ queue' = [queue EXCEPT ![i] = it]
  BY <1>1 DEF Item, AckWait
<1>3. faults' \in 0..MaxFaults /\ lapses' \in 0..MaxLapses
  BY SMT DEF AckWait, IInv, TypeOK
<1>4. Harmless
  BY <1>1, <1>2, <1>3, ItemHarmless DEF AckWait
<1>5. h' = h /\ h \in [Procs -> Local]
  BY DEF AckWait, IInv, TypeOK
<1> QED
  BY <1>4, <1>5, HarmlessStep

\* A handler answers for its item, or dies.
LEMMA SettleStep ==
  ASSUME IInv, NEW w \in Workers, Settle(w) \/ Crash(w)
  PROVE  IInv'
<1>1. w \in Procs /\ h \in [Procs -> Local] /\ ProcInv(w) /\ h[w].pc # "idle"
  BY DEF IInv, TypeOK, Procs, Settle, Crash, At
<1>2. Become(w, Idle)
  BY DEF Settle, Crash
<1>3. Idle \in Local /\ Idle.pc = "idle"
  BY DEF Idle, Local, NoCommand, Command
<1>4. h'[w] = Idle
  BY <1>1, <1>2 DEF Become
<1>5. ProcInv(w)'
  BY <1>1, <1>3, <1>4 DEF ProcInv, PcInv, AppendInv, AnswerInv, Procs
<1>6. Harmless
  <2>1. CASE Crash(w)
    BY <2>1, QuietStep DEF Crash
  <2>2. CASE Settle(w) /\ UNCHANGED queue
    BY <2>2, QuietStep DEF Settle, workVars
  <2>3. CASE /\ Settle(w) /\ UNCHANGED budget
             /\ queue' = [queue EXCEPT ![h[w].item].st =
                            IF h[w].want = "retry" /\ @ # "gone" THEN "ready" ELSE "gone"]
    <3> DEFINE i == h[w].item
               it == [queue[i] EXCEPT !.st =
                        IF h[w].want = "retry" /\ @ # "gone" THEN "ready" ELSE "gone"]
    <3>1. i \in 1..Len(queue)
      BY <1>1 DEF ProcInv, PcInv
    <3>2. queue[i] \in Item
      BY <3>1, TypeFacts DEF IInv
    <3>3. it \in Item /\ it.cmd = queue[i].cmd /\ queue' = [queue EXCEPT ![i] = it]
      BY <3>2, <2>3 DEF Item
    <3>4. faults' \in 0..MaxFaults /\ lapses' \in 0..MaxLapses
      BY <2>3 DEF budget, IInv, TypeOK
    <3> QED
      BY <2>3, <3>1, <3>3, <3>4, ItemHarmless DEF Settle
  <2> QED
    BY <2>1, <2>2, <2>3 DEF Settle
<1> QED
  BY <1>1, <1>2, <1>3, <1>5, <1>6, LocalStep

\* A handler that keeps its item and its command, at a call that needs nothing
\* more than that, or at one that precedes every answer.
LEMMA CalmLocal ==
  ASSUME TypeOK, NEW w \in Workers, PcInv(w), ~At(w, "idle"), NEW l \in Local, Become(w, l),
         l.item = h[w].item, l.cmd = h[w].cmd,
         \/ l.pc \in {"list", "head", "scan", "settle"}
         \/ l.pc = "assemble" /\ bytes'[Upload(w)] # "none"
         \/ l.pc = "expired" /\ l.ver = 0
         \/ l.pc \in {"abort", "delete"} /\ l.ver = 0 /\ l.want \in {"rejected", "expired"}
         \/ l.pc = "get" /\ l.ver = 0 /\ l.want = "rejected"
         \/ l.pc = "create" /\ l.cmd.u = Creator
         \/ l.pc = "history" /\ l.cmd.u # Creator,
         mp'[Upload(w)] # "none", Len(queue') = Len(queue)
  PROVE  ProcInv(w)'
<1>1. h'[w] = l /\ w \notin Requests
  BY DEF TypeOK, Become, Procs
<1> QED
  BY <1>1 DEF ProcInv, PcInv, AppendInv, AnswerInv, At, Upload

\* What holds of a handler that has work.
LEMMA Busy ==
  ASSUME IInv, NEW w \in Workers, ~At(w, "idle")
  PROVE  /\ w \in Procs /\ TypeOK /\ PcInv(w) /\ ProcInv(w) /\ h \in [Procs -> Local]
         /\ h[w] \in Local /\ Upload(w) \in Uploads /\ mp[Upload(w)] # "none"
         /\ Upload(w) = h[w].cmd.u
<1>1. w \in Procs /\ TypeOK /\ ProcInv(w) /\ h \in [Procs -> Local]
  BY DEF IInv, TypeOK, Procs
<1>2. h[w] \in Local /\ Upload(w) \in Uploads
  BY <1>1, TypeFacts
<1> QED
  BY <1>1, <1>2 DEF ProcInv, PcInv, At, Upload

\* The bytes of an upload that exists are assembled, aborted or deleted.
LEMMA BlobHarmless ==
  ASSUME IInv, NEW u \in Uploads, mp[u] # "none",
         mp' = mp \/ mp' = [mp EXCEPT ![u] = "gone"],
         obj' \in [Uploads -> {"absent"} \cup Kinds], orphaned' \subseteq Uploads,
         UNCHANGED <<rec, bytes, issued, logVars, workVars>>, Spend \/ UNCHANGED budget
  PROVE  Harmless /\ mp'[u] # "none"
<1>1. UNCHANGED <<rec, bytes, issued, log, window, cmds, queue>>
  BY DEF logVars, workVars
<1>2. faults' \in 0..MaxFaults /\ lapses' \in 0..MaxLapses
  BY SMT DEF Spend, budget, IInv, TypeOK
<1>3. Len(queue) \in Nat
  BY SMT DEF IInv, TypeOK
<1>4. /\ mp' \in [Uploads -> {"none", "open", "gone"}]
      /\ \A v \in Uploads : mp'[v] = "none" <=> mp[v] = "none"
  BY DEF IInv, TypeOK
<1> QED
  BY SMTT(30), <1>1, <1>2, <1>3, <1>4 DEF IInv, TypeOK, QueueInv, Harmless

\* A rejection or a retry ends the pipeline and disturbs nothing else.
LEMMA RejectStep ==
  ASSUME IInv, NEW w \in Workers, ~At(w, "idle"), Reject(w) \/ Retry(w), Harmless,
         mp'[Upload(w)] # "none", Len(queue') = Len(queue)
  PROVE  IInv'
<1>1. w \in Procs /\ TypeOK /\ PcInv(w)
  BY Busy
<1>2. PICK l \in Local : Become(w, l) /\ ProcInv(w)'
  BY <1>1, RejectLocal
<1> QED
  BY <1>1, <1>2, LocalStep

\* Moving on to the next call with everything else as it was.
LEMMA GotoStep ==
  ASSUME IInv, NEW w \in Workers, ~At(w, "idle"),
         NEW pc \in {"list", "assemble", "head", "scan", "settle", "expired", "delete",
                     "get", "create", "history"},
         Goto(w, pc), Harmless, mp'[Upload(w)] # "none", Len(queue') = Len(queue),
         pc = "assemble" => bytes'[Upload(w)] # "none",
         pc = "expired" => h[w].ver = 0,
         pc = "delete" => h[w].ver = 0 /\ h[w].want \in {"rejected", "expired"},
         pc = "get" => h[w].ver = 0 /\ h[w].want = "rejected",
         pc = "create" => Upload(w) = Creator,
         pc = "history" => Upload(w) # Creator
  PROVE  IInv'
<1> DEFINE l == [h[w] EXCEPT !.pc = pc]
<1>1. w \in Procs /\ TypeOK /\ PcInv(w) /\ h[w] \in Local /\ Upload(w) = h[w].cmd.u
  BY Busy
<1>2. l \in Local /\ l.pc = pc /\ l.cmd = h[w].cmd /\ l.item = h[w].item
      /\ l.ver = h[w].ver /\ l.want = h[w].want
  BY <1>1 DEF Local
<1>3. Become(w, l)
  BY DEF Goto
<1>4. \/ l.pc \in {"list", "head", "scan", "settle"}
      \/ l.pc = "assemble" /\ bytes'[Upload(w)] # "none"
      \/ l.pc = "expired" /\ l.ver = 0
      \/ l.pc \in {"abort", "delete"} /\ l.ver = 0 /\ l.want \in {"rejected", "expired"}
      \/ l.pc = "get" /\ l.ver = 0 /\ l.want = "rejected"
      \/ l.pc = "create" /\ l.cmd.u = Creator
      \/ l.pc = "history" /\ l.cmd.u # Creator
  BY <1>1, <1>2
<1>5. ProcInv(w)'
  <2> HIDE DEF l
  <2> QED
    BY <1>1, <1>2, <1>3, <1>4, CalmLocal
<1> QED
  BY <1>1, <1>2, <1>3, <1>5, LocalStep

\* The pipeline's reads: the record, the log of an expired upload, the parts,
\* the object.
LEMMA VerdictStep ==
  ASSUME IInv, NEW w \in Workers,
         \/ LoadState(w) \/ DiscardExpired(w) \/ ListParts(w)
         \/ HeadObject(w) \/ Scan(w) \/ Transient(w)
  PROVE  IInv'
<1>1. ~At(w, "idle")
  BY DEF LoadState, DiscardExpired, ListParts, HeadObject, Scan, Transient, At
<1>2. w \in Procs /\ TypeOK /\ PcInv(w) /\ h[w] \in Local /\ mp[Upload(w)] # "none"
  BY <1>1, Busy
<1>3. Harmless /\ mp' = mp /\ queue' = queue /\ bytes' = bytes
  BY QuietStep DEF LoadState, DiscardExpired, ListParts, HeadObject, Scan, Transient,
                   blobVars, workVars
<1>4. mp'[Upload(w)] # "none" /\ Len(queue') = Len(queue)
  BY <1>2, <1>3
<1>5. CASE Reject(w) \/ Retry(w)
  BY <1>1, <1>3, <1>4, <1>5, RejectStep
<1>6. CASE \E s \in Terminal : Become(w, [h[w] EXCEPT !.pc = "settle", !.want = s])
  <2>1. PICK s \in Terminal : Become(w, [h[w] EXCEPT !.pc = "settle", !.want = s])
    BY <1>6
  <2> DEFINE l == [h[w] EXCEPT !.pc = "settle", !.want = s]
  <2>2. l \in Local /\ l.pc = "settle" /\ l.cmd = h[w].cmd /\ l.item = h[w].item
    BY <1>2 DEF Local, Terminal
  <2>3. ProcInv(w)'
    BY <1>1, <1>2, <1>4, <2>1, <2>2, CalmLocal
  <2> QED
    BY <1>2, <1>3, <2>1, <2>2, <2>3, LocalStep
<1>7. CASE LoadState(w) /\ (Goto(w, "expired") \/ Goto(w, "list"))
  <2>1. h[w].ver = 0
    BY <1>2, <1>7 DEF LoadState, At, PcInv
  <2> QED
    BY <1>1, <1>3, <1>4, <1>7, <2>1, GotoStep
<1>8. CASE /\ DiscardExpired(w)
           /\ Become(w, [h[w] EXCEPT !.pc = "abort", !.want = "expired"])
  <2> DEFINE l == [h[w] EXCEPT !.pc = "abort", !.want = "expired"]
  <2>1. h[w].ver = 0
    BY <1>2, <1>8 DEF DiscardExpired, At, PcInv
  <2>2. l \in Local /\ l.pc = "abort" /\ l.cmd = h[w].cmd /\ l.item = h[w].item
        /\ l.ver = 0 /\ l.want = "expired"
    BY <1>2, <2>1 DEF Local
  <2>3. ProcInv(w)'
    BY <1>1, <1>2, <1>4, <1>8, <2>2, CalmLocal
  <2> QED
    BY <1>2, <1>3, <1>8, <2>2, <2>3, LocalStep
<1>9. CASE Goto(w, "head") \/ Goto(w, "scan")
           \/ (bytes[Upload(w)] # "none" /\ Goto(w, "assemble"))
  BY <1>1, <1>3, <1>4, <1>9, GotoStep
<1>10. CASE Scan(w) /\ Goto(w, IF Upload(w) = Creator THEN "create" ELSE "history")
  BY <1>1, <1>3, <1>4, <1>10, GotoStep
<1> QED
  <2>1. LoadState(w) => Goto(w, "expired") \/ Goto(w, "list")
                        \/ \E s \in Terminal : Become(w, [h[w] EXCEPT !.pc = "settle", !.want = s])
    BY DEF LoadState
  <2>2. DiscardExpired(w) =>
          \/ Become(w, [h[w] EXCEPT !.pc = "settle", !.want = "accepted"])
          \/ Become(w, [h[w] EXCEPT !.pc = "abort", !.want = "expired"])
    BY DEF DiscardExpired
  <2>3. "accepted" \in Terminal
    BY DEF Terminal
  <2>4. ListParts(w) => Goto(w, "head") \/ Reject(w)
                        \/ (bytes[Upload(w)] # "none" /\ Goto(w, "assemble"))
    BY DEF ListParts
  <2>5. HeadObject(w) => Reject(w) \/ Goto(w, "scan")
    BY DEF HeadObject
  <2>6. Scan(w) => Retry(w) \/ Reject(w)
                   \/ Goto(w, IF Upload(w) = Creator THEN "create" ELSE "history")
    BY DEF Scan
  <2>7. Transient(w) => Retry(w)
    BY DEF Transient
  <2> QED
    BY <1>5, <1>6, <1>7, <1>8, <1>9, <1>10, <2>1, <2>2, <2>3, <2>4, <2>5, <2>6, <2>7

\* The pipeline's changes to storage.
LEMMA StorageStep ==
  ASSUME IInv, NEW w \in Workers,
         CompleteMultipart(w) \/ AbortMultipart(w) \/ DeleteObject(w)
  PROVE  IInv'
<1>1. ~At(w, "idle")
  BY DEF CompleteMultipart, AbortMultipart, DeleteObject, At
<1>2. w \in Procs /\ TypeOK /\ PcInv(w) /\ h[w] \in Local /\ mp[Upload(w)] # "none"
      /\ Upload(w) \in Uploads
  BY <1>1, Busy
<1>3. /\ UNCHANGED <<rec, bytes, issued, logVars, workVars>> /\ queue' = queue
      /\ Spend \/ UNCHANGED budget
  BY DEF CompleteMultipart, AbortMultipart, DeleteObject, workVars
<1>4. mp' = mp \/ mp' = [mp EXCEPT ![Upload(w)] = "gone"]
  BY DEF CompleteMultipart, AbortMultipart, DeleteObject
<1>5. obj' \in [Uploads -> {"absent"} \cup Kinds]
  <2>1. obj \in [Uploads -> {"absent"} \cup Kinds] /\ bytes \in [Uploads -> {"none"} \cup Kinds]
    BY <1>2 DEF TypeOK
  <2>2. CASE CompleteMultipart(w)
    <3>1. CASE obj' = obj
      BY <2>1, <3>1
    <3>2. CASE obj' = [obj EXCEPT ![Upload(w)] = bytes[Upload(w)]] /\ bytes[Upload(w)] # "none"
      BY <1>2, <2>1, <3>2
    <3>3. CASE /\ mp[Upload(w)] = "open" /\ bytes[Upload(w)] = "none"
               /\ obj' = [obj EXCEPT ![Upload(w)] = bytes[Upload(w)]]
      BY <1>2, <2>2, <3>3 DEF CompleteMultipart, At, PcInv, Upload
    <3> QED
      BY <2>2, <3>1, <3>2, <3>3 DEF CompleteMultipart
  <2>3. CASE AbortMultipart(w) \/ DeleteObject(w)
    BY <2>1, <2>3 DEF AbortMultipart, DeleteObject
  <2> QED
    BY <2>2, <2>3
<1>6. orphaned' \subseteq Uploads
  BY <1>2 DEF CompleteMultipart, AbortMultipart, DeleteObject, TypeOK
<1>7. Harmless /\ mp'[Upload(w)] # "none" /\ Len(queue') = Len(queue)
  BY <1>2, <1>3, <1>4, <1>5, <1>6, BlobHarmless
<1>8. CASE Reject(w) \/ Retry(w)
  BY <1>1, <1>7, <1>8, RejectStep
<1>9. CASE Goto(w, "head") \/ Goto(w, "settle")
  BY <1>1, <1>7, <1>9, GotoStep
<1>10. CASE AbortMultipart(w) /\ Goto(w, "delete")
  <2>1. h[w].ver = 0 /\ h[w].want \in {"rejected", "expired"}
    BY <1>2, <1>10 DEF AbortMultipart, At, PcInv
  <2> QED
    BY <1>1, <1>7, <1>10, <2>1, GotoStep
<1>11. CASE DeleteObject(w) /\ h[w].want # "expired" /\ Goto(w, "get")
  <2>1. h[w].ver = 0 /\ h[w].want = "rejected"
    BY <1>2, <1>11 DEF DeleteObject, At, PcInv
  <2> QED
    BY <1>1, <1>7, <1>11, <2>1, GotoStep
<1> QED
  BY <1>8, <1>9, <1>10, <1>11 DEF CompleteMultipart, AbortMultipart, DeleteObject

=============================================================================
