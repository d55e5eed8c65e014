------------------------ MODULE UploadPipelineProofs ------------------------
(***************************************************************************)
(* What UploadPipeline guarantees, for any number of uploads, handlers,    *)
(* requests, redeliveries and faults: its invariants, what becomes of the  *)
(* bytes, the finality of a terminal status, and that it implements        *)
(* UploadContract. The appends, the last actions UploadInvariant lacks,    *)
(* come first.                                                             *)
(***************************************************************************)
EXTENDS UploadReclaim

USE ZenonT(30)
USE UploadsAssumption, ProcsAssumption, InputsAssumption, BoundsAssumption

(***************************************************************************)
(* The appends to the document log                                         *)
(***************************************************************************)

\* An accepted answer is true when its version is in the log, at or after the
\* upload's own event.
LEMMA AcceptLocal ==
  ASSUME TypeOK, NEW w \in Workers, PcInv(w), ~At(w, "idle"), NEW v \in Nat, NEW s \in BOOLEAN,
         Accept(w, v, s), v <= Len(log)', \E k \in 1..v : log'[k].blob = Upload(w),
         mp'[Upload(w)] # "none", Len(queue') = Len(queue)
  PROVE  \E l \in Local : Become(w, l) /\ ProcInv(w)'
<1> DEFINE l == [h[w] EXCEPT !.pc = "get", !.want = "accepted", !.ver = v,
                   !.sup = s, !.seq = 0, !.tries = 0]
<1>1. h \in [Procs -> Local] /\ w \in Procs /\ h[w] \in Local /\ w \notin Requests
  BY DEF TypeOK, Procs
<1>2. l \in Local /\ l.pc = "get" /\ l.want = "accepted" /\ l.ver = v
      /\ l.cmd = h[w].cmd /\ l.item = h[w].item
  BY <1>1 DEF Local
<1>3. Become(w, l) /\ h'[w] = l
  BY <1>1 DEF Accept, Become
<1>4. ProcInv(w)'
  BY <1>1, <1>2, <1>3 DEF ProcInv, PcInv, AppendInv, AnswerInv, At, Upload
<1> QED
  BY <1>2, <1>3, <1>4

\* The newest event carries the log's length as its version.
LEMMA HeadIsLength ==
  ASSUME TypeOK, LogInv
  PROVE  HeadVersion = Len(log) /\ Len(log) \in Nat
  BY SMT DEF TypeOK, LogInv, HeadVersion

\* Appending: the compare-and-append stores version Len(log) + 1 of an upload
\* that had not landed.
LEMMA StoreStep ==
  ASSUME IInv, NEW w \in Workers, ~At(w, "idle"), NEW based \in IfMatches,
         Store(Upload(w), Len(log) + 1, based), ~Landed(Upload(w)),
         Upload(w) = Creator \/ Len(log) > 0,
         NEW l \in Local, Become(w, l), ProcInv(w)',
         UNCHANGED <<rec, blobVars, issued, workVars>>, Spend \/ UNCHANGED budget
  PROVE  IInv'
<1> DEFINE u == Upload(w)
           ev == [blob |-> u, version |-> Len(log) + 1, based |-> based]
<1>1. UNCHANGED <<rec, mp, bytes, obj, orphaned, issued, cmds, queue>>
      /\ faults' \in 0..MaxFaults /\ lapses' \in 0..MaxLapses
  BY SMT DEF blobVars, workVars, Spend, budget, IInv, TypeOK
<1>2. TypeOK /\ LogInv /\ u \in Uploads /\ log \in Seq(Event) /\ Len(log) \in Nat
      /\ h \in [Procs -> Local] /\ w \in Procs
  BY SMT, Busy DEF IInv, TypeOK
<1>3. ev \in Event /\ ev.blob = u /\ ev.version = Len(log) + 1
  BY SMT, <1>2 DEF Event
<1>4. window' = window \cup {u}
  BY DEF Store
<1>5. /\ log' \in Seq(Event) /\ Len(log') = Len(log) + 1
      /\ \A k \in 1..Len(log) : log'[k] = log[k]
      /\ log'[Len(log) + 1] = ev
  <2>1. log' = Append(log, ev)
    BY DEF Store
  <2> HIDE DEF ev
  <2> QED
    BY SMT, <1>2, <1>3, <2>1
<1> HIDE DEF ev
<1>6. TypeOK'
  BY <1>1, <1>2, <1>4, <1>5 DEF TypeOK, Become
<1>7. ASSUME NEW v \in Uploads PROVE Landed(v)' <=> Landed(v) \/ v = u
  BY SMT, <1>2, <1>3, <1>5 DEF Landed
<1>8. LogInv'
  <2>1. \A k \in 1..Len(log') : log'[k].version = k
    BY SMT, <1>2, <1>3, <1>5 DEF LogInv
  <2>2. ASSUME NEW j \in 1..Len(log'), NEW k \in 1..Len(log'), log'[j].blob = log'[k].blob
        PROVE  j = k
    <3>1. CASE j <= Len(log) /\ k <= Len(log)
      BY SMT, <1>2, <1>5, <2>2, <3>1 DEF LogInv
    <3>2. CASE j = Len(log) + 1 /\ k <= Len(log)
      BY SMT, <1>2, <1>3, <1>5, <2>2, <3>2 DEF Landed
    <3>3. CASE j <= Len(log) /\ k = Len(log) + 1
      BY SMT, <1>2, <1>3, <1>5, <2>2, <3>3 DEF Landed
    <3> QED
      BY SMT, <1>2, <1>5, <3>1, <3>2, <3>3
  <2>3. Landed(Creator)'
    BY <1>2, <1>7 DEF LogInv
  <2>4. \A v \in window' : Landed(v)'
    BY <1>2, <1>4, <1>7 DEF LogInv, TypeOK
  <2> QED
    BY <2>1, <2>2, <2>3, <2>4 DEF LogInv
<1>9. QueueInv'
  BY <1>1 DEF IInv, QueueInv
<1>10. RecordInv'
  <2> SUFFICES ASSUME NEW v \in Uploads PROVE RecOK(v)'
    BY DEF RecordInv
  <2>1. RecOK(v) /\ rec[v] \in Record /\ rec[v].version \in Nat
    BY <1>2 DEF IInv, RecordInv, TypeOK, Record
  <2>2. rec[v].status = "accepted" =>
          rec[v].version <= Len(log') /\ \E k \in 1..rec[v].version : log'[k].blob = v
    <3> SUFFICES ASSUME rec[v].status = "accepted"
                 PROVE  /\ rec[v].version <= Len(log')
                        /\ \E k \in 1..rec[v].version : log'[k].blob = v
      OBVIOUS
    <3>1. PICK k \in 1..rec[v].version : log[k].blob = v
      BY <2>1 DEF RecOK
    <3>2. rec[v].version <= Len(log) /\ k \in 1..Len(log)
      BY SMT, <1>2, <2>1, <3>1 DEF RecOK
    <3> QED
      BY SMT, <1>2, <1>5, <2>1, <3>1, <3>2
  <2>3. Len(log') > 0
    BY SMT, <1>2, <1>5
  <2> QED
    BY <1>1, <2>1, <2>2, <2>3 DEF RecOK
<1>11. ASSUME NEW o \in Procs, o # w PROVE ProcInv(o)'
  <2>1. h'[o] = h[o] /\ ProcInv(o) /\ h[o] \in Local
    BY <1>2, <1>11 DEF IInv, TypeOK, Become
  <2>2. h[o].cmd.u \in Uploads /\ h[o].seq \in Nat /\ h[o].ver \in Nat
    BY <2>1 DEF Local, Command
  <2>3. PcInv(o)'
    BY <1>1, <2>1 DEF ProcInv, PcInv
  <2>4. AppendInv(o)'
    <3>1. AppendInv(o)
      BY <2>1 DEF ProcInv
    <3>2. h[o].pc \in {"last", "append"} /\ Landed(h[o].cmd.u)' => h[o].cmd.u \in window'
      <4>1. window' = window \cup {u}
        BY <1>4
      <4>2. Landed(h[o].cmd.u)' => Landed(h[o].cmd.u) \/ h[o].cmd.u = u
        BY <1>7, <2>1, <2>2
      <4> QED
        BY <3>1, <4>1, <4>2 DEF AppendInv
    <3>3. h[o].pc = "append" => h[o].seq <= Len(log')
      BY SMT, <1>2, <1>5, <2>2, <3>1 DEF AppendInv
    <3> QED
      BY <2>1, <3>1, <3>2, <3>3 DEF AppendInv
  <2>5. AnswerInv(o)'
    <3>1. AnswerInv(o)
      BY <2>1 DEF ProcInv
    <3>2. h[o].pc = "dup" => Landed(h[o].cmd.u)'
      BY <1>7, <2>1, <2>2, <3>1 DEF AnswerInv
    <3>3. h[o].pc \in {"get", "cas"} /\ h[o].want = "accepted" =>
            /\ h[o].ver <= Len(log')
            /\ \E k \in 1..h[o].ver : log'[k].blob = h[o].cmd.u
      <4> SUFFICES ASSUME h[o].pc \in {"get", "cas"}, h[o].want = "accepted"
                   PROVE  /\ h[o].ver <= Len(log')
                          /\ \E k \in 1..h[o].ver : log'[k].blob = h[o].cmd.u
        OBVIOUS
      <4>1. h[o].ver <= Len(log) /\ \E k \in 1..h[o].ver : log[k].blob = h[o].cmd.u
        BY <3>1 DEF AnswerInv
      <4>2. PICK k \in 1..h[o].ver : log[k].blob = h[o].cmd.u
        BY <4>1
      <4> QED
        BY SMT, <1>2, <1>5, <2>2, <4>1, <4>2
    <3> QED
      BY <1>1, <2>1, <3>1, <3>2, <3>3 DEF AnswerInv
  <2> QED
    BY <2>3, <2>4, <2>5 DEF ProcInv
<1> QED
  BY <1>6, <1>8, <1>9, <1>10, <1>11 DEF IInv

\* What a worker that is busy finds when only its own state changes.
QuietWorker(w) ==
  /\ w \in Procs /\ w \notin Requests /\ h \in [Procs -> Local] /\ h[w] \in Local
  /\ ProcInv(w) /\ PcInv(w) /\ Upload(w) = h[w].cmd.u /\ Upload(w) \in Uploads
  /\ h[w].item \in 1..Len(queue) /\ mp[h[w].cmd.u] # "none"
  /\ Harmless /\ mp' = mp /\ queue' = queue /\ log' = log /\ window' = window
  /\ HeadVersion = Len(log) /\ Len(log) \in Nat /\ DOMAIN log = 1..Len(log) /\ LogInv

LEMMA QuietWorkerFacts ==
  ASSUME IInv, NEW w \in Workers, ~At(w, "idle"),
         UNCHANGED <<rec, blobVars, issued, logVars, workVars>>, UNCHANGED budget
  PROVE  QuietWorker(w)
<1>1. w \in Procs /\ TypeOK /\ PcInv(w) /\ h[w] \in Local /\ mp[Upload(w)] # "none"
      /\ h \in [Procs -> Local] /\ ProcInv(w) /\ Upload(w) \in Uploads
      /\ Upload(w) = h[w].cmd.u
  BY Busy
<1>2. Harmless /\ mp' = mp /\ queue' = queue /\ log' = log /\ window' = window
  BY QuietStep DEF blobVars, workVars, logVars
<1>3. HeadVersion = Len(log) /\ Len(log) \in Nat /\ DOMAIN log = 1..Len(log) /\ LogInv
  BY HeadIsLength, TypeFacts DEF IInv
<1>4. h[w].item \in 1..Len(queue) /\ mp[h[w].cmd.u] # "none"
  BY <1>1 DEF PcInv, At
<1>5. w \notin Requests
  OBVIOUS
<1> QED
  BY <1>1, <1>2, <1>3, <1>4, <1>5 DEF QuietWorker

\* The worker answers accepted with a version of the log.
LEMMA AcceptStep ==
  ASSUME IInv, NEW w \in Workers, ~At(w, "idle"), QuietWorker(w),
         NEW v \in 1..Len(log), NEW s \in BOOLEAN, Accept(w, v, s),
         \E k \in 1..v : log[k].blob = Upload(w)
  PROVE  IInv'
<1>1. v \in Nat /\ v <= Len(log)' /\ TypeOK /\ PcInv(w)
  BY SMT DEF QuietWorker, IInv
<1>2. /\ \E k \in 1..v : log'[k].blob = Upload(w)
      /\ mp'[Upload(w)] # "none" /\ Len(queue') = Len(queue)
  BY DEF QuietWorker
<1>3. PICK l \in Local : Become(w, l) /\ ProcInv(w)'
  BY <1>1, <1>2, AcceptLocal
<1> QED
  BY <1>3, LocalStep DEF QuietWorker

\* The worker moves to a call that relies on no more than what holds of it.
LEMMA MoveStep ==
  ASSUME IInv, NEW w \in Workers, QuietWorker(w), NEW l \in Local, Become(w, l),
         l.cmd = h[w].cmd, l.item = h[w].item,
         \/ l.pc = "dup" /\ Landed(Upload(w))
         \/ l.pc = "last" /\ Upload(w) # Creator /\ (Landed(Upload(w)) => Upload(w) \in window)
         \/ /\ l.pc = "append" /\ Upload(w) # Creator
            /\ Landed(Upload(w)) => Upload(w) \in window
            /\ Len(log) > 0 /\ l.seq = Len(log) /\ l.ver = Len(log) + 1
  PROVE  IInv'
<1>1. h'[w] = l
  BY DEF QuietWorker, Become
<1>2. l.cmd.u = Upload(w) /\ l.pc \in {"dup", "last", "append"}
  BY DEF QuietWorker
<1>3. PcInv(w)'
  BY <1>1, <1>2 DEF QuietWorker, PcInv
<1>4. AppendInv(w)' /\ AnswerInv(w)'
  <2>1. Len(log') = Len(log) /\ window' = window /\ Len(log) \in Nat
    BY DEF QuietWorker
  <2>2. Landed(l.cmd.u)' <=> Landed(Upload(w))
    BY <1>2 DEF QuietWorker, Landed
  <2>3. AppendInv(w)'
    BY SMT, <1>1, <1>2, <2>1, <2>2 DEF AppendInv
  <2>4. AnswerInv(w)'
    BY <1>1, <1>2, <2>2 DEF AnswerInv
  <2> QED
    BY <2>3, <2>4
<1>5. ProcInv(w)'
  BY <1>3, <1>4 DEF ProcInv
<1> QED
  BY <1>5, LocalStep DEF QuietWorker

\* A duplicate or an existing document is answered with the newest version.
LEMMA ResolveDuplicateStep ==
  ASSUME IInv, NEW w \in Workers, ResolveDuplicate(w)
  PROVE  IInv'
<1>1. /\ At(w, "dup") /\ ~At(w, "idle")
      /\ Accept(w, HeadVersion, Supersedes(h[w].cmd.ifm, HeadVersion))
  BY DEF ResolveDuplicate, At
<1>2. QuietWorker(w)
  BY <1>1, QuietWorkerFacts DEF ResolveDuplicate
<1>3. Landed(Upload(w))
  BY <1>1, <1>2 DEF QuietWorker, At, ProcInv, AnswerInv
<1>4. HeadVersion \in 1..Len(log) /\ \E k \in 1..HeadVersion : log[k].blob = Upload(w)
  BY SMT, <1>2, <1>3 DEF QuietWorker, Landed
<1>5. Supersedes(h[w].cmd.ifm, HeadVersion) \in BOOLEAN
  BY DEF Supersedes
<1> QED
  BY <1>1, <1>2, <1>4, <1>5, AcceptStep

\* The guard over the history answers a redelivery with the version that the
\* upload became; otherwise the upload has not landed.
LEMMA ReadHistoryStep ==
  ASSUME IInv, NEW w \in Workers, ReadHistory(w)
  PROVE  IInv'
<1>1. At(w, "history") /\ ~At(w, "idle")
  BY DEF ReadHistory, At
<1>2. QuietWorker(w)
  BY <1>1, QuietWorkerFacts DEF ReadHistory
<1>3. ASSUME NEW k \in Applied(h[w].cmd.u),
             Accept(w, log[k].version, Supersedes(log[k].based, log[k].version))
      PROVE  IInv'
  <2>1. k \in 1..Len(log) /\ log[k].blob = Upload(w) /\ log[k].version = k
    BY <1>2 DEF QuietWorker, Applied, LogInv
  <2>2. Supersedes(log[k].based, log[k].version) \in BOOLEAN
    BY DEF Supersedes
  <2>3. \E j \in 1..log[k].version : log[j].blob = Upload(w)
    BY SMT, <2>1
  <2>4. log[k].version \in 1..Len(log)
    BY <2>1
  <2> QED
    BY <1>1, <1>2, <1>3, <2>2, <2>3, <2>4, AcceptStep
<1>4. ASSUME Applied(h[w].cmd.u) = {}, Goto(w, "last") PROVE IInv'
  <2> DEFINE l == [h[w] EXCEPT !.pc = "last"]
  <2>1. l \in Local /\ l.pc = "last" /\ l.cmd = h[w].cmd /\ l.item = h[w].item
    BY <1>2 DEF QuietWorker, Local
  <2>2. Become(w, l)
    BY <1>4 DEF Goto
  <2> HIDE DEF l
  <2>3. Upload(w) # Creator /\ ~Landed(Upload(w))
    BY <1>1, <1>2, <1>4 DEF QuietWorker, Applied, Landed, At, ProcInv, AppendInv
  <2> QED
    BY <1>2, <2>1, <2>2, <2>3, MoveStep
<1>5. ASSUME Reject(w) PROVE IInv'
  BY <1>1, <1>2, <1>5, RejectStep DEF QuietWorker
<1> QED
  BY <1>3, <1>4, <1>5 DEF ReadHistory

\* The last version read is the version before the one to append.
LEMMA ReadLastStep ==
  ASSUME IInv, NEW w \in Workers, ReadLast(w)
  PROVE  IInv'
<1> DEFINE l == [h[w] EXCEPT !.pc = "append", !.ver = HeadVersion + 1, !.seq = Len(log)]
<1>1. At(w, "last") /\ ~At(w, "idle") /\ Become(w, l)
  BY DEF ReadLast, At
<1>2. QuietWorker(w)
  BY <1>1, QuietWorkerFacts DEF ReadLast
<1>3. HeadVersion + 1 \in Nat /\ HeadVersion + 1 = Len(log) + 1
  BY SMT, <1>2 DEF QuietWorker
<1>4. l \in Local /\ l.pc = "append" /\ l.cmd = h[w].cmd /\ l.item = h[w].item
      /\ l.ver = Len(log) + 1 /\ l.seq = Len(log)
  BY <1>2, <1>3 DEF QuietWorker, Local
<1> HIDE DEF l
<1>5. Upload(w) # Creator /\ (Landed(Upload(w)) => Upload(w) \in window)
  BY <1>1, <1>2 DEF QuietWorker, At, ProcInv, AppendInv
<1>6. Len(log) > 0
  BY SMT, <1>2, <1>5 DEF QuietWorker, IInv, RecordInv, RecOK
<1> QED
  BY <1>1, <1>2, <1>4, <1>5, <1>6, MoveStep

\* A publish the stream refuses: a duplicate of an event that is in the log, or
\* a conflict, which is read again or given up.
LEMMA AppendRefusedStep ==
  ASSUME IInv, NEW w \in Workers, AppendCreate(w) \/ AppendUpdate(w),
         UNCHANGED <<logVars, budget>>
  PROVE  IInv'
<1>1. ~At(w, "idle")
  BY DEF AppendCreate, AppendUpdate, At
<1>2. QuietWorker(w)
  BY <1>1, QuietWorkerFacts DEF AppendCreate, AppendUpdate
<1>3. ASSUME Goto(w, "dup"), Landed(Upload(w)) PROVE IInv'
  <2> DEFINE l == [h[w] EXCEPT !.pc = "dup"]
  <2>1. l \in Local /\ l.pc = "dup" /\ l.cmd = h[w].cmd /\ l.item = h[w].item
    BY <1>2 DEF QuietWorker, Local
  <2>2. Become(w, l)
    BY <1>3 DEF Goto
  <2> HIDE DEF l
  <2> QED
    BY <1>2, <1>3, <2>1, <2>2, MoveStep
<1>4. ASSUME NEW u, NEW v, NEW b, Store(u, v, b) PROVE FALSE
  BY SMT, <1>2, <1>4 DEF Store, QuietWorker, IInv, TypeOK
<1>5. Duplicate(Upload(w)) => Landed(Upload(w))
  BY <1>2 DEF QuietWorker, Duplicate, LogInv
<1>6. CASE AppendCreate(w)
  <2>1. Upload(w) = Creator
    BY <1>2, <1>6 DEF QuietWorker, AppendCreate, At, ProcInv, AppendInv
  <2>2. Conflicts(0) => Landed(Upload(w))
    BY SMT, <1>2, <2>1 DEF QuietWorker, Conflicts, LogInv
  <2> QED
    BY <1>3, <1>4, <1>5, <1>6, <2>2 DEF AppendCreate
<1>7. CASE AppendUpdate(w)
  <2> DEFINE l == [h[w] EXCEPT !.pc = "last", !.ver = 0, !.seq = 0, !.tries = @ + 1]
  <2>1. h[w].tries + 1 \in Nat
    BY SMT, <1>2 DEF QuietWorker, Local
  <2>2. l \in Local /\ l.pc = "last" /\ l.cmd = h[w].cmd /\ l.item = h[w].item
    BY <1>2, <2>1 DEF QuietWorker, Local
  <2>3. \/ Goto(w, "dup") /\ Duplicate(Upload(w))
        \/ Become(w, l)
        \/ Retry(w)
        \/ Store(h[w].cmd.u, h[w].ver, h[w].cmd.ifm)
    BY <1>7 DEF AppendUpdate, Upload
  <2> HIDE DEF l
  <2>4. Upload(w) # Creator /\ (Landed(Upload(w)) => Upload(w) \in window)
    BY <1>2, <1>7 DEF QuietWorker, AppendUpdate, At, ProcInv, AppendInv
  <2>5. Become(w, l) => IInv'
    BY <1>2, <2>2, <2>4, MoveStep
  <2>6. Retry(w) => IInv'
    BY <1>1, <1>2, RejectStep DEF QuietWorker
  <2> QED
    BY <1>3, <1>4, <1>5, <2>3, <2>5, <2>6
<1> QED
  BY <1>6, <1>7

\* The publish that stores the event, its ack delivered or lost.
LEMMA AppendStoreStep ==
  ASSUME IInv, NEW w \in Workers, AppendCreate(w) \/ AppendUpdate(w),
         ~UNCHANGED <<logVars, budget>>
  PROVE  IInv'
<1>1. ~At(w, "idle")
  BY DEF AppendCreate, AppendUpdate, At
<1>2. w \in Procs /\ TypeOK /\ PcInv(w) /\ h[w] \in Local /\ mp[Upload(w)] # "none"
      /\ ProcInv(w) /\ Upload(w) \in Uploads /\ Upload(w) = h[w].cmd.u
  BY <1>1, Busy
<1>3. UNCHANGED <<rec, blobVars, issued, workVars>> /\ mp' = mp /\ queue' = queue
  BY DEF AppendCreate, AppendUpdate, blobVars, workVars
<1>4. mp'[Upload(w)] # "none" /\ Len(queue') = Len(queue)
  BY <1>2, <1>3
<1>5. LogInv /\ log \in Seq(Event) /\ Len(log) \in Nat /\ h[w].cmd.ifm \in IfMatches
  BY SMT, <1>2 DEF IInv, TypeOK, Local, Command
<1> DEFINE v == Len(log) + 1
<1>6. ASSUME NEW based \in IfMatches, NEW s \in BOOLEAN, Store(Upload(w), v, based),
             ~Landed(Upload(w)), Upload(w) = Creator \/ Len(log) > 0,
             \/ Accept(w, v, s) /\ UNCHANGED budget
             \/ Spend /\ Retry(w)
      PROVE  IInv'
  <2>1. log'[v].blob = Upload(w) /\ Len(log') = v /\ v \in Nat /\ v \in 1..v
    BY SMT, <1>5, <1>6 DEF Store
  <2>2. \E k \in 1..v : log'[k].blob = Upload(w)
    BY <2>1
  <2>3. PICK l \in Local : Become(w, l) /\ ProcInv(w)'
    <3>1. CASE Accept(w, v, s)
      <4> HIDE DEF v
      <4>1. v <= Len(log)'
        BY SMT, <2>1
      <4> QED
        BY <1>1, <1>2, <1>4, <2>1, <2>2, <3>1, <4>1, AcceptLocal
    <3>2. CASE Retry(w)
      BY <1>1, <1>2, <1>4, <3>2, RejectLocal
    <3> QED
      BY <1>6, <3>1, <3>2
  <2> QED
    BY <1>1, <1>3, <1>6, <2>3, StoreStep
<1>7. CASE AppendCreate(w)
  <2>1. /\ Store(Upload(w), 1, 0) /\ ~Conflicts(0)
        /\ \/ Accept(w, 1, FALSE) /\ UNCHANGED budget
           \/ Spend /\ Retry(w)
    BY <1>7 DEF AppendCreate
  <2>2. Len(log) = 0 /\ v = 1 /\ ~Landed(Upload(w))
    BY SMTT(30), <1>5, <2>1 DEF Conflicts, Landed
  <2>3. Upload(w) = Creator
    BY <1>2, <1>7 DEF AppendCreate, At, ProcInv, AppendInv
  <2> QED
    BY <1>6, <2>1, <2>2, <2>3
<1>8. CASE AppendUpdate(w)
  <2>1. /\ Store(Upload(w), h[w].ver, h[w].cmd.ifm)
        /\ ~Duplicate(Upload(w)) /\ ~Conflicts(h[w].seq)
        /\ \/ Accept(w, h[w].ver, Supersedes(h[w].cmd.ifm, h[w].ver)) /\ UNCHANGED budget
           \/ Spend /\ Retry(w)
    BY <1>2, <1>8 DEF AppendUpdate
  <2>2. h[w].ver = v /\ Len(log) > 0 /\ ~Landed(Upload(w))
    BY <1>2, <1>5, <1>8, <2>1 DEF AppendUpdate, At, ProcInv, AppendInv, Conflicts, Duplicate
  <2>3. Supersedes(h[w].cmd.ifm, h[w].ver) \in BOOLEAN
    BY DEF Supersedes
  <2> QED
    BY <1>5, <1>6, <2>1, <2>2, <2>3
<1> QED
  BY <1>7, <1>8

-----------------------------------------------------------------------------
(***************************************************************************)
(* The theorems                                                            *)
(***************************************************************************)

\* Every step preserves the invariant.
LEMMA StepInv == IInv /\ [Next]_vars => IInv'
<1> SUFFICES ASSUME IInv, [Next]_vars PROVE IInv'
  OBVIOUS
<1>1. CASE UNCHANGED vars
  <2>1. Harmless /\ h' = h /\ h \in [Procs -> Local]
    BY <1>1, QuietStep DEF vars, blobVars, logVars, workVars, budget, IInv, TypeOK
  <2> QED
    BY <2>1, HarmlessStep
<1>2. ASSUME NEW u \in Uploads, Client(u) \/ Passage(u) PROVE IInv'
  BY <1>2, PreflightStep, PassageStep, ExpireStep, ForgetEventStep DEF Client, Passage
<1>3. ASSUME NEW p \in Procs, StateGet(p) \/ StateCas(p) PROVE IInv'
  <2>1. StateGet(p) \/ (StateCas(p) /\ UNCHANGED rec) => IInv'
    BY StateReadStep
  <2>2. StateCas(p) /\ ~UNCHANGED rec => IInv'
    BY StateWriteStep DEF StateCas, Writes
  <2> QED
    BY <1>3, <2>1, <2>2
<1>4. ASSUME NEW q \in Requests, Request(q) PROVE IInv'
  BY <1>3, <1>4, RequestStep DEF Request, Procs
<1>5. ASSUME NEW w \in Workers, Handler(w) PROVE IInv'
  <2>1. w \in Procs
    BY DEF Procs
  <2>2. AppendCreate(w) \/ AppendUpdate(w) => IInv'
    BY AppendRefusedStep, AppendStoreStep
  <2>3. CASE Pipeline(w)
    BY <1>3, <2>1, <2>2, <2>3, VerdictStep, StorageStep, SettleStep, ResolveDuplicateStep,
       ReadHistoryStep, ReadLastStep DEF Pipeline
  <2>4. CASE Deliver(w) \/ Transient(w) \/ StateFails(w) \/ Crash(w)
    BY <2>1, <2>4, DeliverStep, VerdictStep, StateReadStep, SettleStep
  <2> QED
    BY <1>5, <2>3, <2>4 DEF Handler
<1>6. ASSUME NEW i \in DOMAIN queue, AckWait(i) PROVE IInv'
  BY <1>6, AckWaitStep
<1> QED
  BY <1>1, <1>2, <1>4, <1>5, <1>6 DEF Next

\* The inductive invariant holds in every behaviour.
THEOREM InductiveInvariant == Spec => []IInv
  BY InitInv, StepInv, PTL DEF Spec

-----------------------------------------------------------------------------

\* Every variable of the pipeline keeps its type.
THEOREM TypeCorrect == Spec => []TypeOK
<1>1. IInv => TypeOK
  BY DEF IInv
<1> QED
  BY <1>1, InductiveInvariant, PTL

\* The versions of a document are 1, 2, 3, ... however many uploads,
\* handlers, redeliveries and lost acks there are.
THEOREM DenseVersions == Spec => []VersionsDense
<1>1. IInv => VersionsDense
  BY TypeFacts DEF IInv, LogInv, VersionsDense
<1> QED
  BY <1>1, InductiveInvariant, PTL

\* No upload ever becomes two versions.
THEOREM AtMostOneVersion == Spec => []OneEventPerUpload
<1>1. IInv => OneEventPerUpload
  BY TypeFacts DEF IInv, LogInv, OneEventPerUpload
<1> QED
  BY <1>1, InductiveInvariant, PTL

\* No record says accepted before the upload's event is in the log.
THEOREM AcceptedAfterEvent == Spec => []AcceptedIsLogged
<1>1. ASSUME IInv PROVE AcceptedIsLogged
  <2> SUFFICES ASSUME NEW u \in Uploads, rec[u].status = "accepted"
               PROVE  \E k \in DOMAIN log : /\ log[k].blob = u
                                            /\ k <= rec[u].version
                                            /\ rec[u].version <= Len(log)
    BY DEF AcceptedIsLogged
  <2>1. RecOK(u) /\ DOMAIN log = 1..Len(log) /\ Len(log) \in Nat /\ rec[u].version \in Nat
    BY <1>1, TypeFacts DEF IInv, RecordInv, Record
  <2> QED
    BY SMT, <2>1 DEF RecOK
<1> QED
  BY <1>1, InductiveInvariant, PTL

-----------------------------------------------------------------------------

\* The invariant on bytes, items and handlers holds in every behaviour.
THEOREM BytesAccountedFor == Spec => []ReclaimInv
  BY InductiveInvariant, ReclaimInit, ReclaimNext, PTL DEF Spec

\* When a record says rejected the bytes are gone, or the failure to give them
\* back was logged, whatever other handlers of the upload were doing.
THEOREM RejectionReclaims == Spec => []RejectedIsReclaimed
<1>1. ReclaimInv => RejectedIsReclaimed
  BY DEF ReclaimInv, BlobInv, Reclaimed, RejectedIsReclaimed
<1> QED
  BY <1>1, BytesAccountedFor, PTL

\* An assembled object that is no version yet has a work item that was not
\* acked, or its delete failed: no crash, lost answer or race has its item acked
\* too early.  The item may be out of deliveries, and then nothing looks at the
\* bytes again: that there is one left is BytesResolved's condition.
THEOREM BytesKeepTheirItem == Spec => []UnloggedBytesAreOwned
<1>1. ASSUME IInv, ReclaimInv, NEW u \in Uploads, obj[u] # "absent", Applied(u) = {},
             u \notin orphaned
      PROVE  \E i \in DOMAIN queue : queue[i].cmd.u = u /\ queue[i].st # "gone"
  <2>1. ~Landed(u) /\ ~Settled(u)
    BY <1>1, AppliedLanded DEF Settled, Reclaimed
  <2>2. PICK i \in 1..Len(queue) : queue[i].cmd.u = u
    BY <1>1 DEF ReclaimInv, BlobInv
  <2>3. queue[i].st # "gone"
    BY <1>1, <2>1, <2>2 DEF ReclaimInv, ItemInv
  <2> QED
    BY <1>1, <2>2, <2>3, TypeFacts DEF IInv
<1>2. IInv /\ ReclaimInv => UnloggedBytesAreOwned
  BY <1>1 DEF UnloggedBytesAreOwned
<1> QED
  BY <1>2, InductiveInvariant, BytesAccountedFor, PTL

\* No version loses its bytes while its upload has one item, one handler at a
\* time and deliveries left.
THEOREM VersionsKeepBytes == Spec => []ReclaimSparesVersions
<1>1. ASSUME IInv, ReclaimInv, NEW k \in DOMAIN log, obj[log[k].blob] = "absent"
      PROVE  Excused(log[k].blob)
  <2>1. k \in 1..Len(log) /\ log[k] \in Event
    BY <1>1, TypeFacts DEF IInv
  <2>2. log[k].blob \in Uploads
    BY <2>1 DEF Event
  <2>3. Landed(log[k].blob)
    BY <2>1 DEF Landed
  <2> QED
    BY <1>1, <2>2, <2>3 DEF ReclaimInv, BlobInv
<1>2. IInv /\ ReclaimInv => ReclaimSparesVersions
  <2> SUFFICES ASSUME IInv, ReclaimInv, NEW k \in DOMAIN log, obj[log[k].blob] = "absent"
               PROVE  LET u == log[k].blob
                          mine == {i \in DOMAIN queue : queue[i].cmd.u = u} IN
                        \/ lapses > 0
                        \/ \E i \in mine : queue[i].n >= MaxDeliver
                        \/ \E i, j \in mine : i # j
    BY DEF ReclaimSparesVersions
  <2>1. Excused(log[k].blob) /\ DOMAIN queue = 1..Len(queue)
    BY <1>1, TypeFacts DEF IInv
  <2> QED
    BY <2>1 DEF Excused, Spent
<1> QED
  BY <1>2, InductiveInvariant, BytesAccountedFor, PTL

-----------------------------------------------------------------------------

\* How a step may change a record: preflight creates it, its lifetime ends, or
\* a compare-and-swap that read it while it was not terminal writes it.
Written(p, u) ==
  /\ h[p].pc = "cas" /\ u = h[p].cmd.u /\ rec[u].rev = h[p].rev
  /\ rec'[u] = [status |-> h[p].want, version |-> h[p].ver,
                superseded |-> h[p].sup, rev |-> rec[u].rev + 1]

LEMMA RecordChanges ==
  ASSUME IInv, [Next]_vars, NEW u \in Uploads
  PROVE  rec'[u] = rec[u] \/ mp[u] = "none" \/ rec'[u] = NoRecord
         \/ \E p \in Procs : Written(p, u)
<1>1. rec \in [Uploads -> Record]
  BY DEF IInv, TypeOK
<1>2. CASE UNCHANGED rec
  BY <1>2
<1>3. ASSUME NEW v \in Uploads, Client(v) \/ Passage(v)
      PROVE  rec'[u] = rec[u] \/ mp[u] = "none" \/ rec'[u] = NoRecord
  BY <1>1, <1>3 DEF Client, Passage, Preflight, PreflightUnwound, PutParts, Expire,
                    ReapMultipart, ForgetCommand, ForgetEvent
<1>4. ASSUME NEW p \in Procs, StateCas(p)
      PROVE  rec'[u] = rec[u] \/ \E o \in Procs : Written(o, u)
  <2>1. h[p].pc = "cas" /\ Upload(p) = h[p].cmd.u
    BY <1>4 DEF StateCas, At, Upload
  <2> DEFINE new == [status |-> h[p].want, version |-> h[p].ver,
                     superseded |-> h[p].sup, rev |-> rec[Upload(p)].rev + 1]
  <2>2. CASE rec[Upload(p)].rev = h[p].rev /\ rec' = [rec EXCEPT ![Upload(p)] = new]
    <3>1. CASE u = Upload(p)
      <4>1. rec'[u] = new
        BY <1>1, <2>2, <3>1
      <4>2. Written(p, u)
        BY <2>1, <2>2, <3>1, <4>1 DEF Written
      <4> QED
        BY <4>2
    <3>2. CASE u # Upload(p)
      BY <1>1, <2>2, <3>2
    <3> QED
      BY <3>1, <3>2
  <2>3. CASE UNCHANGED rec
    BY <2>3
  <2> QED
    BY <1>4, <2>2, <2>3 DEF StateCas
<1>5. ASSUME NEW q \in Requests, Request(q) PROVE UNCHANGED rec \/ StateCas(q)
  BY <1>5 DEF Request, Complete, Publish, RequestFails, StateGet
<1>6. ASSUME NEW w \in Workers, Handler(w) PROVE UNCHANGED rec \/ StateCas(w)
  BY <1>6 DEF Handler, Pipeline, Deliver, Transient, StateFails, Crash, LoadState,
              DiscardExpired, ListParts, CompleteMultipart, HeadObject, Scan, AppendCreate,
              ResolveDuplicate, ReadHistory, ReadLast, AppendUpdate, AbortMultipart,
              DeleteObject, StateGet, Settle
<1>7. ASSUME NEW i \in DOMAIN queue, AckWait(i) PROVE UNCHANGED rec
  BY <1>7 DEF AckWait
<1> QED
  BY <1>2, <1>3, <1>4, <1>5, <1>6, <1>7 DEF Next, vars, Procs

\* A terminal status is final, and an expired record stays gone.
THEOREM TerminalStays == Spec => TerminalIsFinal
<1> DEFINE A == \A u \in Uploads :
                  /\ rec[u].status \in Terminal => rec'[u] \in {rec[u], NoRecord}
                  /\ mp[u] # "none" /\ rec[u] = NoRecord => rec'[u] = NoRecord
<1>1. ASSUME IInv, [Next]_vars PROVE A
  <2> SUFFICES ASSUME NEW u \in Uploads
               PROVE  /\ rec[u].status \in Terminal => rec'[u] \in {rec[u], NoRecord}
                      /\ mp[u] # "none" /\ rec[u] = NoRecord => rec'[u] = NoRecord
    OBVIOUS
  <2>1. NoRecord.status = "absent" /\ NoRecord.rev = 0
    BY DEF NoRecord
  <2>2. mp[u] = "none" => rec[u] = NoRecord
    BY <1>1 DEF IInv, RecordInv, RecOK
  <2>3. ASSUME NEW p \in Procs, Written(p, u)
        PROVE  rec[u].status \in {"uploading", "scanning"} /\ rec[u] # NoRecord
    BY <1>1, <2>1, <2>3 DEF IInv, ProcInv, AnswerInv, Written
  <2> QED
    BY <1>1, <2>1, <2>2, <2>3, RecordChanges DEF Terminal
<1> QED
  BY <1>1, InductiveInvariant, PTL DEF Spec, TerminalIsFinal

-----------------------------------------------------------------------------

\* The refinement mapping, named.
Status(u) ==
  IF rec[u].status = "absent"
  THEN IF mp[u] = "none" THEN "none" ELSE "gone"
  ELSE rec[u].status
History == [k \in DOMAIN log |-> log[k].blob]

\* The history is a sequence as long as the log.
LEMMA HistoryType ==
  ASSUME TypeOK
  PROVE  /\ History \in Seq(Uploads) /\ Len(History) = Len(log) /\ Len(log) \in Nat
         /\ DOMAIN History = 1..Len(log) /\ \A k \in 1..Len(log) : History[k] = log[k].blob
<1>1. Len(log) \in Nat /\ DOMAIN log = 1..Len(log) /\ \A k \in 1..Len(log) : log[k].blob \in Uploads
  BY TypeFacts DEF Event
<1> QED
  BY SMT, <1>1 DEF History

\* Nothing a client can see changes.
LEMMA Invisible ==
  ASSUME UNCHANGED <<rec, log>>, \A u \in Uploads : mp'[u] = "none" <=> mp[u] = "none"
  PROVE  UNCHANGED Contract!contractVars
  BY DEF Contract!contractVars

\* Preflight opens an upload.
LEMMA OpenStep ==
  ASSUME IInv, NEW u \in Uploads, Preflight(u) \/ PreflightUnwound(u)
  PROVE  Contract!Open(u)
<1> DEFINE new == [NoRecord EXCEPT !.status = "uploading", !.rev = 1]
<1>1. new.status = "uploading" /\ new.version = 0
      /\ NoRecord.status = "absent" /\ NoRecord.version = 0
  BY DEF NoRecord
<1>2. PICK r \in {new, NoRecord}, m \in {"open", "gone"} :
        rec' = [rec EXCEPT ![u] = r] /\ mp' = [mp EXCEPT ![u] = m]
  BY DEF Preflight, PreflightUnwound
<1>3. mp[u] = "none" /\ rec[u] = NoRecord /\ log' = log
  BY DEF Preflight, PreflightUnwound, logVars, IInv, RecordInv, RecOK
<1>4. rec \in [Uploads -> Record] /\ mp \in [Uploads -> {"none", "open", "gone"}]
  BY DEF IInv, TypeOK
<1>5. /\ r.status \in {"uploading", "absent"} /\ r.version = 0
  <2>1. CASE r = new
    BY <1>1, <2>1
  <2>2. CASE r = NoRecord
    BY <1>1, <2>2
  <2> QED
    BY <2>1, <2>2
<1>6. /\ Status(u) = "none"
      /\ Status(u)' \in {"uploading", "gone"}
      /\ \A v \in Uploads : v # u => Status(v)' = Status(v)
      /\ \A v \in Uploads : rec'[v].version = rec[v].version
  BY <1>1, <1>2, <1>3, <1>4, <1>5 DEF Status
<1> QED
  BY <1>3, <1>6 DEF Contract!Open, Status

\* A sequence is the function from its positions to its elements.
LEMMA SeqIsFunction ==
  ASSUME NEW S, NEW s \in Seq(S)
  PROVE  s = [k \in 1..Len(s) |-> s[k]]
  BY SMT

\* The record's lifetime ends.
LEMMA RetireStep ==
  ASSUME IInv, NEW u \in Uploads, Expire(u)
  PROVE  Contract!Retire(u)
<1>1. NoRecord.status = "absent" /\ NoRecord.version = 0
  BY DEF NoRecord
<1>2. rec' = [rec EXCEPT ![u] = NoRecord] /\ mp' = mp /\ log' = log /\ mp[u] # "none"
      /\ rec[u].status # "absent"
  BY <1>1 DEF Expire, blobVars, logVars, IInv, RecordInv, RecOK
<1>3. rec \in [Uploads -> Record] /\ rec[u].status # "none"
  BY DEF IInv, TypeOK, Record, Terminal
<1>4. /\ Status(u) # "none" /\ Status(u)' = "gone" /\ rec'[u].version = 0
      /\ \A v \in Uploads : v # u => Status(v)' = Status(v) /\ rec'[v] = rec[v]
  BY <1>1, <1>2, <1>3 DEF Status
<1>5. /\ [v \in Uploads |-> Status(v)]' = [[v \in Uploads |-> Status(v)] EXCEPT ![u] = "gone"]
      /\ [v \in Uploads |-> rec[v].version]' = [[v \in Uploads |-> rec[v].version] EXCEPT ![u] = 0]
  BY <1>4
<1> QED
  BY <1>2, <1>4, <1>5 DEF Contract!Retire, Status
\* An append lands an upload that is not in the history yet.
LEMMA LandStep ==
  ASSUME IInv, NEW w \in Workers, AppendCreate(w) \/ AppendUpdate(w)
  PROVE  UNCHANGED Contract!contractVars \/ \E u \in Uploads : Contract!Land(u)
<1>1. ~At(w, "idle") /\ UNCHANGED <<rec, mp>>
  BY DEF AppendCreate, AppendUpdate, At, blobVars
<1>2. TypeOK /\ ProcInv(w) /\ Upload(w) \in Uploads /\ Upload(w) = h[w].cmd.u
      /\ h[w] \in Local /\ log \in Seq(Event) /\ LogInv
  BY <1>1, Busy DEF IInv, TypeOK
<1>3. CASE log' = log
  BY <1>1, <1>3, Invisible
<1>4. ASSUME log' # log
      PROVE  ~Landed(Upload(w)) /\ \E v \in Nat, b \in IfMatches : Store(Upload(w), v, b)
  <2>1. CASE AppendCreate(w)
    <3>1. Store(Upload(w), 1, 0) /\ ~Conflicts(0)
      BY <1>4, <2>1 DEF AppendCreate, logVars
    <3>2. 0 \in IfMatches /\ 1 \in Nat /\ ~Landed(Upload(w))
      BY SMT, <1>2, <3>1, InputsAssumption DEF Conflicts, Landed
    <3> QED
      BY <3>1, <3>2
  <2>2. CASE AppendUpdate(w)
    <3>1. Store(Upload(w), h[w].ver, h[w].cmd.ifm) /\ ~Duplicate(Upload(w))
      BY <1>2, <1>4, <2>2 DEF AppendUpdate, logVars
    <3>2. h[w].ver \in Nat /\ h[w].cmd.ifm \in IfMatches
      BY <1>2 DEF Local, Command
    <3>3. ~Landed(Upload(w))
      BY <1>2, <2>2, <3>1 DEF AppendUpdate, At, ProcInv, AppendInv, Duplicate
    <3> QED
      BY <3>1, <3>2, <3>3
  <2> QED
    BY <2>1, <2>2
<1>5. CASE log' # log
  <2>0. PICK u \in Uploads : u = Upload(w)
    BY <1>2
  <2>1. PICK v \in Nat, b \in IfMatches : Store(u, v, b)
    BY <1>4, <1>5, <2>0
  <2> DEFINE ev == [blob |-> u, version |-> v, based |-> b]
  <2>2. ev \in Event /\ ev.blob = u /\ log' = Append(log, ev)
    BY <1>2, <2>1 DEF Event, Store
  <2>3. /\ log' \in Seq(Event) /\ Len(log') = Len(log) + 1 /\ Len(log) \in Nat
        /\ DOMAIN log' = 1..(Len(log) + 1) /\ DOMAIN log = 1..Len(log)
        /\ \A k \in 1..Len(log) : log'[k] = log[k]
        /\ log'[Len(log) + 1].blob = u
    <3> HIDE DEF ev
    <3> QED
      BY SMT, <1>2, <2>2
  <2>4. /\ History \in Seq(Uploads) /\ Len(History) = Len(log)
        /\ DOMAIN History = 1..Len(log) /\ \A k \in 1..Len(log) : History[k] = log[k].blob
    BY <1>2, HistoryType
  <2>5. History' = Append(History, u)
    <3>1. /\ Append(History, u) \in Seq(Uploads) /\ Len(Append(History, u)) = Len(log) + 1
          /\ \A k \in 1..Len(log) : Append(History, u)[k] = log[k].blob
          /\ Append(History, u)[Len(log) + 1] = u
      BY SMT, <1>2, <2>3, <2>4
    <3>2. Append(History, u) = [k \in 1..(Len(log) + 1) |-> Append(History, u)[k]]
      BY <3>1, SeqIsFunction
    <3>3. \A k \in 1..(Len(log) + 1) : log'[k].blob = Append(History, u)[k]
      BY SMT, <2>3, <3>1
    <3>4. History' = [k \in 1..(Len(log) + 1) |-> log'[k].blob]
      BY <2>3 DEF History
    <3> QED
      BY <3>2, <3>3, <3>4
  <2>6. \A k \in DOMAIN History : History[k] # u
    BY <1>4, <1>5, <2>0, <2>4 DEF Landed
  <2>7. Contract!Land(u)
    BY <1>1, <2>5, <2>6 DEF Contract!Land, History
  <2> QED
    BY <1>2, <2>7
<1> QED
  BY <1>3, <1>5

\* A successful compare-and-swap queues or answers the upload, or repeats the
\* scanning it already says.
LEMMA WriteStep ==
  ASSUME IInv, NEW p \in Procs, StateCas(p)
  PROVE  UNCHANGED Contract!contractVars
         \/ \E u \in Uploads : Contract!Queue(u) \/ Contract!Answer(u)
<1>0. PICK u \in Uploads : u = Upload(p)
  BY TypeFacts DEF IInv
<1> DEFINE new == [status |-> h[p].want, version |-> h[p].ver,
                   superseded |-> h[p].sup, rev |-> rec[u].rev + 1]
<1>1. UNCHANGED <<log, mp>>
  BY DEF StateCas, logVars, blobVars
<1>2. CASE UNCHANGED rec
  BY <1>1, <1>2, Invisible
<1>3. CASE /\ rec[u].rev = h[p].rev /\ rec' = [rec EXCEPT ![u] = new]
  <2>1. TypeOK /\ ProcInv(p) /\ h[p] \in Local /\ u \in Uploads /\ u = h[p].cmd.u
        /\ rec \in [Uploads -> Record] /\ h[p].pc = "cas" /\ RecOK(u)
    <3>1. TypeOK /\ ProcInv(p) /\ RecordInv /\ h[p].pc = "cas"
      BY DEF IInv, StateCas, At
    <3>2. h[p] \in Local /\ u = h[p].cmd.u
      BY <1>0, <3>1, TypeFacts DEF Upload
    <3> QED
      BY <3>1, <3>2 DEF TypeOK, RecordInv
  <2>2. /\ rec[u].status \in {"uploading", "scanning"} /\ rec[u].version = 0
        /\ h[p].want \in {"scanning", "accepted", "rejected"}
        /\ h[p].want # "accepted" => h[p].ver = 0
        /\ h[p].want = "accepted" => /\ h[p].ver <= Len(log)
                                     /\ \E k \in 1..h[p].ver : log[k].blob = u
        /\ h[p].ver \in Nat
    <3>1. /\ h[p].want \in {"scanning", "accepted", "rejected"}
          /\ h[p].want # "accepted" => h[p].ver = 0
      BY <2>1 DEF ProcInv, PcInv
    <3>2. /\ rec[u].status \in {"uploading", "scanning"}
          /\ h[p].want = "accepted" => /\ h[p].ver <= Len(log)
                                       /\ \E k \in 1..h[p].ver : log[k].blob = u
      BY <1>3, <2>1 DEF ProcInv, AnswerInv
    <3>3. rec[u].version = 0
      BY <2>1, <3>2 DEF RecOK
    <3>4. h[p].ver \in Nat
      BY <2>1 DEF Local
    <3> QED
      BY <3>1, <3>2, <3>3, <3>4
  <2>3. /\ Status(u) = rec[u].status /\ Status(u)' = h[p].want
        /\ rec'[u].version = h[p].ver
        /\ \A v \in Uploads : v # u => Status(v)' = Status(v) /\ rec'[v] = rec[v]
    BY <1>1, <1>3, <2>1, <2>2 DEF Status
  <2>4. [v \in Uploads |-> Status(v)]' = [[v \in Uploads |-> Status(v)] EXCEPT ![u] = h[p].want]
    BY <2>1, <2>3
  <2>5. /\ [v \in Uploads |-> rec[v].version]' =
             [[v \in Uploads |-> rec[v].version] EXCEPT ![u] = h[p].ver]
        /\ h[p].ver = 0 => [v \in Uploads |-> rec[v].version]' = [v \in Uploads |-> rec[v].version]
    <3>1. ASSUME h[p].ver = 0 PROVE \A v \in Uploads : rec'[v].version = rec[v].version
      BY <2>2, <2>3, <3>1
    <3>2. h[p].ver = 0 => [v \in Uploads |-> rec'[v].version] = [v \in Uploads |-> rec[v].version]
      BY <3>1
    <3>3. [v \in Uploads |-> rec[v].version]' =
            [[v \in Uploads |-> rec[v].version] EXCEPT ![u] = h[p].ver]
      BY <2>1, <2>3
    <3> QED
      BY <3>2, <3>3
  <2>6. History' = History
    BY <1>1 DEF History
  <2>7. CASE h[p].want = "scanning" /\ rec[u].status = "uploading"
    <3>1. Contract!Queue(u)
      BY <2>1, <2>2, <2>3, <2>4, <2>5, <2>6, <2>7 DEF Contract!Queue, Status, History
    <3> QED
      BY <2>1, <3>1
  <2>8. CASE h[p].want = "scanning" /\ rec[u].status = "scanning"
    <3>1. [v \in Uploads |-> Status(v)]' = [v \in Uploads |-> Status(v)]
      BY <2>3, <2>8
    <3> QED
      BY <2>2, <2>5, <2>6, <2>8, <3>1 DEF Contract!contractVars, Status, History
  <2>9. CASE h[p].want = "rejected"
    <3>1. Contract!Answer(u)
      BY <2>1, <2>2, <2>3, <2>4, <2>5, <2>6, <2>9 DEF Contract!Answer, Status, History
    <3> QED
      BY <2>1, <3>1
  <2>10. CASE h[p].want = "accepted"
    <3>1. PICK k \in 1..h[p].ver : log[k].blob = u
      BY <2>2, <2>10
    <3>2. k \in DOMAIN History /\ h[p].ver \in k..Len(History) /\ History[k] = u
      BY SMTT(30), <2>1, <2>2, <2>10, <3>1, HistoryType
    <3>3. \E i \in DOMAIN History : \E n \in i..Len(History) :
            /\ History[i] = u
            /\ [v \in Uploads |-> Status(v)]' =
                 [[v \in Uploads |-> Status(v)] EXCEPT ![u] = "accepted"]
            /\ [v \in Uploads |-> rec[v].version]' =
                 [[v \in Uploads |-> rec[v].version] EXCEPT ![u] = n]
      BY <2>4, <2>5, <2>10, <3>2
    <3>4. [v \in Uploads |-> Status(v)][u] \in {"uploading", "scanning"}
      BY <2>1, <2>2, <2>3
    <3>5. Contract!Answer(u)
      BY <2>6, <3>3, <3>4 DEF Contract!Answer, Status, History
    <3> QED
      BY <2>1, <3>5
  <2> QED
    BY <2>2, <2>7, <2>8, <2>9, <2>10
<1> QED
  BY <1>0, <1>2, <1>3 DEF StateCas

\* The remaining actions of storage, time and the handlers leave the record,
\* the log and the existence of uploads alone.
LEMMA HiddenStep ==
  ASSUME IInv,
         \/ \E u \in Uploads : PutParts(u) \/ ReapMultipart(u) \/ ForgetCommand(u) \/ ForgetEvent(u)
         \/ \E q \in Requests : Complete(q) \/ Publish(q) \/ RequestFails(q)
         \/ \E p \in Procs : StateGet(p) \/ StateFails(p)
         \/ \E w \in Workers :
              \/ Deliver(w) \/ Transient(w) \/ Crash(w) \/ LoadState(w) \/ DiscardExpired(w)
              \/ ListParts(w) \/ CompleteMultipart(w) \/ HeadObject(w) \/ Scan(w)
              \/ ResolveDuplicate(w) \/ ReadHistory(w) \/ ReadLast(w)
              \/ AbortMultipart(w) \/ DeleteObject(w) \/ Settle(w)
         \/ \E i \in DOMAIN queue : AckWait(i)
  PROVE  UNCHANGED Contract!contractVars
<1>1. mp \in [Uploads -> {"none", "open", "gone"}]
  BY DEF IInv, TypeOK
<1>2. CASE UNCHANGED <<rec, log, mp>>
  BY <1>2, Invisible
<1>3. ASSUME NEW u \in Uploads, ReapMultipart(u) PROVE UNCHANGED Contract!contractVars
  BY <1>1, <1>3, Invisible DEF ReapMultipart, logVars
<1>4. ASSUME NEW w \in Workers, CompleteMultipart(w) \/ AbortMultipart(w)
      PROVE  UNCHANGED Contract!contractVars
  <2>1. ~At(w, "idle")
    BY <1>4 DEF CompleteMultipart, AbortMultipart, At
  <2>2. Upload(w) \in Uploads /\ mp[Upload(w)] # "none"
    BY <2>1, Busy
  <2>3. UNCHANGED <<rec, log>> /\ (mp' = mp \/ mp' = [mp EXCEPT ![Upload(w)] = "gone"])
    BY <1>4 DEF CompleteMultipart, AbortMultipart, logVars
  <2> QED
    BY <1>1, <2>2, <2>3, Invisible
<1>5. ASSUME NEW u \in Uploads, PutParts(u) \/ ForgetCommand(u) \/ ForgetEvent(u)
      PROVE  UNCHANGED <<rec, log, mp>>
  BY <1>5 DEF PutParts, ForgetCommand, ForgetEvent, blobVars, logVars
<1>6. ASSUME NEW q \in Requests, Complete(q) \/ Publish(q) \/ RequestFails(q)
      PROVE  UNCHANGED <<rec, log, mp>>
  BY <1>6 DEF Complete, Publish, RequestFails, blobVars, logVars
<1>7. ASSUME NEW p \in Procs, StateGet(p) \/ StateFails(p) PROVE UNCHANGED <<rec, log, mp>>
  BY <1>7 DEF StateGet, StateFails, blobVars, logVars
<1>8. ASSUME NEW w \in Workers,
             \/ Deliver(w) \/ Transient(w) \/ Crash(w) \/ LoadState(w) \/ DiscardExpired(w)
             \/ ListParts(w) \/ HeadObject(w) \/ Scan(w)
             \/ ResolveDuplicate(w) \/ ReadHistory(w) \/ ReadLast(w) \/ DeleteObject(w) \/ Settle(w)
      PROVE  UNCHANGED <<rec, log, mp>>
  BY <1>8 DEF Deliver, Transient, Crash, LoadState, DiscardExpired, ListParts, HeadObject, Scan,
              ResolveDuplicate, ReadHistory, ReadLast, DeleteObject, Settle, blobVars, logVars
<1>9. ASSUME NEW i \in DOMAIN queue, AckWait(i) PROVE UNCHANGED <<rec, log, mp>>
  BY <1>9 DEF AckWait, blobVars, logVars
<1> QED
  BY <1>2, <1>3, <1>4, <1>5, <1>6, <1>7, <1>8, <1>9

\* Every step of the pipeline is a step of the contract or invisible to it.
LEMMA StepSimulation ==
  IInv /\ [Next]_vars => [Contract!ContractNext]_(Contract!contractVars)
<1> SUFFICES ASSUME IInv, [Next]_vars
             PROVE  Contract!ContractNext \/ UNCHANGED Contract!contractVars
  OBVIOUS
<1>1. CASE UNCHANGED vars
  BY <1>1, Invisible DEF vars
<1>2. ASSUME NEW u \in Uploads, Client(u) \/ Passage(u)
      PROVE  Contract!ContractNext \/ UNCHANGED Contract!contractVars
  BY <1>2, OpenStep, RetireStep, HiddenStep DEF Client, Passage, Contract!ContractNext
<1>3. ASSUME NEW p \in Procs, StateCas(p)
      PROVE  Contract!ContractNext \/ UNCHANGED Contract!contractVars
  BY <1>3, WriteStep DEF Contract!ContractNext
<1>4. ASSUME NEW w \in Workers, AppendCreate(w) \/ AppendUpdate(w)
      PROVE  Contract!ContractNext \/ UNCHANGED Contract!contractVars
  BY <1>4, LandStep DEF Contract!ContractNext
<1>5. ASSUME NEW q \in Requests, Request(q)
      PROVE  Contract!ContractNext \/ UNCHANGED Contract!contractVars
  BY <1>3, <1>5, HiddenStep DEF Request, Procs
<1>6. ASSUME NEW w \in Workers, Handler(w)
      PROVE  Contract!ContractNext \/ UNCHANGED Contract!contractVars
  BY <1>3, <1>4, <1>6, HiddenStep DEF Handler, Pipeline, Procs
<1>7. ASSUME NEW i \in DOMAIN queue, AckWait(i)
      PROVE  Contract!ContractNext \/ UNCHANGED Contract!contractVars
  BY <1>7, HiddenStep
<1> QED
  BY <1>1, <1>2, <1>5, <1>6, <1>7 DEF Next

\* The pipeline, with all its concurrency, redelivery and faults, keeps the
\* contract.
THEOREM PipelineImplementsContract == Spec => ImplementsContract
<1>1. Init => Contract!ContractInit
  BY SMT DEF Init, Contract!ContractInit, NoRecord
<1> QED
  BY <1>1, StepSimulation, InductiveInvariant, PTL
     DEF Spec, ImplementsContract, Contract!ContractSpec

=============================================================================
