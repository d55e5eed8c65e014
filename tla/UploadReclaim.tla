--------------------------- MODULE UploadReclaim ---------------------------
(***************************************************************************)
(* A second inductive invariant of UploadPipeline, which says who owns the *)
(* bytes of an upload: the handler of its item, the item itself, or nobody *)
(* because they are a version or were given back.                          *)
(***************************************************************************)
EXTENDS UploadInvariant

(***************************************************************************)

USE ZenonT(30)
(* Whose bytes these are                                                   *)
(***************************************************************************)

\* The bytes were given back, or the failure to do so was logged.
Reclaimed(u) == u \in orphaned \/ (obj[u] = "absent" /\ mp[u] = "gone")
Settled(u) == Reclaimed(u) \/ Landed(u)

\* A deadline lapsed, the deliveries are used up, or there is a second item:
\* more than one handler may have served the upload, or the last one gave up.
Spent(i) == queue[i].n >= MaxDeliver
Excused(u) ==
  \/ lapses > 0
  \/ \E i \in 1..Len(queue) : queue[i].cmd.u = u /\ Spent(i)
  \/ \E i, j \in 1..Len(queue) : i # j /\ queue[i].cmd.u = u /\ queue[j].cmd.u = u

\* Rejected bytes are back, an object has an item and no multipart, and the
\* object of a version is there.
BlobInv(u) ==
  /\ rec[u].status = "rejected" => Reclaimed(u)
  /\ obj[u] # "absent" => mp[u] = "gone" /\ \E i \in 1..Len(queue) : queue[i].cmd.u = u
  /\ Landed(u) => Excused(u) \/ obj[u] = "good"

\* An item leaves the queue when its upload is settled.
ItemInv(i) == queue[i].st = "gone" => Settled(queue[i].cmd.u)

\* What a handler may rely on before its next call.
Holds(u, pc, want) ==
  /\ pc = "delete" => u \in orphaned \/ mp[u] = "gone"
  /\ pc \in {"get", "cas"} => want = "accepted" \/ (want = "rejected" /\ Reclaimed(u))
  /\ pc = "settle" /\ want # "retry" => Settled(u)
  /\ pc \in {"create", "dup", "history", "last", "append"} => Excused(u) \/ obj[u] = "good"
  /\ pc \in {"abort", "delete"} => Excused(u) \/ ~Landed(u)

\* A busy handler has its item out, unless the upload is excused.
HandlerInv(w) ==
  ~At(w, "idle") =>
    /\ queue[h[w].item].cmd = h[w].cmd
    /\ h[w].final => Spent(h[w].item)
    /\ Excused(Upload(w)) \/ queue[h[w].item].st = "out"
    /\ Holds(Upload(w), h[w].pc, h[w].want)

\* Two handlers of one upload, too, need an excuse; a request writes scanning.
ReclaimInv ==
  /\ \A u \in Uploads : BlobInv(u)
  /\ \A i \in 1..Len(queue) : ItemInv(i)
  /\ \A w \in Workers : HandlerInv(w)
  /\ \A v, w \in Workers :
       v # w /\ ~At(v, "idle") /\ ~At(w, "idle") /\ Upload(v) = Upload(w) => Excused(Upload(v))
  /\ \A q \in Requests : h[q].pc \in {"get", "cas"} => h[q].want = "scanning"

-----------------------------------------------------------------------------

\* What is true of an upload stays true while storage, log and queue go on.
Onward ==
  /\ orphaned \subseteq orphaned' /\ lapses \in Nat /\ lapses' \in Nat /\ lapses' >= lapses
  /\ \A u \in Uploads :
       /\ mp[u] = "gone" => mp'[u] = "gone" /\ (obj[u] = "absent" => obj'[u] = "absent")
       /\ Landed(u) => Landed(u)'
  /\ Len(queue) \in Nat /\ Len(queue') \in Nat /\ Len(queue') >= Len(queue)
  /\ \A i \in 1..Len(queue) :
       queue'[i].cmd = queue[i].cmd /\ (Spent(i) => Spent(i)')

\* What is settled, given back or excused stays so.
LEMMA OnwardFacts ==
  ASSUME Onward, NEW u \in Uploads
  PROVE  /\ Reclaimed(u) => Reclaimed(u)'
         /\ Settled(u) => Settled(u)'
         /\ Excused(u) => Excused(u)'
         /\ (u \in orphaned \/ mp[u] = "gone") => (u \in orphaned \/ mp[u] = "gone")'
<1>1. Reclaimed(u) => Reclaimed(u)'
  BY DEF Onward, Reclaimed
<1>2. lapses > 0 => lapses' > 0
  BY SMT DEF Onward
<1>3. 1..Len(queue) \subseteq 1..Len(queue')
  BY SMT DEF Onward
<1>4. Excused(u) => Excused(u)'
  <2>1. CASE \E i \in 1..Len(queue) : queue[i].cmd.u = u /\ Spent(i)
    BY <1>3, <2>1 DEF Onward, Excused
  <2>2. CASE \E i, j \in 1..Len(queue) : i # j /\ queue[i].cmd.u = u /\ queue[j].cmd.u = u
    <3>1. \A i \in 1..Len(queue) : queue'[i].cmd = queue[i].cmd /\ i \in 1..Len(queue')
      BY <1>3 DEF Onward
    <3> QED
      BY <2>2, <3>1 DEF Excused
  <2> QED
    BY <1>2, <2>1, <2>2 DEF Excused
<1> QED
  BY <1>1, <1>4 DEF Settled, Onward

\* A handler's step reaches its own upload and its own item only.
Frame(w) ==
  /\ Onward
  /\ \A o \in Procs : o # w => h'[o] = h[o]
  /\ h'[w].pc # "idle" =>
       h'[w].cmd = h[w].cmd /\ h'[w].item = h[w].item /\ h'[w].final = h[w].final
  /\ \A v \in Uploads : v # Upload(w) =>
       rec'[v] = rec[v] /\ obj'[v] = obj[v] /\ (Landed(v)' => Landed(v))
  /\ lapses' = lapses
  /\ Len(queue') = Len(queue)
  /\ \A i \in 1..Len(queue) : i # h[w].item => queue'[i] = queue[i]

\* A busy handler's upload and item exist.
LEMMA HandlerFacts ==
  ASSUME IInv, NEW w \in Workers
  PROVE  /\ w \in Procs /\ w \notin Requests /\ Upload(w) \in Uploads
         /\ ~At(w, "idle") => h[w].item \in 1..Len(queue)
         /\ Upload(w) = h[w].cmd.u
<1>1. w \in Procs /\ w \notin Requests
  BY ProcsAssumption DEF Procs
<1>2. Upload(w) \in Uploads /\ ProcInv(w)
  BY <1>1, TypeFacts DEF IInv
<1> QED
  BY <1>1, <1>2 DEF ProcInv, PcInv, At, Upload

\* The other handlers are either busy with another upload, or not alone.
LEMMA OtherHandlers ==
  ASSUME IInv, ReclaimInv, NEW w \in Workers, ~At(w, "idle"), Frame(w),
         NEW o \in Workers, o # w
  PROVE  HandlerInv(o)'
<1>0. /\ h'[o] = h[o] /\ Upload(o) \in Uploads /\ Upload(o)' = Upload(o)
      /\ HandlerInv(o) /\ Onward
      /\ ~At(o, "idle") => h[o].item \in 1..Len(queue)
  BY HandlerFacts DEF Frame, ReclaimInv, Upload
<1> SUFFICES ASSUME ~At(o, "idle")
             PROVE  /\ queue'[h[o].item].cmd = h[o].cmd
                    /\ h[o].final => Spent(h[o].item)'
                    /\ Excused(Upload(o))' \/ queue'[h[o].item].st = "out"
                    /\ Holds(Upload(o), h[o].pc, h[o].want)'
  BY <1>0 DEF HandlerInv, At
<1>1. /\ queue[h[o].item].cmd = h[o].cmd
      /\ h[o].final => Spent(h[o].item)
      /\ Excused(Upload(o)) \/ queue[h[o].item].st = "out"
      /\ Holds(Upload(o), h[o].pc, h[o].want)
  BY <1>0 DEF HandlerInv
<1>2. /\ queue'[h[o].item].cmd = h[o].cmd
      /\ h[o].final => Spent(h[o].item)'
  BY <1>0, <1>1 DEF Onward
<1>3. Reclaimed(Upload(o)) => Reclaimed(Upload(o))'
  BY <1>0, OnwardFacts
<1>4. Settled(Upload(o)) => Settled(Upload(o))'
  BY <1>0, OnwardFacts
<1>5. (Upload(o) \in orphaned \/ mp[Upload(o)] = "gone") =>
        (Upload(o) \in orphaned' \/ mp'[Upload(o)] = "gone")
  BY <1>0 DEF Onward
<1>6. CASE Excused(Upload(o))
  <2>1. Excused(Upload(o))'
    BY <1>0, <1>6, OnwardFacts
  <2> QED
    BY <1>0, <1>1, <1>2, <1>3, <1>4, <1>5, <2>1 DEF Holds
<1>7. CASE ~Excused(Upload(o))
  <2>1. Upload(o) # Upload(w)
    BY <1>7 DEF ReclaimInv
  <2>2. h[o].item # h[w].item
    BY <1>1, <2>1 DEF ReclaimInv, HandlerInv, Upload
  <2>3. queue'[h[o].item].st = "out"
    BY <1>0, <1>1, <1>7, <2>2 DEF Frame
  <2>4. obj'[Upload(o)] = obj[Upload(o)] /\ (Landed(Upload(o))' => Landed(Upload(o)))
    BY <1>0, <2>1 DEF Frame
  <2> QED
    BY <1>0, <1>1, <1>2, <1>3, <1>4, <1>5, <1>7, <2>3, <2>4 DEF Holds
<1> QED
  BY <1>6, <1>7

\* A step of one handler need only be looked at for its own upload, its own
\* item and itself.
LEMMA HandlerStep ==
  ASSUME IInv, ReclaimInv, NEW w \in Workers, ~At(w, "idle"), Frame(w), HandlerInv(w)',
         NEW b, b = Upload(w), BlobInv(b)', NEW j, j = h[w].item, ItemInv(j)'
  PROVE  ReclaimInv'
<1>0. Onward /\ Upload(w) \in Uploads
  BY HandlerFacts DEF Frame
<1>1. ASSUME NEW u \in Uploads, u # b PROVE BlobInv(u)'
  <2>1. /\ rec'[u] = rec[u] /\ obj'[u] = obj[u] /\ (Landed(u)' => Landed(u))
        /\ mp[u] = "gone" => mp'[u] = "gone"
    BY <1>0, <1>1 DEF Frame, Onward
  <2>2. /\ Reclaimed(u) => Reclaimed(u)'
        /\ Excused(u) => Excused(u)'
    BY <1>0, OnwardFacts
  <2>3. (\E i \in 1..Len(queue) : queue[i].cmd.u = u) =>
          \E i \in 1..Len(queue') : queue'[i].cmd.u = u
    BY DEF Frame, Onward
  <2>4. BlobInv(u)
    BY DEF ReclaimInv
  <2>5. /\ (rec[u].status = "rejected" => Reclaimed(u))'
        /\ (Landed(u) => Excused(u) \/ obj[u] = "good")'
    BY <2>1, <2>2, <2>4 DEF BlobInv
  <2>6. obj'[u] # "absent" => mp'[u] = "gone" /\ \E i \in 1..Len(queue') : queue'[i].cmd.u = u
    BY <2>1, <2>3, <2>4 DEF BlobInv
  <2> QED
    BY <2>5, <2>6 DEF BlobInv
<1>2. ASSUME NEW i \in 1..Len(queue'), i # j PROVE ItemInv(i)'
  <2>1. i \in 1..Len(queue) /\ queue'[i] = queue[i]
    BY <1>2 DEF Frame
  <2>2. PICK u \in Uploads : u = queue[i].cmd.u
    <3>1. queue[i] \in Item
      BY <2>1, TypeFacts DEF IInv
    <3> QED
      BY <3>1 DEF Item, Command
  <2>3. queue[i].st = "gone" => Settled(u)
    BY <2>1, <2>2 DEF ReclaimInv, ItemInv
  <2>4. Settled(u) => Settled(u)'
    BY <1>0, OnwardFacts
  <2> QED
    BY <2>1, <2>2, <2>3, <2>4 DEF ItemInv
<1>3. ASSUME NEW o \in Workers PROVE HandlerInv(o)'
  BY OtherHandlers
<1>4. ASSUME NEW o \in Workers, NEW v \in Workers, o # v, ~At(o, "idle")', ~At(v, "idle")',
             Upload(o)' = Upload(v)'
      PROVE  Excused(Upload(o))'
  <2>1. ASSUME NEW x \in Workers, ~At(x, "idle")' PROVE ~At(x, "idle") /\ Upload(x)' = Upload(x)
    <3>1. x \in Procs
      BY DEF Procs
    <3>2. CASE x = w
      BY <2>1, <3>2 DEF Frame, At, Upload
    <3>3. CASE x # w
      BY <2>1, <3>1, <3>3 DEF Frame, At, Upload
    <3> QED
      BY <3>2, <3>3
  <2>2. PICK u \in Uploads : u = Upload(o)
    BY HandlerFacts
  <2>3. Excused(u)
    BY <1>4, <2>1, <2>2 DEF ReclaimInv
  <2>4. Excused(u)'
    BY <1>0, <2>3, OnwardFacts
  <2> QED
    BY <1>4, <2>1, <2>2, <2>4
<1>5. \A q \in Requests : h'[q].pc \in {"get", "cas"} => h'[q].want = "scanning"
  <2>1. \A q \in Requests : h'[q] = h[q]
    BY HandlerFacts DEF Frame, Procs
  <2> QED
    BY <2>1 DEF ReclaimInv
<1> QED
  BY <1>1, <1>2, <1>3, <1>4, <1>5 DEF ReclaimInv

\* A handler goes on with its item to another call.
Goes(w, pc, want) ==
  /\ \A o \in Procs : o # w => h'[o] = h[o]
  /\ h'[w].pc = pc /\ h'[w].want = want
  /\ h'[w].cmd = h[w].cmd /\ h'[w].item = h[w].item /\ h'[w].final = h[w].final

\* How the steps of the code move a handler, one lemma per form.
LEMMA BecomeGoes ==
  ASSUME IInv, NEW w \in Workers, NEW l, Become(w, l),
         l.cmd = h[w].cmd, l.item = h[w].item, l.final = h[w].final
  PROVE  Goes(w, l.pc, l.want)
<1>1. h \in [Procs -> Local] /\ w \in Procs
  BY DEF IInv, TypeOK, Procs
<1>2. h'[w] = l /\ \A o \in Procs : o # w => h'[o] = h[o]
  BY <1>1 DEF Become
<1> QED
  BY <1>2 DEF Goes

\* To the next call.
LEMMA GotoGoes ==
  ASSUME IInv, NEW w \in Workers, NEW pc, Goto(w, pc)
  PROVE  Goes(w, pc, h[w].want)
<1> DEFINE l == [h[w] EXCEPT !.pc = pc]
<1>1. h[w] \in Local
  BY HandlerFacts, TypeFacts DEF IInv
<1>2. /\ l.pc = pc /\ l.want = h[w].want
      /\ l.cmd = h[w].cmd /\ l.item = h[w].item /\ l.final = h[w].final
  BY <1>1 DEF Local
<1>3. Become(w, l)
  BY DEF Goto
<1> HIDE DEF l
<1>4. Goes(w, l.pc, l.want)
  BY <1>2, <1>3, BecomeGoes
<1> QED
  BY <1>2, <1>4

\* To the next call, with an outcome in mind.
LEMMA WantGoes ==
  ASSUME IInv, NEW w \in Workers, NEW pc, NEW want,
         Become(w, [h[w] EXCEPT !.pc = pc, !.want = want])
  PROVE  Goes(w, pc, want)
<1> DEFINE l == [h[w] EXCEPT !.pc = pc, !.want = want]
<1>1. h[w] \in Local
  BY HandlerFacts, TypeFacts DEF IInv
<1>2. /\ l.pc = pc /\ l.want = want
      /\ l.cmd = h[w].cmd /\ l.item = h[w].item /\ l.final = h[w].final
  BY <1>1 DEF Local
<1>3. Become(w, l)
  OBVIOUS
<1> HIDE DEF l
<1>4. Goes(w, l.pc, l.want)
  BY <1>2, <1>3, BecomeGoes
<1> QED
  BY <1>2, <1>4

\* To the end of the pipeline, with an outcome.
LEMMA EndGoes ==
  ASSUME IInv, NEW w \in Workers, NEW pc, NEW want, NEW ver, NEW sup, NEW seq, NEW tries,
         Become(w, [h[w] EXCEPT !.pc = pc, !.want = want, !.ver = ver, !.sup = sup,
                                !.seq = seq, !.tries = tries])
  PROVE  Goes(w, pc, want)
<1> DEFINE l == [h[w] EXCEPT !.pc = pc, !.want = want, !.ver = ver, !.sup = sup,
                             !.seq = seq, !.tries = tries]
<1>1. h[w] \in Local
  BY HandlerFacts, TypeFacts DEF IInv
<1>2. /\ l.pc = pc /\ l.want = want
      /\ l.cmd = h[w].cmd /\ l.item = h[w].item /\ l.final = h[w].final
  BY <1>1 DEF Local
<1>3. Become(w, l)
  OBVIOUS
<1> HIDE DEF l
<1>4. Goes(w, l.pc, l.want)
  BY <1>2, <1>3, BecomeGoes
<1> QED
  BY <1>2, <1>4

\* An accepted upload is recorded next.
LEMMA AcceptGoes ==
  ASSUME IInv, NEW w \in Workers, NEW ver, NEW sup, Accept(w, ver, sup)
  PROVE  Goes(w, "get", "accepted")
  BY EndGoes DEF Accept

\* A rejected upload is reclaimed next.
LEMMA RejectGoes ==
  ASSUME IInv, NEW w \in Workers, Reject(w)
  PROVE  Goes(w, "abort", "rejected")
  BY EndGoes DEF Reject

\* A retry settles, or is a rejection when the deliveries are used up.
LEMMA RetryGoes ==
  ASSUME IInv, ReclaimInv, NEW w \in Workers, ~At(w, "idle"), Retry(w)
  PROVE  \/ Goes(w, "settle", "retry")
         \/ Goes(w, "abort", "rejected") /\ Excused(Upload(w))
<1>1. CASE h[w].final
  <2>1. Goes(w, "abort", "rejected")
    BY <1>1, RejectGoes DEF Retry
  <2>2. Excused(Upload(w))
    BY <1>1, HandlerFacts DEF ReclaimInv, HandlerInv, Excused, Upload
  <2> QED
    BY <2>1, <2>2
<1>2. CASE ~h[w].final
  <2> DEFINE l == [h[w] EXCEPT !.pc = "settle", !.want = "retry", !.ver = 0,
                               !.seq = 0, !.tries = 0]
  <2>1. h[w] \in Local
    BY HandlerFacts, TypeFacts DEF IInv
  <2>2. /\ l.pc = "settle" /\ l.want = "retry"
        /\ l.cmd = h[w].cmd /\ l.item = h[w].item /\ l.final = h[w].final
    BY <2>1 DEF Local
  <2>3. Become(w, l)
    BY <1>2 DEF Retry
  <2> HIDE DEF l
  <2>4. Goes(w, l.pc, l.want)
    BY <2>2, <2>3, BecomeGoes
  <2> QED
    BY <2>2, <2>4
<1> QED
  BY <1>1, <1>2

\* A recorded outcome is settled next.
LEMMA RecordedGoes ==
  ASSUME IInv, NEW w \in Workers, Recorded(w)
  PROVE  Goes(w, "settle", h[w].want)
<1> DEFINE l == [h[w] EXCEPT !.pc = "settle", !.rev = 0, !.tries = 0]
<1>1. h[w] \in Local
  BY HandlerFacts, TypeFacts DEF IInv
<1>2. /\ l.pc = "settle" /\ l.want = h[w].want
      /\ l.cmd = h[w].cmd /\ l.item = h[w].item /\ l.final = h[w].final
  BY <1>1 DEF Local
<1>3. Become(w, l)
  BY DEF Recorded
<1> HIDE DEF l
<1>4. Goes(w, l.pc, l.want)
  BY <1>2, <1>3, BecomeGoes
<1> QED
  BY <1>2, <1>4

\* A step that leaves the queue alone, from what holds at its next call.
LEMMA HandlerGoes ==
  ASSUME IInv, ReclaimInv, NEW w \in Workers, ~At(w, "idle"), Frame(w), queue' = queue,
         NEW pc, NEW want, Goes(w, pc, want), NEW b, b = Upload(w), Holds(b, pc, want)',
         BlobInv(b)'
  PROVE  ReclaimInv'
<1>1. /\ queue[h[w].item].cmd = h[w].cmd
      /\ h[w].final => Spent(h[w].item)
      /\ Excused(Upload(w)) \/ queue[h[w].item].st = "out"
      /\ ItemInv(h[w].item)
      /\ Upload(w) \in Uploads
  BY HandlerFacts DEF ReclaimInv, HandlerInv
<1>2. Excused(b) => Excused(b)'
  BY <1>1, OnwardFacts DEF Frame
<1>3. Upload(w)' = b /\ h'[w].item = h[w].item
  BY DEF Goes, Upload
<1>4. HandlerInv(w)'
  <2>1. Spent(h[w].item) => (queue'[h[w].item].n >= MaxDeliver)
    BY DEF Spent
  <2> QED
    BY <1>1, <1>2, <1>3, <2>1 DEF HandlerInv, Goes, Upload, Spent
<1>5. PICK j : j = h[w].item
  OBVIOUS
<1>6. ItemInv(j)'
  <2>1. queue[j].cmd.u = b
    BY <1>1, <1>5 DEF Upload
  <2>2. Settled(b) => Settled(b)'
    BY <1>1, OnwardFacts DEF Frame
  <2> QED
    BY <1>1, <1>5, <2>1, <2>2 DEF ItemInv
<1> QED
  BY <1>4, <1>5, <1>6, HandlerStep

\* A call that reads, or whose answer is only remembered.
Looks == UNCHANGED <<rec, mp, obj, orphaned, log, queue, lapses>>

\* A step that leaves the queue and the deadlines alone.
LEMMA StorageOnward ==
  ASSUME IInv, UNCHANGED <<queue, lapses>>, orphaned \subseteq orphaned',
         \A u \in Uploads :
           /\ mp[u] = "gone" => mp'[u] = "gone" /\ (obj[u] = "absent" => obj'[u] = "absent")
           /\ Landed(u) => Landed(u)'
  PROVE  Onward
<1>1. lapses \in Nat /\ Len(queue) \in Nat
  BY SMT, TypeFacts DEF IInv, TypeOK
<1>2. lapses' >= lapses /\ Len(queue') >= Len(queue)
  BY SMT, <1>1
<1>3. \A i \in 1..Len(queue) : Spent(i) => Spent(i)'
  BY DEF Spent
<1> QED
  BY <1>1, <1>2, <1>3 DEF Onward

\* A call that only reads takes nothing back.
LEMMA LooksOnward ==
  ASSUME IInv, Looks
  PROVE  Onward
  BY StorageOnward DEF Looks, Landed

\* A call that only reads disturbs nothing.
LEMMA LooksKeeps ==
  ASSUME Looks, NEW u
  PROVE  /\ BlobInv(u) => BlobInv(u)'
         /\ \A pc, want : Holds(u, pc, want) => Holds(u, pc, want)'
<1>1. /\ Reclaimed(u)' <=> Reclaimed(u)
      /\ Landed(u)' <=> Landed(u)
      /\ Excused(u)' <=> Excused(u)
  BY DEF Looks, Reclaimed, Landed, Excused, Spent
<1> QED
  BY <1>1 DEF Looks, BlobInv, Holds, Settled

\* A handler reads and goes on to a call whose conditions hold.
LEMMA LookStep ==
  ASSUME IInv, ReclaimInv, NEW w \in Workers, ~At(w, "idle"), Looks,
         NEW pc, NEW want, Goes(w, pc, want), Holds(Upload(w), pc, want)
  PROVE  ReclaimInv'
<1>0. PICK b \in Uploads : b = Upload(w)
  BY HandlerFacts
<1>1. Frame(w)
  BY LooksOnward DEF Frame, Goes, Looks, Landed
<1>2. Holds(b, pc, want)' /\ BlobInv(b)'
  BY <1>0, LooksKeeps DEF ReclaimInv
<1>3. queue' = queue
  BY DEF Looks
<1> QED
  BY <1>0, <1>1, <1>2, <1>3, HandlerGoes

\* The calls that rely on little.
LEMMA EasyHolds ==
  ASSUME NEW u, NEW want
  PROVE  /\ \A pc \in {"load", "expired", "list", "assemble", "head", "scan"} :
              Holds(u, pc, want)
         /\ Holds(u, "settle", "retry") /\ Holds(u, "get", "accepted")
         /\ Settled(u) => Holds(u, "settle", want)
         /\ Excused(u) \/ ~Landed(u) => Holds(u, "abort", want)
         /\ Excused(u) \/ obj[u] = "good" =>
              \A pc \in {"create", "dup", "history", "last", "append"} : Holds(u, pc, want)
  BY DEF Holds

\* An upload whose object is not good, or not assembled, is no version.
LEMMA NotLanded ==
  ASSUME ReclaimInv, NEW u \in Uploads, obj[u] # "good" \/ mp[u] # "gone"
  PROVE  Excused(u) \/ ~Landed(u)
  BY DEF ReclaimInv, BlobInv

\* The events of an upload that a handler finds are those in the log.
LEMMA AppliedLanded ==
  ASSUME IInv, NEW u
  PROVE  Applied(u) # {} <=> Landed(u)
<1>1. DOMAIN log = 1..Len(log)
  BY TypeFacts DEF IInv
<1> QED
  BY <1>1 DEF Applied, Landed

\* A read that ends in a retry.
LEMMA RetryLooks ==
  ASSUME IInv, ReclaimInv, NEW w \in Workers, ~At(w, "idle"), Looks, Retry(w)
  PROVE  ReclaimInv'
  BY RetryGoes, EasyHolds, LookStep

\* A read that ends in a rejection of an upload that is no version.
LEMMA RejectLooks ==
  ASSUME IInv, ReclaimInv, NEW w \in Workers, ~At(w, "idle"), Looks, Reject(w),
         Excused(Upload(w)) \/ ~Landed(Upload(w))
  PROVE  ReclaimInv'
  BY RejectGoes, EasyHolds, LookStep

\* load_state: a terminal record ends the work, any other goes on.
LEMMA LoadStateReclaim ==
  ASSUME IInv, ReclaimInv, NEW w \in Workers, LoadState(w)
  PROVE  ReclaimInv'
<1>0. ~At(w, "idle") /\ Looks /\ Upload(w) \in Uploads
  BY HandlerFacts DEF LoadState, At, Looks, blobVars, logVars, workVars, budget
<1>1. CASE Goto(w, "expired") \/ Goto(w, "list")
  BY <1>0, <1>1, GotoGoes, EasyHolds, LookStep
<1>2. ASSUME NEW s \in Terminal, s = rec[Upload(w)].status,
             Become(w, [h[w] EXCEPT !.pc = "settle", !.want = s])
      PROVE  ReclaimInv'
  <2>4. Goes(w, "settle", s)
    BY <1>2, WantGoes
  <2>5. Settled(Upload(w))
    <3>1. CASE s = "rejected"
      BY <1>0, <1>2, <3>1 DEF ReclaimInv, BlobInv, Settled
    <3>2. CASE s = "accepted"
      <4>1. /\ rec[Upload(w)].version <= Len(log) /\ Len(log) \in Nat
            /\ rec[Upload(w)] \in Record
            /\ \E k \in 1..rec[Upload(w)].version : log[k].blob = Upload(w)
        BY <1>0, <1>2, <3>2, TypeFacts DEF IInv, RecordInv, RecOK
      <4>2. rec[Upload(w)].version \in Nat
        BY <4>1 DEF Record
      <4>3. Landed(Upload(w))
        BY SMT, <4>1, <4>2 DEF Landed
      <4> QED
        BY <4>3 DEF Settled
    <3> QED
      BY <3>1, <3>2 DEF Terminal
  <2> QED
    BY <1>0, <2>4, <2>5, EasyHolds, LookStep
<1> QED
  BY <1>1, <1>2 DEF LoadState

\* discard_expired reclaims only what the log does not hold.
LEMMA DiscardExpiredReclaim ==
  ASSUME IInv, ReclaimInv, NEW w \in Workers, DiscardExpired(w)
  PROVE  ReclaimInv'
<1>0. ~At(w, "idle") /\ Looks
  BY DEF DiscardExpired, At, Looks, blobVars, logVars, workVars, budget
<1>2. CASE Landed(Upload(w))
  <2>1. Goes(w, "settle", "accepted")
    BY <1>2, WantGoes, AppliedLanded DEF DiscardExpired
  <2> QED
    BY <1>0, <1>2, <2>1, EasyHolds, LookStep DEF Settled
<1>3. CASE ~Landed(Upload(w))
  <2>1. Goes(w, "abort", "expired")
    BY <1>3, WantGoes, AppliedLanded DEF DiscardExpired
  <2> QED
    BY <1>0, <1>3, <2>1, EasyHolds, LookStep
<1> QED
  BY <1>2, <1>3

\* The parts, the assembled object and the scan are judged.
LEMMA VerdictReclaim ==
  ASSUME IInv, ReclaimInv, NEW w \in Workers, ListParts(w) \/ HeadObject(w) \/ Scan(w)
  PROVE  ReclaimInv'
<1>0. ~At(w, "idle") /\ Looks /\ Upload(w) \in Uploads
  BY HandlerFacts DEF ListParts, HeadObject, Scan, At, Looks, blobVars, logVars,
                             workVars, budget
<1>1. CASE Goto(w, "head") \/ Goto(w, "assemble") \/ Goto(w, "scan")
  BY <1>0, <1>1, GotoGoes, EasyHolds, LookStep
<1>2. CASE Reject(w) /\ (obj[Upload(w)] # "good" \/ mp[Upload(w)] # "gone")
  BY <1>0, <1>2, RejectLooks, NotLanded
<1>3. CASE Retry(w)
  BY <1>0, <1>3, RetryLooks
<1>4. CASE obj[Upload(w)] = "good" /\ (Goto(w, "create") \/ Goto(w, "history"))
  BY <1>0, <1>4, GotoGoes, EasyHolds, LookStep
<1>5. ListParts(w) => \/ Goto(w, "head")
                      \/ Goto(w, "assemble")
                      \/ Reject(w) /\ mp[Upload(w)] # "gone"
  BY DEF ListParts
<1>6. HeadObject(w) => Goto(w, "scan") \/ (Reject(w) /\ obj[Upload(w)] # "good")
  BY DEF HeadObject
<1>7. Scan(w) => \/ Retry(w)
                 \/ Reject(w) /\ obj[Upload(w)] # "good"
                 \/ obj[Upload(w)] = "good" /\ (Goto(w, "create") \/ Goto(w, "history"))
  BY DEF Scan
<1> QED
  BY <1>1, <1>2, <1>3, <1>4, <1>5, <1>6, <1>7

\* The object appears where there was none, and the multipart is gone.
LEMMA CompleteMultipartReclaim ==
  ASSUME IInv, ReclaimInv, NEW w \in Workers, CompleteMultipart(w)
  PROVE  ReclaimInv'
<1>0. ~At(w, "idle") /\ UNCHANGED <<rec, orphaned, log, queue, lapses>>
  BY DEF CompleteMultipart, At, logVars, workVars, budget, Spend
<1>1. PICK b \in Uploads : b = Upload(w)
  BY HandlerFacts
<1>2. CASE UNCHANGED <<mp, obj>> /\ Goto(w, "head")
  BY <1>0, <1>2, GotoGoes, EasyHolds, LookStep DEF Looks
<1>3. CASE UNCHANGED <<mp, obj>> /\ mp[b] = "open" /\ Reject(w)
  BY <1>0, <1>1, <1>3, RejectLooks, NotLanded DEF Looks
<1>4. CASE /\ mp[b] = "open"
           /\ mp' = [mp EXCEPT ![b] = "gone"] /\ obj' = [obj EXCEPT ![b] = bytes[b]]
           /\ Goto(w, "head") \/ Retry(w)
  <2>1. /\ mp'[b] = "gone" /\ \A v \in Uploads : v # b => mp'[v] = mp[v] /\ obj'[v] = obj[v]
    BY <1>4 DEF IInv, TypeOK
  <2>2. (Excused(b) \/ ~Landed(b)) /\ obj[b] = "absent"
    BY <1>4, NotLanded DEF ReclaimInv, BlobInv
  <2>4. \A u : (Landed(u)' <=> Landed(u)) /\ (Excused(u)' <=> Excused(u))
    BY <1>0 DEF Landed, Excused, Spent
  <2>5. Onward
    <3>1. \A u \in Uploads :
            mp[u] = "gone" => mp'[u] = "gone" /\ (obj[u] = "absent" => obj'[u] = "absent")
      BY <1>4, <2>1
    <3> QED
      BY <1>0, <2>4, <3>1, StorageOnward
  <2>6. BlobInv(b)'
    <3>1. \E i \in 1..Len(queue') : queue'[i].cmd.u = b
      BY <1>0, <1>1, HandlerFacts DEF ReclaimInv, HandlerInv, Upload
    <3>2. Reclaimed(b) => Reclaimed(b)'
      BY <2>5, OnwardFacts
    <3> QED
      BY <1>0, <2>1, <2>2, <2>4, <3>1, <3>2 DEF ReclaimInv, BlobInv
  <2>7. ASSUME NEW pc \in {"head", "settle", "abort"}, NEW want,
               Goes(w, pc, want), Holds(b, pc, want)
        PROVE  ReclaimInv'
    <3>1. Frame(w)
      BY <1>0, <1>1, <2>1, <2>4, <2>5, <2>7 DEF Frame, Goes
    <3>2. Holds(b, pc, want)'
      BY <2>2, <2>4, <2>5, <2>7, OnwardFacts DEF Holds
    <3> QED
      BY <1>0, <1>1, <2>6, <2>7, <3>1, <3>2, HandlerGoes
  <2>8. CASE Goto(w, "head")
    BY <2>7, <2>8, GotoGoes, EasyHolds
  <2>9. CASE Retry(w)
    BY <1>0, <1>1, <2>7, <2>9, RetryGoes, EasyHolds
  <2> QED
    BY <1>4, <2>8, <2>9
<1> QED
  BY <1>1, <1>2, <1>3, <1>4 DEF CompleteMultipart

\* What reads the log, or is told that nothing was appended.
LEMMA ReadReclaim ==
  ASSUME IInv, ReclaimInv, NEW w \in Workers,
         ResolveDuplicate(w) \/ ReadHistory(w) \/ ReadLast(w) \/ Transient(w)
  PROVE  ReclaimInv'
<1>0. ~At(w, "idle") /\ Looks /\ Upload(w) \in Uploads
  BY HandlerFacts DEF ResolveDuplicate, ReadHistory, ReadLast, Transient, At, Looks,
                             blobVars, logVars, workVars, budget, Spend
<1>1. \A ver, sup : Accept(w, ver, sup) => ReclaimInv'
  BY <1>0, AcceptGoes, EasyHolds, LookStep
<1>2. CASE ReadHistory(w)
  <2>1. Excused(Upload(w)) \/ obj[Upload(w)] = "good"
    BY <1>2 DEF ReadHistory, At, ReclaimInv, HandlerInv, Holds
  <2>2. CASE Goto(w, "last")
    BY <1>0, <2>1, <2>2, GotoGoes, EasyHolds, LookStep
  <2>3. CASE Applied(Upload(w)) = {} /\ Reject(w)
    BY <1>0, <2>3, AppliedLanded, RejectLooks
  <2> QED
    BY <1>1, <1>2, <2>2, <2>3 DEF ReadHistory, Upload
<1>3. CASE ReadLast(w)
  <2> DEFINE l == [h[w] EXCEPT !.pc = "append", !.ver = HeadVersion + 1, !.seq = Len(log)]
  <2>1. h[w] \in Local
    BY HandlerFacts, TypeFacts DEF IInv
  <2>2. /\ l.pc = "append" /\ l.want = h[w].want
        /\ l.cmd = h[w].cmd /\ l.item = h[w].item /\ l.final = h[w].final
    BY <2>1 DEF Local
  <2>3. Become(w, l)
    BY <1>3 DEF ReadLast
  <2> HIDE DEF l
  <2>4. Goes(w, l.pc, l.want)
    BY <2>2, <2>3, BecomeGoes
  <2>5. Excused(Upload(w)) \/ obj[Upload(w)] = "good"
    BY <1>3 DEF ReadLast, At, ReclaimInv, HandlerInv, Holds
  <2> QED
    BY <1>0, <2>2, <2>4, <2>5, EasyHolds, LookStep
<1>4. CASE Transient(w)
  BY <1>0, <1>4, RetryLooks DEF Transient
<1> QED
  BY <1>1, <1>2, <1>3, <1>4 DEF ResolveDuplicate

\* The event of one upload joins the log.
LEMMA StoreLands ==
  ASSUME IInv, NEW u, NEW ver, NEW based, Store(u, ver, based)
  PROVE  \A x : Landed(x)' <=> Landed(x) \/ x = u
<1> DEFINE ev == [blob |-> u, version |-> ver, based |-> based]
<1>1. ev.blob = u /\ log' = Append(log, ev) /\ log \in Seq(Event) /\ Len(log) \in Nat
  BY TypeFacts DEF Store, IInv, TypeOK
<1> HIDE DEF ev
<1>2. /\ Len(log') = Len(log) + 1 /\ log'[Len(log) + 1] = ev
      /\ \A k \in 1..Len(log) : log'[k] = log[k]
  BY SMT, <1>1
<1>3. \A k : k \in 1..Len(log') <=> k \in 1..Len(log) \/ k = Len(log) + 1
  BY SMT, <1>1, <1>2
<1> QED
  BY <1>1, <1>2, <1>3 DEF Landed

\* The event is stored, whatever the handler hears of it.
LEMMA StoreReclaim ==
  ASSUME IInv, ReclaimInv, NEW w \in Workers, NEW ver, NEW based,
         Store(Upload(w), ver, based), UNCHANGED <<rec, mp, obj, orphaned, queue, lapses>>,
         h[w].pc \in {"create", "append"}, (\E v, s : Accept(w, v, s)) \/ Retry(w)
  PROVE  ReclaimInv'
<1>0. PICK b \in Uploads : b = Upload(w)
  BY HandlerFacts
<1>1. ~At(w, "idle")
  BY DEF At
<1>2. \A x : Landed(x)' <=> Landed(x) \/ x = b
  BY <1>0, StoreLands
<1>3. Onward
  BY <1>2, StorageOnward
<1>4. \A u : (Excused(u)' <=> Excused(u)) /\ (Reclaimed(u)' <=> Reclaimed(u))
  BY DEF Excused, Spent, Reclaimed
<1>5. BlobInv(b)'
  <2>1. Excused(b) \/ obj[b] = "good"
    BY <1>0, <1>1 DEF ReclaimInv, HandlerInv, Holds
  <2> QED
    BY <1>4, <2>1 DEF ReclaimInv, BlobInv
<1>6. ASSUME NEW pc, NEW want, Goes(w, pc, want), Holds(b, pc, want)'
      PROVE  ReclaimInv'
  <2>1. Frame(w)
    BY <1>0, <1>2, <1>3, <1>6 DEF Frame, Goes
  <2> QED
    BY <1>0, <1>1, <1>5, <1>6, <2>1, HandlerGoes
<1>7. CASE \E v, s : Accept(w, v, s)
  <2>1. Goes(w, "get", "accepted")
    BY <1>7, AcceptGoes
  <2>2. Holds(b, "get", "accepted")'
    BY DEF Holds
  <2> QED
    BY <1>6, <2>1, <2>2
<1>8. CASE Retry(w)
  <2>1. Holds(b, "settle", "retry")' /\ (Excused(b) => Holds(b, "abort", "rejected")')
    BY <1>4 DEF Holds
  <2> QED
    BY <1>0, <1>1, <1>6, <1>8, <2>1, RetryGoes
<1> QED
  BY <1>7, <1>8

\* append_create and append_update: stored, refused, or the answer lost.
LEMMA AppendReclaim ==
  ASSUME IInv, ReclaimInv, NEW w \in Workers, AppendCreate(w) \/ AppendUpdate(w)
  PROVE  ReclaimInv'
<1>0. /\ ~At(w, "idle") /\ h[w].pc \in {"create", "append"}
      /\ UNCHANGED <<rec, mp, obj, orphaned, queue, lapses>>
  BY DEF AppendCreate, AppendUpdate, At, Retry, blobVars, workVars, budget, Spend
<1>1. ASSUME NEW ver, NEW based, Store(Upload(w), ver, based),
             (\E v, s : Accept(w, v, s)) \/ Retry(w)
      PROVE  ReclaimInv'
  BY <1>0, <1>1, StoreReclaim
<1>2. Excused(Upload(w)) \/ obj[Upload(w)] = "good"
  BY <1>0 DEF ReclaimInv, HandlerInv, Holds
<1>3. CASE Goto(w, "dup") /\ UNCHANGED log
  BY <1>0, <1>2, <1>3, GotoGoes, EasyHolds, LookStep DEF Looks
<1>4. CASE Retry(w) /\ UNCHANGED log
  BY <1>0, <1>4, RetryLooks DEF Looks
<1>5. CASE /\ UNCHANGED log
           /\ Become(w, [h[w] EXCEPT !.pc = "last", !.ver = 0, !.seq = 0, !.tries = @ + 1])
  <2> DEFINE l == [h[w] EXCEPT !.pc = "last", !.ver = 0, !.seq = 0, !.tries = @ + 1]
  <2>1. h[w] \in Local
    BY HandlerFacts, TypeFacts DEF IInv
  <2>2. /\ l.pc = "last" /\ l.want = h[w].want
        /\ l.cmd = h[w].cmd /\ l.item = h[w].item /\ l.final = h[w].final
    BY <2>1 DEF Local
  <2>3. Become(w, l)
    BY <1>5
  <2> HIDE DEF l
  <2>4. Goes(w, l.pc, l.want)
    BY <2>2, <2>3, BecomeGoes
  <2> QED
    BY <1>0, <1>2, <1>5, <2>2, <2>4, EasyHolds, LookStep DEF Looks
<1>6. CASE AppendCreate(w)
  BY <1>1, <1>3, <1>6 DEF AppendCreate, logVars
<1>7. CASE AppendUpdate(w)
  BY <1>1, <1>3, <1>4, <1>5, <1>7 DEF AppendUpdate, logVars, Upload
<1> QED
  BY <1>6, <1>7

\* The multipart is aborted, or the failure to abort it is logged.
LEMMA AbortReclaim ==
  ASSUME IInv, ReclaimInv, NEW w \in Workers, AbortMultipart(w)
  PROVE  ReclaimInv'
<1>0. /\ ~At(w, "idle") /\ h[w].pc = "abort" /\ Goto(w, "delete")
      /\ UNCHANGED <<rec, obj, log, queue, lapses>>
  BY DEF AbortMultipart, At, logVars, workVars, budget, Spend
<1>1. PICK b \in Uploads : b = Upload(w)
  BY HandlerFacts
<1>2. /\ b \in orphaned' \/ mp'[b] = "gone"
      /\ orphaned \subseteq orphaned'
      /\ \A v \in Uploads : mp[v] = "gone" => mp'[v] = "gone"
  BY <1>1 DEF AbortMultipart, IInv, TypeOK
<1>3. PICK want : Goes(w, "delete", want)
  BY <1>0, GotoGoes
<1>4. \A u : (Excused(u)' <=> Excused(u)) /\ (Landed(u)' <=> Landed(u))
  BY <1>0 DEF Excused, Spent, Landed
<1>5. Onward
  BY <1>0, <1>2, <1>4, StorageOnward
<1>6. BlobInv(b)'
  BY <1>0, <1>2, <1>4, <1>5, OnwardFacts DEF ReclaimInv, BlobInv
<1>7. Holds(b, "delete", want)'
  <2>1. Excused(b) \/ ~Landed(b)
    BY <1>0, <1>1 DEF ReclaimInv, HandlerInv, Holds
  <2> QED
    BY <1>2, <1>4, <2>1 DEF Holds
<1>8. Frame(w)
  BY <1>0, <1>3, <1>4, <1>5 DEF Frame, Goes
<1> QED
  BY <1>0, <1>1, <1>3, <1>6, <1>7, <1>8, HandlerGoes

\* The object is deleted, or the failure to delete it is logged: the bytes are
\* back either way, and none of them are a version's.
LEMMA DeleteReclaim ==
  ASSUME IInv, ReclaimInv, NEW w \in Workers, DeleteObject(w)
  PROVE  ReclaimInv'
<1>0. /\ ~At(w, "idle") /\ h[w].pc = "delete"
      /\ UNCHANGED <<rec, mp, log, queue, lapses>>
  BY DEF DeleteObject, At, logVars, workVars, budget, Spend
<1>1. PICK b \in Uploads : b = Upload(w)
  BY HandlerFacts
<1>2. /\ b \in orphaned' \/ obj'[b] = "absent"
      /\ orphaned \subseteq orphaned'
      /\ \A v \in Uploads : (obj[v] = "absent" => obj'[v] = "absent")
                            /\ (obj'[v] = obj[v] \/ obj'[v] = "absent")
      /\ \A v \in Uploads : v # b => obj'[v] = obj[v]
  BY <1>1 DEF DeleteObject, IInv, TypeOK
<1>3. /\ Excused(b) \/ ~Landed(b)
      /\ b \in orphaned \/ mp[b] = "gone"
  BY <1>0, <1>1 DEF ReclaimInv, HandlerInv, Holds
<1>4. \A u : (Excused(u)' <=> Excused(u)) /\ (Landed(u)' <=> Landed(u))
  BY <1>0 DEF Excused, Spent, Landed
<1>5. Onward
  BY <1>0, <1>2, <1>4, StorageOnward
<1>6. Reclaimed(b)'
  BY <1>0, <1>2, <1>3 DEF Reclaimed
<1>7. BlobInv(b)'
  BY <1>0, <1>2, <1>3, <1>4, <1>6 DEF ReclaimInv, BlobInv
<1>8. ASSUME NEW pc \in {"settle", "get"}, Goto(w, pc), NEW want, want = h[w].want,
             pc = "get" => want = "rejected"
      PROVE  ReclaimInv'
  <2>1. Goes(w, pc, want)
    BY <1>8, GotoGoes
  <2>2. Frame(w)
    BY <1>0, <1>1, <1>2, <1>4, <1>5, <2>1 DEF Frame, Goes
  <2>3. Holds(b, pc, want)'
    BY <1>6, <1>8 DEF Holds, Settled
  <2> QED
    BY <1>0, <1>1, <1>7, <2>1, <2>2, <2>3, HandlerGoes
<1>9. h[w].want \in {"rejected", "expired"}
  BY <1>0, HandlerFacts DEF IInv, ProcInv, PcInv
<1> QED
  BY <1>8, <1>9 DEF DeleteObject

-----------------------------------------------------------------------------
(***************************************************************************)
(* The answer is recorded, and the item settled                            *)
(***************************************************************************)

\* An answer about to be recorded: the event is in the log, or the bytes are
\* back.
LEMMA AnswerSettled ==
  ASSUME IInv, ReclaimInv, NEW w \in Workers, h[w].pc \in {"get", "cas"}
  PROVE  /\ Settled(Upload(w))
         /\ Holds(Upload(w), "get", h[w].want) /\ Holds(Upload(w), "cas", h[w].want)
         /\ h[w].want = "rejected" => Reclaimed(Upload(w))
         /\ h[w].want # "scanning"
<1>1. ~At(w, "idle") /\ w \in Procs
  BY HandlerFacts DEF At
<1>2. h[w].want = "accepted" \/ (h[w].want = "rejected" /\ Reclaimed(Upload(w)))
  BY <1>1 DEF ReclaimInv, HandlerInv, Holds
<1>3. CASE h[w].want = "accepted"
  <2>1. /\ h[w].ver <= Len(log) /\ Len(log) \in Nat /\ h[w] \in Local
        /\ \E k \in 1..h[w].ver : log[k].blob = Upload(w)
    BY <1>1, <1>3, TypeFacts DEF IInv, ProcInv, AnswerInv, Upload
  <2>2. h[w].ver \in Nat
    BY <2>1 DEF Local
  <2>3. Landed(Upload(w))
    BY SMT, <2>1, <2>2 DEF Landed
  <2> QED
    BY <1>3, <2>3 DEF Settled, Holds
<1>4. CASE h[w].want = "rejected" /\ Reclaimed(Upload(w))
  BY <1>4 DEF Settled, Holds
<1> QED
  BY <1>2, <1>3, <1>4

\* The compare-and-swap loop that records the outcome.
LEMMA StateReclaim ==
  ASSUME IInv, ReclaimInv, NEW w \in Workers, StateGet(w) \/ StateCas(w) \/ StateFails(w)
  PROVE  ReclaimInv'
<1>0. /\ ~At(w, "idle") /\ h[w].pc \in {"get", "cas"}
      /\ UNCHANGED <<mp, obj, orphaned, log, queue, lapses>>
  BY DEF StateGet, StateCas, StateFails, At, blobVars, logVars, workVars, budget, Spend
<1>1. CASE UNCHANGED rec /\ Recorded(w)
  BY <1>0, <1>1, RecordedGoes, AnswerSettled, EasyHolds, LookStep DEF Looks
<1>2. ASSUME UNCHANGED rec, NEW pc \in {"get", "cas"}, NEW l, Become(w, l), l.pc = pc,
             l.want = h[w].want,
             l.cmd = h[w].cmd, l.item = h[w].item, l.final = h[w].final
      PROVE  ReclaimInv'
  <2>1. Goes(w, pc, h[w].want)
    BY <1>2, BecomeGoes
  <2>2. Holds(Upload(w), pc, h[w].want)
    BY <1>0, <1>2, AnswerSettled
  <2> QED
    BY <1>0, <1>2, <2>1, <2>2, LookStep DEF Looks
<1>3. h[w] \in Local
  BY HandlerFacts, TypeFacts DEF IInv
<1>4. CASE StateGet(w)
  <2> DEFINE l == [h[w] EXCEPT !.pc = "cas", !.rev = rec[Upload(w)].rev]
  <2>1. /\ l.pc = "cas" /\ l.want = h[w].want
        /\ l.cmd = h[w].cmd /\ l.item = h[w].item /\ l.final = h[w].final
    BY <1>3 DEF Local
  <2>2. UNCHANGED rec /\ (Recorded(w) \/ Become(w, l))
    BY <1>4 DEF StateGet
  <2> HIDE DEF l
  <2> QED
    BY <1>1, <1>2, <2>1, <2>2
<1>5. CASE StateCas(w)
  <2> DEFINE l == [h[w] EXCEPT !.pc = "get", !.rev = 0, !.tries = @ + 1]
             r == [status |-> h[w].want, version |-> h[w].ver, superseded |-> h[w].sup,
                   rev |-> rec[Upload(w)].rev + 1]
  <2>1. /\ l.pc = "get" /\ l.want = h[w].want
        /\ l.cmd = h[w].cmd /\ l.item = h[w].item /\ l.final = h[w].final
        /\ r.status = h[w].want
    BY <1>3 DEF Local
  <2>2. \/ UNCHANGED rec /\ (Recorded(w) \/ Become(w, l))
        \/ rec' = [rec EXCEPT ![Upload(w)] = r] /\ Recorded(w)
    BY <1>5 DEF StateCas
  <2> HIDE DEF l, r
  <2>3. CASE rec' = [rec EXCEPT ![Upload(w)] = r] /\ Recorded(w)
    <3>1. PICK b \in Uploads : b = Upload(w)
      BY HandlerFacts
    <3>2. rec'[b] = r /\ \A v \in Uploads : v # b => rec'[v] = rec[v]
      BY <2>3, <3>1 DEF IInv, TypeOK
    <3>3. \A u : /\ Excused(u)' <=> Excused(u)
                 /\ Landed(u)' <=> Landed(u)
                 /\ Reclaimed(u)' <=> Reclaimed(u)
      BY <1>0 DEF Excused, Spent, Landed, Reclaimed
    <3>4. Onward
      BY <1>0, <3>3, StorageOnward
    <3>5. BlobInv(b)'
      BY <1>0, <2>1, <3>1, <3>2, <3>3, AnswerSettled DEF ReclaimInv, BlobInv
    <3>6. PICK want : want = h[w].want
      OBVIOUS
    <3>7. Goes(w, "settle", want)
      BY <2>3, <3>6, RecordedGoes
    <3>8. Holds(b, "settle", want)'
      <4>1. Settled(b)'
        BY <1>0, <3>1, <3>3, AnswerSettled DEF Settled
      <4> QED
        BY <4>1 DEF Holds
    <3>9. Frame(w)
      BY <1>0, <3>1, <3>2, <3>3, <3>4, <3>7 DEF Frame, Goes
    <3> QED
      BY <1>0, <3>1, <3>5, <3>7, <3>8, <3>9, HandlerGoes
  <2> QED
    BY <1>1, <1>2, <2>1, <2>2, <2>3
<1>6. CASE StateFails(w)
  BY <1>1, <1>6 DEF StateFails
<1> QED
  BY <1>4, <1>5, <1>6

\* A handler ends: it answered the item, the answer was lost, or it died.
LEMMA LeaveReclaim ==
  ASSUME IInv, ReclaimInv, NEW w \in Workers, ~At(w, "idle"), Become(w, Idle),
         UNCHANGED <<rec, mp, obj, orphaned, log, lapses>>,
         Len(queue') = Len(queue),
         \A i \in 1..Len(queue) : queue'[i].cmd = queue[i].cmd /\ queue'[i].n = queue[i].n,
         \A i \in 1..Len(queue) : i # h[w].item => queue'[i] = queue[i],
         queue'[h[w].item].st = "gone" =>
           queue[h[w].item].st = "gone" \/ (h[w].pc = "settle" /\ h[w].want # "retry")
  PROVE  ReclaimInv'
<1>0. PICK b \in Uploads : b = Upload(w)
  BY HandlerFacts
<1>1. PICK j \in 1..Len(queue) : j = h[w].item
  BY HandlerFacts
<1>2. h'[w] = Idle /\ (\A o \in Procs : o # w => h'[o] = h[o]) /\ Idle.pc = "idle"
  <2>1. h \in [Procs -> Local] /\ w \in Procs
    BY HandlerFacts DEF IInv, TypeOK
  <2>2. Idle.pc = "idle"
    BY DEF Idle
  <2> QED
    BY <2>1, <2>2 DEF Become
<1>3. \A u : (Landed(u)' <=> Landed(u)) /\ (Reclaimed(u)' <=> Reclaimed(u))
  BY DEF Landed, Reclaimed
<1>4. Onward
  <2>1. lapses \in Nat /\ Len(queue) \in Nat
    BY SMTT(30), TypeFacts DEF IInv, TypeOK
  <2>2. lapses' >= lapses /\ Len(queue') >= Len(queue)
    BY SMT, <2>1
  <2>3. \A i \in 1..Len(queue) : Spent(i) => Spent(i)'
    BY DEF Spent
  <2> QED
    BY <1>3, <2>1, <2>2, <2>3 DEF Onward
<1>5. Frame(w)
  BY <1>2, <1>3, <1>4 DEF Frame
<1>6. BlobInv(b)'
  <2>1. (\E i \in 1..Len(queue) : queue[i].cmd.u = b) =>
          \E i \in 1..Len(queue') : queue'[i].cmd.u = b
    OBVIOUS
  <2>2. Excused(b) => Excused(b)'
    BY <1>4, OnwardFacts
  <2> QED
    BY <1>3, <2>1, <2>2 DEF ReclaimInv, BlobInv
<1>7. ItemInv(j)'
  <2>1. queue[j].cmd.u = b
    BY <1>0, <1>1 DEF ReclaimInv, HandlerInv, Upload
  <2>2. h[w].pc = "settle" /\ h[w].want # "retry" => Settled(b)
    BY <1>0 DEF ReclaimInv, HandlerInv, Holds
  <2>3. queue[j].st = "gone" => Settled(b)
    BY <2>1 DEF ReclaimInv, ItemInv
  <2>4. Settled(b) => Settled(b)'
    BY <1>3 DEF Settled
  <2> QED
    BY <1>1, <2>1, <2>2, <2>3, <2>4 DEF ItemInv
<1>8. HandlerInv(w)'
  BY <1>2 DEF HandlerInv, At
<1> QED
  BY <1>0, <1>1, <1>5, <1>6, <1>7, <1>8, HandlerStep

\* The item is acked or nacked, or the handler dies.
LEMMA SettleReclaim ==
  ASSUME IInv, ReclaimInv, NEW w \in Workers, Settle(w) \/ Crash(w)
  PROVE  ReclaimInv'
<1>0. /\ ~At(w, "idle") /\ Become(w, Idle)
      /\ UNCHANGED <<rec, mp, obj, orphaned, log, lapses>>
  BY DEF Settle, Crash, At, blobVars, logVars, workVars, budget, Spend
<1>1. CASE UNCHANGED queue
  BY <1>0, <1>1, LeaveReclaim
<1>2. ASSUME NEW st, At(w, "settle"), queue' = [queue EXCEPT ![h[w].item].st = st],
             st = "gone" => queue[h[w].item].st = "gone" \/ h[w].want # "retry"
      PROVE  ReclaimInv'
  <2>1. PICK j \in 1..Len(queue) : j = h[w].item
    BY <1>0, HandlerFacts
  <2>2. queue \in Seq(Item) /\ queue' = [queue EXCEPT ![j].st = st]
    BY <1>2, <2>1 DEF IInv, TypeOK
  <2>3. /\ Len(queue') = Len(queue) /\ queue'[j] = [queue[j] EXCEPT !.st = st]
        /\ \A i \in 1..Len(queue) : i # j => queue'[i] = queue[i]
    BY SMT, <2>2
  <2>4. queue[j] \in Item
    BY TypeFacts DEF IInv
  <2>5. queue'[j].st = st /\ queue'[j].cmd = queue[j].cmd /\ queue'[j].n = queue[j].n
    BY <2>3, <2>4 DEF Item
  <2> QED
    BY <1>0, <1>2, <2>1, <2>3, <2>5, LeaveReclaim DEF At
<1>3. CASE Settle(w)
  <2> DEFINE st == IF h[w].want = "retry" /\ queue[h[w].item].st # "gone" THEN "ready" ELSE "gone"
  <2>1. st = "gone" => queue[h[w].item].st = "gone" \/ h[w].want # "retry"
    OBVIOUS
  <2>2. UNCHANGED queue \/ queue' = [queue EXCEPT ![h[w].item].st = st]
    BY <1>3 DEF Settle
  <2>3. At(w, "settle")
    BY <1>3 DEF Settle
  <2> HIDE DEF st
  <2> QED
    BY <1>1, <1>2, <2>1, <2>2, <2>3
<1>4. CASE Crash(w)
  BY <1>1, <1>4 DEF Crash, workVars
<1> QED
  BY <1>3, <1>4

\* A handler pulls an item that no live handler holds, unless it is excused.
LEMMA DeliverReclaim ==
  ASSUME IInv, ReclaimInv, NEW w \in Workers, Deliver(w)
  PROVE  ReclaimInv'
<1>0. /\ At(w, "idle") /\ UNCHANGED <<rec, mp, obj, orphaned, log, lapses>>
      /\ w \in Procs /\ w \notin Requests
  BY HandlerFacts DEF Deliver, blobVars, logVars, budget
<1>1. PICK j \in 1..Len(queue) :
        /\ queue[j].st = "ready"
        /\ queue' = [queue EXCEPT ![j].st = "out", ![j].n = @ + 1]
        /\ Become(w, [Idle EXCEPT !.pc = "load", !.cmd = queue[j].cmd, !.item = j,
                         !.final = (queue[j].n + 1 >= MaxDeliver)])
  <2>1. DOMAIN queue = 1..Len(queue)
    BY TypeFacts DEF IInv
  <2> QED
    BY <2>1 DEF Deliver
<1>2. queue[j] \in Item /\ Len(queue) \in Nat
  BY TypeFacts DEF IInv
<1>3. /\ Len(queue') = Len(queue)
      /\ \A i \in 1..Len(queue) : i # j => queue'[i] = queue[i]
      /\ queue'[j].st = "out" /\ queue'[j].cmd = queue[j].cmd
      /\ queue'[j].n = queue[j].n + 1
  <2>1. queue \in Seq(Item)
    BY DEF IInv, TypeOK
  <2>2. Len(queue') = Len(queue) /\ \A i \in 1..Len(queue) : i # j => queue'[i] = queue[i]
    BY SMT, <1>1, <2>1
  <2>3. queue'[j].st = "out" /\ queue'[j].cmd = queue[j].cmd /\ queue'[j].n = queue[j].n + 1
    BY SMT, <1>1, <1>2, <2>1 DEF Item
  <2> QED
    BY <2>2, <2>3
<1>4. /\ \A o \in Procs : o # w => h'[o] = h[o]
      /\ h'[w].pc = "load" /\ h'[w].cmd = queue[j].cmd /\ h'[w].item = j
      /\ h'[w].final <=> queue'[j].n >= MaxDeliver
  <2> DEFINE l == [Idle EXCEPT !.pc = "load", !.cmd = queue[j].cmd, !.item = j,
                         !.final = (queue[j].n + 1 >= MaxDeliver)]
  <2>1. /\ l.pc = "load" /\ l.cmd = queue[j].cmd /\ l.item = j
        /\ l.final <=> queue'[j].n >= MaxDeliver
    BY <1>3 DEF Idle
  <2>2. Become(w, l)
    BY <1>1
  <2> HIDE DEF l
  <2>3. h'[w] = l /\ \A o \in Procs : o # w => h'[o] = h[o]
    BY <1>0, <2>2 DEF Become, IInv, TypeOK
  <2> QED
    BY <2>1, <2>3
<1>5. \A u : (Landed(u)' <=> Landed(u)) /\ (Reclaimed(u)' <=> Reclaimed(u))
  BY <1>0 DEF Landed, Reclaimed
<1>6. Onward
  <2>1. lapses \in Nat /\ lapses' >= lapses /\ Len(queue') >= Len(queue)
    BY SMT, <1>0, <1>2, <1>3 DEF IInv, TypeOK
  <2>2. Spent(j) => Spent(j)'
    BY SMT, <1>2, <1>3, BoundsAssumption DEF Spent, Item
  <2>3. \A i \in 1..Len(queue) : queue'[i].cmd = queue[i].cmd /\ (Spent(i) => Spent(i)')
    BY <1>3, <2>2 DEF Spent
  <2> QED
    BY <1>0, <1>2, <1>3, <1>5, <2>1, <2>3 DEF Onward
<1>7. ASSUME NEW u \in Uploads PROVE BlobInv(u)'
  <2>1. (\E i \in 1..Len(queue) : queue[i].cmd.u = u) =>
          \E i \in 1..Len(queue') : queue'[i].cmd.u = u
    BY <1>3
  <2>2. Excused(u) => Excused(u)'
    BY <1>6, OnwardFacts
  <2> QED
    BY <1>0, <1>5, <2>1, <2>2 DEF ReclaimInv, BlobInv
<1>8. ASSUME NEW i \in 1..Len(queue') PROVE ItemInv(i)'
  <2>1. CASE i = j
    BY <1>3, <2>1 DEF ItemInv
  <2>2. CASE i # j
    BY <1>3, <1>5, <2>2 DEF ReclaimInv, ItemInv, Settled
  <2> QED
    BY <2>1, <2>2
<1>9. ASSUME NEW o \in Workers, o # w, ~At(o, "idle")
      PROVE  /\ HandlerInv(o)'
             /\ queue[j].cmd.u = Upload(o) => Excused(Upload(o))
  <2>1. h'[o] = h[o] /\ h[o].item \in 1..Len(queue) /\ HandlerInv(o)
    BY <1>4, <1>9, HandlerFacts DEF ReclaimInv
  <2>2. PICK u \in Uploads : u = Upload(o)
    BY HandlerFacts
  <2>3. /\ queue[h[o].item].cmd = h[o].cmd
        /\ h[o].final => Spent(h[o].item)
        /\ Excused(u) \/ queue[h[o].item].st = "out"
        /\ Holds(u, h[o].pc, h[o].want)
    BY <1>9, <2>1, <2>2 DEF HandlerInv
  <2>4. Excused(u) => Excused(u)'
    BY <1>6, OnwardFacts
  <2>5. h[o].item = j => Excused(u)
    BY <1>1, <2>3
  <2>6. h[o].item # j => queue'[h[o].item] = queue[h[o].item]
    BY <1>3, <2>1
  <2>7. \A pc, want : Holds(u, pc, want) => Holds(u, pc, want)'
    BY <1>0, <1>5, <2>4 DEF Holds, Settled
  <2>8. Upload(o)' = u
    BY <2>1, <2>2 DEF Upload
  <2>9. HandlerInv(o)'
    <3>1. queue'[h[o].item].cmd = h[o].cmd /\ (h[o].final => Spent(h[o].item)')
      BY <1>6, <2>1, <2>3 DEF Onward
    <3>2. Excused(u)' \/ queue'[h[o].item].st = "out"
      BY <2>3, <2>4, <2>5, <2>6
    <3>3. PICK pc, want : pc = h[o].pc /\ want = h[o].want
      OBVIOUS
    <3>4. Holds(u, pc, want)'
      BY <2>3, <2>7, <3>3
    <3> QED
      BY <2>1, <2>8, <3>1, <3>2, <3>3, <3>4 DEF HandlerInv
  <2>10. queue[j].cmd.u = Upload(o) => Excused(Upload(o))
    <3>1. queue[h[o].item].cmd.u = u
      BY <2>2, <2>3 DEF Upload
    <3> QED
      BY <2>1, <2>2, <2>5, <3>1 DEF Excused
  <2> QED
    BY <2>1, <2>9, <2>10
<1>10. HandlerInv(w)'
  <2>1. PICK u \in Uploads : u = queue[j].cmd.u
    BY <1>2 DEF Item, Command
  <2>2. Upload(w)' = u
    BY <1>4, <2>1 DEF Upload
  <2>3. PICK want : want = h'[w].want
    OBVIOUS
  <2>4. Holds(u, "load", want)'
    BY DEF Holds
  <2> QED
    BY <1>3, <1>4, <2>2, <2>3, <2>4 DEF HandlerInv, Spent
<1>11. ASSUME NEW o \in Workers, ~At(o, "idle")' PROVE HandlerInv(o)'
  <2>1. CASE o = w
    BY <1>10, <2>1
  <2>2. CASE o # w
    BY <1>4, <1>9, <1>11, <2>2, HandlerFacts DEF At
  <2> QED
    BY <2>1, <2>2
<1>12. ASSUME NEW o \in Workers, ~At(o, "idle")', NEW v \in Workers, v # w, o # v,
              ~At(v, "idle")', Upload(o)' = Upload(v)'
       PROVE  Excused(Upload(v))'
  <2>1. h'[v] = h[v] /\ ~At(v, "idle")
    BY <1>4, <1>12, HandlerFacts DEF At
  <2>2. PICK u \in Uploads : u = Upload(v)
    BY HandlerFacts
  <2>4. Excused(u)
    <3>1. CASE o = w
      BY <1>4, <1>9, <1>12, <2>1, <2>2, <3>1 DEF Upload
    <3>2. CASE o # w
      <4>1. h'[o] = h[o]
        BY <1>4, <3>2, HandlerFacts
      <4> QED
        BY <1>12, <2>1, <2>2, <4>1 DEF ReclaimInv, At, Upload
    <3> QED
      BY <3>1, <3>2
  <2>5. Excused(u)'
    BY <1>6, <2>4, OnwardFacts
  <2> QED
    BY <2>1, <2>2, <2>5 DEF Upload
<1>13. ASSUME NEW o \in Workers, NEW v \in Workers, o # v, ~At(o, "idle")',
              ~At(v, "idle")', Upload(o)' = Upload(v)'
       PROVE  Excused(Upload(o))'
  <2>1. PICK u : u = Upload(o)'
    OBVIOUS
  <2>2. Excused(u)'
    BY <1>12, <1>13, <2>1
  <2> QED
    BY <2>1, <2>2
<1>14. \A q \in Requests : h'[q].pc \in {"get", "cas"} => h'[q].want = "scanning"
  BY <1>0, <1>4 DEF ReclaimInv, Procs
<1> QED
  BY <1>7, <1>8, <1>11, <1>13, <1>14 DEF ReclaimInv, HandlerInv

-----------------------------------------------------------------------------
(***************************************************************************)
(* The steps around the handlers                                           *)
(***************************************************************************)

\* No handler moves, no bytes and no event appear or go, nothing is rejected,
\* and an item that becomes ready again has no live handler or is excused.
LEMMA AroundStep ==
  ASSUME IInv, ReclaimInv, Onward,
         \A w \in Workers : h'[w] = h[w],
         \A u \in Uploads : /\ obj'[u] = obj[u]
                            /\ Landed(u)' => Landed(u)
                            /\ rec'[u].status = "rejected" => rec[u].status = "rejected",
         \A i \in 1..Len(queue') :
           \/ i \in 1..Len(queue) /\ queue'[i].st = queue[i].st
           \/ /\ queue'[i].st # "gone"
              /\ \A w \in Workers : ~At(w, "idle") /\ h[w].item = i => lapses' > 0,
         \A q \in Requests : h'[q].pc \in {"get", "cas"} => h'[q].want = "scanning"
  PROVE  ReclaimInv'
<1>0. 1..Len(queue) \subseteq 1..Len(queue')
  BY SMT DEF Onward
<1>1. ASSUME NEW u \in Uploads PROVE BlobInv(u)'
  <2>1. (\E i \in 1..Len(queue) : queue[i].cmd.u = u) =>
          \E i \in 1..Len(queue') : queue'[i].cmd.u = u
    BY <1>0 DEF Onward
  <2>2. (Excused(u) => Excused(u)') /\ (Reclaimed(u) => Reclaimed(u)')
    BY OnwardFacts
  <2>3. BlobInv(u)
    BY DEF ReclaimInv
  <2>4. mp[u] = "gone" => mp'[u] = "gone"
    BY DEF Onward
  <2>5. /\ (rec[u].status = "rejected" => Reclaimed(u))'
        /\ (Landed(u) => Excused(u) \/ obj[u] = "good")'
    BY <2>2, <2>3 DEF BlobInv
  <2>6. obj'[u] # "absent" => mp'[u] = "gone" /\ \E i \in 1..Len(queue') : queue'[i].cmd.u = u
    BY <2>1, <2>3, <2>4 DEF BlobInv
  <2> QED
    BY <2>5, <2>6 DEF BlobInv
<1>2. ASSUME NEW i \in 1..Len(queue') PROVE ItemInv(i)'
  <2>1. CASE queue'[i].st # "gone"
    BY <2>1 DEF ItemInv
  <2>2. CASE i \in 1..Len(queue) /\ queue'[i].st = queue[i].st
    <3>1. PICK u \in Uploads : u = queue[i].cmd.u
      <4>1. queue[i] \in Item
        BY <2>2, TypeFacts DEF IInv
      <4> QED
        BY <4>1 DEF Item, Command
    <3>2. queue'[i].cmd.u = u
      BY <2>2, <3>1 DEF Onward
    <3>3. Settled(u) => Settled(u)'
      BY OnwardFacts
    <3> QED
      BY <2>2, <3>1, <3>2, <3>3 DEF ReclaimInv, ItemInv
  <2> QED
    BY <2>1, <2>2
<1>3. ASSUME NEW o \in Workers PROVE HandlerInv(o)'
  <2>0. PICK u \in Uploads : u = Upload(o) /\ u = Upload(o)'
    BY HandlerFacts DEF Upload
  <2> SUFFICES ASSUME ~At(o, "idle")
               PROVE  /\ queue'[h[o].item].cmd = h[o].cmd
                      /\ h[o].final => Spent(h[o].item)'
                      /\ Excused(u)' \/ queue'[h[o].item].st = "out"
                      /\ Holds(u, h[o].pc, h[o].want)'
    BY <2>0 DEF HandlerInv, At
  <2>1. /\ queue[h[o].item].cmd = h[o].cmd
        /\ h[o].final => Spent(h[o].item)
        /\ Excused(u) \/ queue[h[o].item].st = "out"
        /\ Holds(u, h[o].pc, h[o].want)
        /\ h[o].item \in 1..Len(queue)
    BY <2>0, HandlerFacts DEF ReclaimInv, HandlerInv
  <2>2. lapses' > 0 => Excused(u)'
    BY DEF Excused
  <2>3. /\ Excused(u) => Excused(u)'
        /\ Reclaimed(u) => Reclaimed(u)'
        /\ Settled(u) => Settled(u)'
        /\ (u \in orphaned \/ mp[u] = "gone") => (u \in orphaned' \/ mp'[u] = "gone")
    BY OnwardFacts
  <2>4. Excused(u)' \/ queue'[h[o].item].st = "out"
    BY <1>0, <2>1, <2>2, <2>3
  <2>5. queue'[h[o].item].cmd = h[o].cmd /\ (h[o].final => Spent(h[o].item)')
    BY <2>1 DEF Onward
  <2>6. Holds(u, h[o].pc, h[o].want)'
    BY <2>1, <2>3 DEF Holds
  <2> QED
    BY <2>4, <2>5, <2>6
<1>4. ASSUME NEW o \in Workers, NEW v \in Workers, o # v, ~At(o, "idle")', ~At(v, "idle")',
             Upload(o)' = Upload(v)'
      PROVE  Excused(Upload(o))'
  <2>1. PICK u \in Uploads : u = Upload(o) /\ u = Upload(o)'
    BY HandlerFacts DEF Upload
  <2>2. Excused(u)
    BY <1>4, <2>1 DEF ReclaimInv, At, Upload
  <2>3. Excused(u)'
    BY <2>2, OnwardFacts
  <2> QED
    BY <2>1, <2>3
<1> QED
  BY <1>1, <1>2, <1>3, <1>4 DEF ReclaimInv

\* Preflight, the parts and the passage of time.
LEMMA StorageReclaim ==
  ASSUME IInv, ReclaimInv, NEW u \in Uploads, Client(u) \/ Passage(u)
  PROVE  ReclaimInv'
<1>0. UNCHANGED <<obj, orphaned, log, queue, h, lapses>>
  BY DEF Client, Passage, Preflight, PreflightUnwound, PutParts, Expire, ReapMultipart,
               ForgetCommand, ForgetEvent, blobVars, logVars, workVars, budget, Spend
<1>1. \/ mp' = mp
      \/ mp[u] # "gone" /\ \E left \in {"open", "gone"} : mp' = [mp EXCEPT ![u] = left]
  BY DEF Client, Passage, Preflight, PreflightUnwound, PutParts, Expire, ReapMultipart,
               ForgetCommand, ForgetEvent, blobVars
<1>2. \A v \in Uploads : mp[v] = "gone" => mp'[v] = "gone"
  BY <1>1 DEF IInv, TypeOK
<1>3. \/ rec' = rec
      \/ rec' = [rec EXCEPT ![u] = NoRecord]
      \/ rec' = [rec EXCEPT ![u] = [NoRecord EXCEPT !.status = "uploading", !.rev = 1]]
  BY DEF Client, Passage, Preflight, PreflightUnwound, PutParts, Expire, ReapMultipart,
               ForgetCommand, ForgetEvent
<1>4. /\ NoRecord.status # "rejected"
      /\ [NoRecord EXCEPT !.status = "uploading", !.rev = 1].status # "rejected"
  BY DEF NoRecord
<1>5. \A v \in Uploads : rec'[v].status = "rejected" => rec[v].status = "rejected"
  BY <1>3, <1>4 DEF IInv, TypeOK
<1>6. \A v : Landed(v)' <=> Landed(v)
  BY <1>0 DEF Landed
<1>7. Onward
  BY <1>0, <1>2, <1>6, StorageOnward
<1> QED
  BY <1>0, <1>5, <1>6, <1>7, AroundStep DEF ReclaimInv

\* The requests: they publish items, and write scanning at most.
LEMMA RequestReclaim ==
  ASSUME IInv, ReclaimInv, NEW q \in Requests, Request(q)
  PROVE  ReclaimInv'
<1>0. /\ UNCHANGED <<mp, obj, orphaned, log, lapses>>
      /\ q \in Procs /\ q \notin Workers /\ h[q] \in Local
  <2>1. q \in Procs /\ q \notin Workers
    BY ProcsAssumption DEF Procs
  <2>2. UNCHANGED <<mp, obj, orphaned, log, lapses>>
    BY DEF Request, Complete, Publish, RequestFails, StateGet, StateCas, blobVars,
                 logVars, budget, Spend
  <2> QED
    BY <2>1, <2>2, TypeFacts DEF IInv
<1>1. \/ queue' = queue
      \/ \E cmd : queue' = Append(queue, [cmd |-> cmd, n |-> 0, st |-> "ready"])
  BY DEF Request, Complete, Publish, RequestFails, StateGet, StateCas, Enqueue, workVars
<1> DEFINE Grows ==
             /\ Len(queue) \in Nat /\ Len(queue') \in Nat /\ Len(queue') >= Len(queue)
             /\ \A i \in 1..Len(queue) : queue'[i] = queue[i]
             /\ \A i \in 1..Len(queue') : i \in 1..Len(queue) \/ queue'[i].st = "ready"
<1>2. Grows
  <2>1. queue \in Seq(Item) /\ Len(queue) \in Nat
    BY TypeFacts DEF IInv, TypeOK
  <2>2. CASE queue' = queue
    BY SMT, <2>1, <2>2
  <2>3. ASSUME NEW cmd, queue' = Append(queue, [cmd |-> cmd, n |-> 0, st |-> "ready"])
        PROVE  Grows
    <3> DEFINE it == [cmd |-> cmd, n |-> 0, st |-> "ready"]
    <3>1. it.st = "ready" /\ queue' = Append(queue, it)
      BY <2>3
    <3> HIDE DEF it
    <3> QED
      BY SMT, <2>1, <3>1
  <2> HIDE DEF Grows
  <2> QED
    BY <1>1, <2>2, <2>3
<1>3. \A v : Landed(v)' <=> Landed(v)
  BY <1>0 DEF Landed
<1>4. Onward
  <2>1. lapses \in Nat /\ lapses' >= lapses
    BY SMT, <1>0 DEF IInv, TypeOK
  <2>2. \A i \in 1..Len(queue) : queue'[i].cmd = queue[i].cmd /\ (Spent(i) => Spent(i)')
    BY <1>2 DEF Spent
  <2> QED
    BY <1>0, <1>2, <1>3, <2>1, <2>2 DEF Onward
<1>5. \A i \in 1..Len(queue') :
        \/ i \in 1..Len(queue) /\ queue'[i].st = queue[i].st
        \/ /\ queue'[i].st # "gone"
           /\ \A w \in Workers : ~At(w, "idle") /\ h[w].item = i => lapses' > 0
  BY <1>2, HandlerFacts
<1>6. Idle.want = "scanning"
  BY DEF Idle
<1> DEFINE Quiet(l) == l.pc \in {"get", "cas"} => l.want = "scanning"
           Filed(c) == [Idle EXCEPT !.pc = "publish", !.cmd = c]
           Over == [Idle EXCEPT !.pc = "done"]
           Posted == [h[q] EXCEPT !.pc = "get"]
           Swap == [h[q] EXCEPT !.pc = "cas", !.rev = rec[Upload(q)].rev]
           Again == [h[q] EXCEPT !.pc = "get", !.rev = 0, !.tries = @ + 1]
           r == [status |-> h[q].want, version |-> h[q].ver, superseded |-> h[q].sup,
                 rev |-> rec[Upload(q)].rev + 1]
<1>7. /\ \A c : Quiet(Filed(c))
      /\ Quiet(Over)
      /\ h[q].want = "scanning" => Quiet(Posted) /\ Quiet(Swap) /\ Quiet(Again)
      /\ r.status = h[q].want
  BY <1>0 DEF Idle, Local
<1>8. /\ h[q].pc \in {"get", "cas"} => h[q].want = "scanning"
      /\ h[q].pc = "publish" => h[q].want = "scanning"
  BY <1>0 DEF ReclaimInv, IInv, ProcInv, PcInv
<1>9. /\ Complete(q) => \E c : Become(q, Filed(c))
      /\ Publish(q) => h[q].pc = "publish" /\ Become(q, Posted)
      /\ RequestFails(q) => Become(q, Over)
      /\ StateGet(q) => h[q].pc = "get" /\ (Become(q, Over) \/ Become(q, Swap))
      /\ StateCas(q) => h[q].pc = "cas" /\ (Become(q, Over) \/ Become(q, Again))
  BY <1>0 DEF Complete, Publish, RequestFails, StateGet, StateCas, Recorded, Goto, At
<1>10. \/ rec' = rec
       \/ h[q].pc = "cas" /\ rec' = [rec EXCEPT ![Upload(q)] = r]
  BY DEF Request, Complete, Publish, RequestFails, StateGet, StateCas, At
<1> HIDE DEF Filed, Over, Posted, Swap, Again, r, Quiet
<1>11. \E l : Become(q, l) /\ Quiet(l)
  BY <1>7, <1>8, <1>9 DEF Request
<1>12. /\ \A w \in Workers : h'[w] = h[w]
       /\ \A p \in Requests : h'[p].pc \in {"get", "cas"} => h'[p].want = "scanning"
  <2>1. h \in [Procs -> Local] /\ Workers \subseteq Procs /\ Requests \subseteq Procs
    BY DEF IInv, TypeOK, Procs
  <2>2. PICK l : Become(q, l) /\ Quiet(l)
    BY <1>11
  <2>3. h'[q] = l /\ \A p \in Procs : p # q => h'[p] = h[p]
    BY <1>0, <2>1, <2>2 DEF Become
  <2> QED
    BY <1>0, <2>1, <2>2, <2>3 DEF ReclaimInv, Quiet
<1>13. \A u \in Uploads : rec'[u].status = "rejected" => rec[u].status = "rejected"
  BY <1>7, <1>8, <1>10 DEF IInv, TypeOK
<1> QED
  BY <1>0, <1>3, <1>4, <1>5, <1>12, <1>13, AroundStep

\* The ack wait of an item ends while its handler is dead, or counts as a lapse.
LEMMA AckWaitReclaim ==
  ASSUME IInv, ReclaimInv, NEW j \in 1..Len(queue), AckWait(j)
  PROVE  ReclaimInv'
<1>0. UNCHANGED <<rec, mp, obj, orphaned, log, h>>
  BY DEF AckWait, blobVars, logVars
<1>1. /\ lapses \in Nat /\ lapses' \in Nat /\ lapses' >= lapses
      /\ \A w \in Workers : ~At(w, "idle") /\ h[w].item = j => lapses' > 0
  BY SMT DEF AckWait, IInv, TypeOK
<1>2. /\ Len(queue') = Len(queue) /\ Len(queue) \in Nat
      /\ \A i \in 1..Len(queue) : i # j => queue'[i] = queue[i]
      /\ queue'[j].st = "ready" /\ queue'[j].cmd = queue[j].cmd /\ queue'[j].n = queue[j].n
  <2>1. queue \in Seq(Item) /\ queue' = [queue EXCEPT ![j].st = "ready"]
    BY DEF IInv, TypeOK, AckWait
  <2>2. queue[j] \in Item /\ Len(queue) \in Nat
    BY TypeFacts DEF IInv
  <2>3. /\ Len(queue') = Len(queue) /\ queue'[j] = [queue[j] EXCEPT !.st = "ready"]
        /\ \A i \in 1..Len(queue) : i # j => queue'[i] = queue[i]
    BY SMT, <2>1
  <2>4. queue'[j].st = "ready" /\ queue'[j].cmd = queue[j].cmd /\ queue'[j].n = queue[j].n
    BY <2>2, <2>3 DEF Item
  <2> QED
    BY <2>2, <2>3, <2>4
<1>3. \A v : Landed(v)' <=> Landed(v)
  BY <1>0 DEF Landed
<1>4. Onward
  <2>1. \A i \in 1..Len(queue) : queue'[i].cmd = queue[i].cmd /\ (Spent(i) => Spent(i)')
    BY <1>2 DEF Spent
  <2>2. Len(queue') >= Len(queue)
    BY SMT, <1>2
  <2> QED
    BY <1>0, <1>1, <1>2, <1>3, <2>1, <2>2 DEF Onward
<1>5. \A i \in 1..Len(queue') :
        \/ i \in 1..Len(queue) /\ queue'[i].st = queue[i].st
        \/ /\ queue'[i].st # "gone"
           /\ \A w \in Workers : ~At(w, "idle") /\ h[w].item = i => lapses' > 0
  BY <1>1, <1>2
<1> QED
  BY <1>0, <1>3, <1>4, <1>5, AroundStep DEF ReclaimInv

-----------------------------------------------------------------------------

\* Initially there are no bytes.
LEMMA ReclaimInit == Init => ReclaimInv
<1> SUFFICES ASSUME Init PROVE ReclaimInv
  OBVIOUS
<1>1. /\ \A u \in Uploads : rec[u] = NoRecord /\ obj[u] = "absent"
      /\ \A p \in Procs : h[p] = Idle
      /\ Len(queue) = 0 /\ Len(log) = 0
  BY DEF Init
<1>2. Idle.pc = "idle" /\ NoRecord.status = "absent"
  BY DEF Idle, NoRecord
<1>3. \A k : k \notin 1..0
  BY SMT
<1> QED
  BY <1>1, <1>2, <1>3 DEF ReclaimInv, BlobInv, Landed, HandlerInv, At, Procs

\* Every step preserves ReclaimInv.
LEMMA ReclaimNext ==
  ASSUME IInv, ReclaimInv, [Next]_vars
  PROVE  ReclaimInv'
<1>1. CASE UNCHANGED vars
  <2>1. Looks /\ h' = h
    BY <1>1 DEF vars, Looks
  <2>2. Onward /\ \A u : Landed(u)' <=> Landed(u)
    BY <2>1, LooksOnward DEF Looks, Landed
  <2> QED
    BY <2>1, <2>2, AroundStep DEF ReclaimInv, Looks
<1>2. ASSUME NEW w \in Workers, Handler(w) PROVE ReclaimInv'
  BY <1>2, LoadStateReclaim, DiscardExpiredReclaim, VerdictReclaim,
     CompleteMultipartReclaim, ReadReclaim, AppendReclaim, AbortReclaim, DeleteReclaim,
     StateReclaim, SettleReclaim, DeliverReclaim
     DEF Handler, Pipeline
<1>3. ASSUME NEW i \in DOMAIN queue, AckWait(i) PROVE ReclaimInv'
  BY <1>3, AckWaitReclaim, TypeFacts DEF IInv
<1> QED
  BY <1>1, <1>2, <1>3, StorageReclaim, RequestReclaim DEF Next
=============================================================================
