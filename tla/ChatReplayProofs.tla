--------------------------- MODULE ChatReplayProofs ---------------------------
(***************************************************************************)
(* That the replay and the live feed of a websocket leave no hole between  *)
(* them and do not overlap (NoSilentGap of ChatReplay), for every number   *)
(* of turns, events, backlogs and faults.                                  *)
(*                                                                         *)
(* The invariant follows an event through the places where it may be       *)
(* between the moment the socket joined the hub and its delivery.  While   *)
(* the handler is at work everything stored since it joined is in the      *)
(* feed.  The index it reads holds two turns in the order of the stream,   *)
(* the earlier one ended, because a turn starts when the end of the one    *)
(* before is in the index: so the range that the plan takes from the       *)
(* current turn reaches over all that the index knows of.  From then on    *)
(* what the loop drops as sent before has in fact been sent.               *)
(***************************************************************************)
EXTENDS ChatReplay, TLAPS

USE ZenonT(30)

------------------------------------------------------------------------------
Turn == [turn : Nat, start : Nat, end : Nat]
Index == [there : BOOLEAN, cur : Turn, prev : Turn]

Event == [turn : Nat, kind : Kinds]
Stages == {"idle", "running", "committed", "ended", "lost"}
Worker == [turn : Nat, stage : Stages, owed : Nat]
Phases == {"idle", "hub", "index", "latest", "plan"}
Socket ==
  [up : BOOLEAN, sub : BOOLEAN, feed : Seq(Nat), sent : Nat, pc : Phases, asks : Seq(Nat),
   ask : Nat, has : SUBSET Nat, idx : Index, latest : Nat]
Client ==
  [last : Nat, page : SUBSET Nat, seen : SUBSET Nat, resync : BOOLEAN, refresh : BOOLEAN,
   error : BOOLEAN]
Promise ==
  [made : BOOLEAN, base : Nat, from : Nat, idx : Index, got : SUBSET Nat,
   passed : SUBSET Nat]

TypeInv ==
  /\ stream \in Seq(Event) /\ low \in Nat \ {0} /\ index \in Index /\ worker \in Worker
  /\ db \in SUBSET Nat /\ sock \in Socket /\ client \in Client /\ promise \in Promise
  /\ troubles \in Nat

\* The turns of an index follow one another in the stream.
Sound(i) ==
  /\ i.cur.turn # 0 => i.cur.start # 0 /\ (i.cur.end # 0 => i.cur.start < i.cur.end)
  /\ i.prev.turn # 0 =>
       i.prev.turn < i.cur.turn /\ i.prev.end # 0 /\ i.prev.end < i.cur.start

Within(i, n) == i.cur.start <= n /\ i.cur.end <= n

\* A turn that is open in the index is the worker's; an event that the index
\* has still to hear of is later than all it holds.
WorkerInv ==
  /\ Sound(index) /\ Within(index, Len(stream))
  /\ index.cur.turn <= worker.turn
  /\ index.cur.turn # 0 /\ index.cur.end = 0 =>
       index.cur.turn = worker.turn /\ worker.stage # "idle"
  /\ worker.stage # "idle" => worker.turn # 0
  /\ worker.owed # 0 =>
       /\ worker.owed \in DOMAIN stream
       /\ stream[worker.owed].turn = worker.turn
       /\ \/ /\ worker.stage = "running" /\ stream[worker.owed].kind = "started"
             /\ index.cur.turn # worker.turn
          \/ worker.stage = "ended" /\ stream[worker.owed].kind = "end"
       /\ Within(index, worker.owed - 1)

FeedInv ==
  /\ \A i \in DOMAIN sock.feed : sock.feed[i] <= Len(stream)
  /\ \A i, j \in DOMAIN sock.feed :
       i < j /\ sock.feed[i] # 0 /\ sock.feed[j] # 0 => sock.feed[i] < sock.feed[j]

Lost == \E i \in DOMAIN sock.feed : sock.feed[i] = 0
InFeed(p) == \E i \in DOMAIN sock.feed : sock.feed[i] \in {0, p}

\* While a subscription is handled, all that was stored since is in the feed.
HandlerInv ==
  /\ sock.pc # "idle" => ~promise.made
  /\ sock.pc \in {"index", "latest", "plan"} =>
       /\ sock.up /\ sock.sub /\ promise.from <= Len(stream)
       /\ \A p \in promise.from + 1..Len(stream) : stream[p].turn # 0 => InFeed(p)
  /\ sock.pc \in {"hub", "index", "latest", "plan"} => sock.up
  /\ sock.pc \in {"latest", "plan"} => Sound(sock.idx) /\ Within(sock.idx, Len(stream))
  /\ sock.pc = "plan" =>
       promise.from <= sock.latest /\ sock.latest <= Len(stream)
       /\ Within(sock.idx, sock.latest)

\* Only an open socket holds a subscription that waits.
AskInv == sock.asks # <<>> => sock.up

Due(p) == stream[p].turn # 0 /\ (p > promise.from \/ Indexed(p))
Sent(p) == p \in promise.got \cup promise.passed

\* What is due is in the feed, or was sent or passed over; up to the last sequence
\* sent, it was.
PromiseInv ==
  promise.made =>
    /\ sock.up /\ sock.sub /\ promise.from <= Len(stream)
    /\ \A p \in promise.base + 1..Len(stream) : Due(p) => Sent(p) \/ InFeed(p)
    /\ \A p \in promise.base + 1..Len(stream) : Due(p) /\ p <= sock.sent => Sent(p) \/ Lost
    /\ \A p \in promise.got : p <= sock.sent
    /\ sock.sent <= Len(stream)

Inv == TypeInv /\ WorkerInv /\ FeedInv /\ HandlerInv /\ AskInv /\ PromiseInv

------------------------------------------------------------------------------
(***************************************************************************)
(* Operators                                                               *)
(***************************************************************************)
\* The verdicts of build_replay_plan.
LEMMA PlanCases ==
  ASSUME NEW ask \in Nat, NEW i, NEW has, NEW latest
  PROVE  \/ Plan(ask, i, has, latest) = Resync
         \/ ask = 0 /\ Plan(ask, i, has, latest) = Nothing(0)
         \/ /\ ask # 0 /\ ask >= EndOf(i.cur, latest)
            /\ Plan(ask, i, has, latest) = Nothing(ask)
         \/ /\ ask = 0 /\ i.cur.turn # 0
            /\ Plan(ask, i, has, latest) = Range(i.cur.start, i.cur, latest, 0, i.cur.start)
         \/ /\ ask # 0
            /\ Plan(ask, i, has, latest) = Range(ask + 1, i.cur, latest, ask, 0)
BY DEF Plan

------------------------------------------------------------------------------
(***************************************************************************)
(* Types                                                                   *)
(***************************************************************************)
LEMMA NoneTypes ==
  NoIndex \in Index /\ Closed \in Socket /\ NoPromise \in Promise
<1>1. NoIndex \in Index
  BY DEF NoIndex, NoTurn, Index, Turn
<1>2. Closed \in Socket
  <2>1. <<>> \in Seq(Nat) /\ {} \in SUBSET Nat /\ "idle" \in Phases
    BY SMT DEF Phases
  <2> QED
    BY <1>1, <2>1 DEF Closed, Socket
<1>3. NoPromise \in Promise
  BY <1>1 DEF NoPromise, Promise
<1> QED
  BY <1>1, <1>2, <1>3

LEMMA SocketFields ==
  ASSUME NEW s \in Socket
  PROVE  /\ s.feed \in Seq(Nat) /\ s.sent \in Nat /\ s.asks \in Seq(Nat) /\ s.ask \in Nat
         /\ s.idx \in Index /\ s.latest \in Nat
BY DEF Socket

LEMMA EventType ==
  ASSUME TypeInv, NEW p \in 1..Len(stream)
  PROVE  stream[p].turn \in Nat /\ p \in Nat
<1>1. stream[p] \in Event
  BY SMT DEF TypeInv
<1> QED
  BY SMT, <1>1 DEF Event

LEMMA ApplyType ==
  ASSUME TypeInv, NEW p \in 1..Len(stream)
  PROVE  ApplyReplayEvent(index, p) \in Index
<1>1. stream[p].turn \in Nat /\ p \in Nat /\ index \in Index
  BY EventType DEF TypeInv
<1> QED
  BY <1>1 DEF Index, Turn, ApplyReplayEvent

LEMMA ShownType ==
  ASSUME TypeInv, NEW S \in SUBSET (1..Len(stream))
  PROVE  Shown(S) \in SUBSET Nat
BY EventType DEF Shown

LEMMA AppliedType ==
  ASSUME TypeInv, NEW p \in 1..Len(stream)
  PROVE  Applied(client, p) \in Client /\ Applied(client, p).last = p
<1>1. Shown({p}) \in SUBSET Nat /\ client \in Client /\ p \in Nat
  BY SMT, ShownType DEF TypeInv
<1> QED
  BY <1>1 DEF Applied, Client

LEMMA ForgetType ==
  ASSUME client \in Client
  PROVE  Forget(client) \in Client /\ Forget(client).last = 0
BY DEF Forget, Client

LEMMA PublishType ==
  ASSUME TypeInv, NEW t \in Nat, NEW kind \in Kinds, Publish(t, kind)
  PROVE  /\ stream' \in Seq(Event) /\ sock' \in Socket
         /\ Len(stream') = Len(stream) + 1 /\ Len(stream) \in Nat
<1>1. [turn |-> t, kind |-> kind] \in Event
  BY DEF Event
<1>2. stream' \in Seq(Event) /\ Len(stream') = Len(stream) + 1 /\ Len(stream) \in Nat
  BY SMT, <1>1 DEF TypeInv, Publish
<1>3. sock' \in Socket
  <2>1. Append(sock.feed, Len(stream) + 1) \in Seq(Nat)
    BY SMT, <1>2, SocketFields DEF TypeInv
  <2> QED
    BY <2>1 DEF TypeInv, Publish, Socket
<1> QED
  BY <1>2, <1>3

LEMMA HandledType ==
  ASSUME sock \in Socket
  PROVE  /\ Handled \in Socket
         /\ Handled.up = sock.up /\ Handled.sub = sock.sub /\ Handled.feed = sock.feed
         /\ Handled.pc = "idle"
BY NoneTypes DEF Handled, Socket, Phases

ThePlan == Plan(sock.ask, sock.idx, sock.has, sock.latest)

\* What the plan of a subscription asks for.
LEMMA PlanFacts ==
  ASSUME TypeInv, NEW e, e = EndOf(sock.idx.cur, sock.latest)
  PROVE  \/ ThePlan.verdict = "resync"
         \/ /\ ThePlan.verdict = "nothing" /\ ThePlan.first = 1 /\ ThePlan.end = 0
            /\ ThePlan.last = sock.ask /\ (sock.ask = 0 \/ sock.ask >= e)
         \/ /\ ThePlan.verdict = "replay" /\ ThePlan.first = sock.ask + 1 /\ ThePlan.end = e
            /\ ThePlan.last = sock.ask /\ sock.ask # 0
         \/ /\ ThePlan.verdict = "replay" /\ ThePlan.first = sock.idx.cur.start
            /\ ThePlan.end = e /\ ThePlan.last = 0 /\ sock.ask = 0
            /\ sock.idx.cur.turn # 0 /\ ThePlan.needFirst = sock.idx.cur.start
<1>1. sock.ask \in Nat
  BY SocketFields DEF TypeInv
<1>2. /\ \A x : /\ Nothing(x).verdict = "nothing" /\ Nothing(x).first = 1
                /\ Nothing(x).end = 0 /\ Nothing(x).last = x
      /\ Resync.verdict = "resync"
  BY DEF Nothing, Resync
<1>3. \A f, l, n :
        /\ Range(f, sock.idx.cur, sock.latest, l, n).verdict = "replay"
        /\ Range(f, sock.idx.cur, sock.latest, l, n).first = f
        /\ Range(f, sock.idx.cur, sock.latest, l, n).end = e
        /\ Range(f, sock.idx.cur, sock.latest, l, n).last = l
        /\ Range(f, sock.idx.cur, sock.latest, l, n).needFirst = n
  BY DEF Range
<1>4. \/ ThePlan = Resync
      \/ sock.ask = 0 /\ ThePlan = Nothing(0)
      \/ sock.ask # 0 /\ sock.ask >= e /\ ThePlan = Nothing(sock.ask)
      \/ /\ sock.ask = 0 /\ sock.idx.cur.turn # 0
         /\ ThePlan = Range(sock.idx.cur.start, sock.idx.cur, sock.latest, 0,
                            sock.idx.cur.start)
      \/ /\ sock.ask # 0
         /\ ThePlan = Range(sock.ask + 1, sock.idx.cur, sock.latest, sock.ask, 0)
  BY <1>1, PlanCases DEF ThePlan
<1> QED
  BY SMT, <1>2, <1>3, <1>4

\* A client that is not told to resync has named an event of the stream.
LEMMA AskBound ==
  ASSUME TypeInv, HandlerInv, sock.pc = "plan", sock.ask # 0, ThePlan.verdict # "resync"
  PROVE  sock.ask <= sock.latest
<1>1. /\ sock.ask \in Nat /\ sock.latest \in Nat /\ sock.idx \in Index
      /\ Sound(sock.idx) /\ Within(sock.idx, sock.latest)
  BY SocketFields DEF TypeInv, HandlerInv
<1>2. Resync.verdict = "resync"
  BY DEF Nothing, Resync
<1>3. \/ Contains(sock.idx.cur, sock.ask, sock.latest)
      \/ Contains(sock.idx.prev, sock.ask, sock.latest)
  BY <1>2 DEF ThePlan, Plan
<1> QED
  BY SMT, <1>1, <1>3 DEF Contains, EndOf, Sound, Within, Index, Turn

\* The answer to a subscription: a resync, or Subscribed and the events S.
Answers(S, passed, newest) ==
  /\ Asked(ThePlan) = S \cup passed
  /\ S \in SUBSET (1..Len(stream)) /\ passed \in SUBSET (1..Len(stream))
  /\ ThePlan.verdict # "resync"
  /\ ThePlan.verdict = "replay" => ({ThePlan.needFirst} \ {0}) \subseteq S
  /\ newest \in Newest(S, ThePlan.last)
  /\ sock' = [Handled EXCEPT !.sent = newest]
  /\ client' = IF S = {} THEN client
               ELSE [Applied(client, newest) EXCEPT
                       !.seen = @ \cup Shown(S),
                       !.refresh = @ \/ \E p \in S : stream[p].kind = "end"]
  /\ promise' = [promise EXCEPT
       !.made = TRUE, !.idx = sock.idx, !.got = S, !.passed = passed,
       !.base = IF sock.ask # 0 THEN sock.ask
                ELSE IF ThePlan.verdict = "replay" THEN ThePlan.first - 1 ELSE sock.latest]

LEMMA ReplayCases ==
  ASSUME TypeInv, Replay
  PROVE  /\ UNCHANGED busVars /\ sock.pc = "plan" /\ troubles' \in Nat
         /\ \/ sock' = Handled /\ client' = Forget(client) /\ promise' = NoPromise
            \/ \E S, passed, newest : Answers(S, passed, newest)
<1>1. UNCHANGED busVars /\ sock.pc = "plan"
  BY DEF Replay
<1>2. PICK unread \in SUBSET Readable(ThePlan) :
        LET S == Readable(ThePlan) \ unread
            resync == ThePlan.verdict = "resync"
                      \/ (ThePlan.verdict = "replay" /\ Incomplete(ThePlan, S))
        IN
        /\ IF unread = {} THEN UNCHANGED troubles ELSE Cardinality(unread) = 1 /\ Spend
        /\ \/ /\ resync
              /\ sock' = Handled
              /\ client' = Forget(client)
              /\ promise' = NoPromise
           \/ /\ ~resync
              /\ \E newest \in Newest(S, ThePlan.last) :
                   /\ sock' = [Handled EXCEPT !.sent = newest]
                   /\ client' = IF S = {} THEN client
                                ELSE [Applied(client, newest) EXCEPT
                                        !.seen = @ \cup Shown(S),
                                        !.refresh = @ \/ \E p \in S : stream[p].kind = "end"]
              /\ promise' = [promise EXCEPT
                   !.made = TRUE, !.idx = sock.idx, !.got = S, !.passed = Asked(ThePlan) \ S,
                   !.base = IF sock.ask # 0 THEN sock.ask
                            ELSE IF ThePlan.verdict = "replay" THEN ThePlan.first - 1
                                 ELSE sock.latest]
  BY DEF Replay, ThePlan
<1> DEFINE S == Readable(ThePlan) \ unread
<1>3. troubles' \in Nat
  <2>1. troubles' = troubles \/ Spend
    BY <1>2
  <2> QED
    BY SMT, <2>1 DEF TypeInv, Spend
<1>4. CASE sock' = Handled /\ client' = Forget(client) /\ promise' = NoPromise
  BY <1>1, <1>3, <1>4
<1>5. CASE ~(sock' = Handled /\ client' = Forget(client) /\ promise' = NoPromise)
  <2> DEFINE passed == Asked(ThePlan) \ S
  <2>1. Readable(ThePlan) \subseteq Asked(ThePlan) /\ Asked(ThePlan) \subseteq 1..Len(stream)
    BY DEF Readable, Asked
  <2>2. /\ Asked(ThePlan) = S \cup passed
        /\ S \in SUBSET (1..Len(stream)) /\ passed \in SUBSET (1..Len(stream))
    BY <1>2, <2>1
  <2>3. /\ ThePlan.verdict # "resync"
        /\ ThePlan.verdict = "replay" => ({ThePlan.needFirst} \ {0}) \subseteq S
    BY <1>2, <1>5 DEF Incomplete
  <2>4. \E newest : Answers(S, passed, newest)
    BY <1>2, <1>5, <2>2, <2>3 DEF Answers
  <2> QED
    BY <1>1, <1>3, <2>4
<1> QED
  BY <1>4, <1>5

\* The last sequence and the base of an answer.
LEMMA AnswerSent ==
  ASSUME TypeInv, HandlerInv, sock.pc = "plan",
         NEW S, NEW passed, NEW newest, Answers(S, passed, newest)
  PROVE  /\ sock'.sent \in Nat /\ sock' \in Socket
         /\ promise'.base \in Nat /\ promise' \in Promise
         /\ S # {} => newest \in S /\ \A q \in S : q <= newest
         /\ sock'.sent = newest /\ (S = {} => newest = ThePlan.last)
         /\ promise'.base = IF sock.ask # 0 THEN sock.ask
                            ELSE IF ThePlan.verdict = "replay" THEN ThePlan.first - 1
                                 ELSE sock.latest
<1>1. /\ sock.ask \in Nat /\ sock.latest \in Nat /\ sock.idx \in Index /\ sock \in Socket
      /\ promise \in Promise /\ Len(stream) \in Nat
  BY SMT, SocketFields DEF TypeInv
<1>2. sock.idx.cur.turn # 0 => sock.idx.cur.start - 1 \in Nat
  BY SMT, <1>1 DEF HandlerInv, Sound, Index, Turn
<1>3. /\ ThePlan.last \in Nat
      /\ sock.ask = 0 /\ ThePlan.verdict = "replay" => ThePlan.first - 1 \in Nat
  BY <1>1, <1>2, PlanFacts DEF Answers
<1>4. /\ S # {} => newest \in S /\ \A q \in S : q <= newest
      /\ S = {} => newest = ThePlan.last
  BY DEF Answers, Newest
<1> DEFINE b == IF sock.ask # 0 THEN sock.ask
                ELSE IF ThePlan.verdict = "replay" THEN ThePlan.first - 1 ELSE sock.latest
<1>5. b \in Nat /\ newest \in Nat /\ S \in SUBSET Nat /\ passed \in SUBSET Nat
  BY SMT, <1>1, <1>3, <1>4 DEF Answers
<1>6. sock' = [Handled EXCEPT !.sent = newest]
  BY DEF Answers
<1>7. promise' = [promise EXCEPT !.made = TRUE, !.idx = sock.idx, !.got = S,
                                 !.passed = passed, !.base = b]
  BY DEF Answers
<1> HIDE DEF b
<1>8. sock' \in Socket /\ sock'.sent = newest
  BY <1>1, <1>5, <1>6, HandledType DEF Socket
<1>9. promise' \in Promise /\ promise'.base = b
  BY <1>1, <1>5, <1>7 DEF Promise
<1> QED
  BY <1>4, <1>5, <1>8, <1>9 DEF b

LEMMA ReplayType ==
  ASSUME TypeInv, HandlerInv, Replay
  PROVE  TypeInv'
<1>1. UNCHANGED busVars /\ sock.pc = "plan" /\ troubles' \in Nat
  BY ReplayCases
<1>2. CASE sock' = Handled /\ client' = Forget(client) /\ promise' = NoPromise
  BY <1>1, <1>2, HandledType, ForgetType, NoneTypes DEF TypeInv, busVars
<1>3. ASSUME NEW S, NEW passed, NEW newest, Answers(S, passed, newest)
      PROVE  TypeInv'
  <2>1. client' \in Client
    <3>1. CASE S = {}
      BY <1>3, <3>1 DEF Answers, TypeInv
    <3>2. CASE S # {}
      <4>1. newest \in 1..Len(stream)
        BY <1>1, <1>3, <3>2, AnswerSent DEF Answers
      <4>2. Applied(client, newest) \in Client
        BY <4>1, AppliedType
      <4>3. Shown(S) \in SUBSET Nat
        BY <1>3, ShownType DEF Answers
      <4>4. client' = [Applied(client, newest) EXCEPT
                         !.seen = @ \cup Shown(S),
                         !.refresh = @ \/ \E p \in S : stream[p].kind = "end"]
        BY <1>3, <3>2 DEF Answers
      <4> QED
        BY <4>2, <4>3, <4>4 DEF Client
    <3> QED
      BY <3>1, <3>2
  <2> QED
    BY <1>1, <1>3, <2>1, AnswerSent DEF TypeInv, busVars
<1> QED
  BY <1>2, <1>3, ReplayCases

LEMMA TypeNext ==
  ASSUME Inv, [Next]_vars
  PROVE  TypeInv'
<1>i. TypeInv /\ WorkerInv /\ FeedInv /\ HandlerInv
  BY DEF Inv
<1>0. /\ stream \in Seq(Event) /\ low \in Nat \ {0} /\ index \in Index /\ worker \in Worker
      /\ db \in SUBSET Nat /\ sock \in Socket /\ client \in Client /\ promise \in Promise
      /\ troubles \in Nat /\ Len(stream) \in Nat
  BY SMT, <1>i DEF TypeInv
<1>s. /\ sock.feed \in Seq(Nat) /\ sock.sent \in Nat /\ sock.asks \in Seq(Nat)
      /\ sock.ask \in Nat /\ sock.idx \in Index /\ sock.latest \in Nat
  BY <1>0, SocketFields
<1>1. CASE StartTurn
  <2>1. worker.turn + 1 \in Nat
    BY SMT, <1>0 DEF Worker
  <2>2. worker' \in Worker
    BY SMT, <1>1, <1>0, <2>1 DEF StartTurn, Worker, Stages
  <2> QED
    BY <1>i, <1>1, <1>0, <2>1, <2>2, PublishType DEF StartTurn, TypeInv, Kinds
<1>2. CASE PublishDelta
  <2>1. worker.turn \in Nat
    BY <1>0 DEF Worker
  <2> QED
    BY <1>i, <1>2, <1>0, <2>1, PublishType DEF PublishDelta, TypeInv, Kinds
<1>3. CASE CommitTurn
  <2>1. db' \in SUBSET Nat /\ worker' \in Worker
    BY <1>3, <1>0 DEF CommitTurn, Worker, Stages
  <2> QED
    BY <1>i, <1>3, <2>1 DEF CommitTurn, TypeInv
<1>4. CASE PublishEnd
  <2>0. Len(stream) + 1 \in Nat
    BY SMT, <1>0
  <2>1. worker.turn \in Nat /\ worker' \in Worker
    BY <1>4, <1>0, <2>0 DEF PublishEnd, Worker, Stages
  <2> QED
    BY <1>i, <1>4, <1>0, <2>1, PublishType DEF PublishEnd, TypeInv, Kinds
<1>5. CASE PublishTitle
  BY <1>i, <1>5, <1>0, PublishType DEF PublishTitle, TypeInv, Kinds
<1>6. CASE PublishOther
  BY <1>i, <1>6, <1>0, PublishType DEF PublishOther, TypeInv, Kinds
<1>7. CASE UpdateIndex
  <2>1. worker.owed \in 1..Len(stream)
    BY SMT, <1>i, <1>7, <1>0 DEF UpdateIndex, WorkerInv
  <2>2. index' \in Index
    BY <1>7, <1>i, <2>1, ApplyType DEF UpdateIndex
  <2>3. worker' \in Worker
    BY <1>7, <1>0 DEF UpdateIndex, Worker, Stages
  <2> QED
    BY <1>i, <1>7, <2>2, <2>3 DEF UpdateIndex, TypeInv
<1>8. CASE LoseTurn
  <2>1. worker' \in Worker
    BY <1>8, <1>0 DEF LoseTurn, Worker, Stages
  <2> QED
    BY SMT, <1>i, <1>8, <2>1 DEF LoseTurn, Spend, TypeInv
<1>9. CASE ExpireEvent
  BY SMT, <1>i, <1>9 DEF ExpireEvent, Spend, TypeInv
<1>10. CASE ExpireIndex
  BY SMT, <1>i, <1>10, NoneTypes DEF ExpireIndex, Spend, TypeInv
<1>11. CASE Connect
  <2>1. client.last \in Nat /\ client' \in Client
    BY <1>11, <1>0 DEF Connect, Client
  <2>2. <<>> \in Seq(Nat) /\ <<client.last>> \in Seq(Nat)
    BY SMT, <2>1
  <2>3. sock' \in Socket
    BY <1>11, <2>2, NoneTypes DEF Connect, Socket
  <2> QED
    BY <1>i, <1>11, <2>1, <2>3 DEF Connect, TypeInv, busVars
<1>12. CASE Disconnect
  BY SMT, <1>i, <1>12, NoneTypes DEF Disconnect, Spend, TypeInv, busVars
<1>13. CASE Refresh
  <2>1. client' \in Client
    BY <1>13, <1>0 DEF Refresh, Client
  <2> QED
    BY <1>i, <1>13, <2>1 DEF Refresh, TypeInv, busVars
<1>14. CASE Recover
  <2>1. client.last \in Nat /\ client' \in Client
    BY <1>14, <1>0 DEF Recover, Client
  <2>2. Append(sock.asks, client.last) \in Seq(Nat)
    BY SMT, <2>1, <1>s
  <2>3. sock' \in Socket
    BY <1>14, <1>0, <2>2 DEF Recover, Socket
  <2> QED
    BY <1>i, <1>14, <2>1, <2>3 DEF Recover, TypeInv, busVars
<1>15. CASE Deliver
  <2>1. sock.feed # <<>> /\ Head(sock.feed) # 0
    BY <1>15 DEF Deliver
  <2>2. Head(sock.feed) = sock.feed[1] /\ 1 \in DOMAIN sock.feed /\ Tail(sock.feed) \in Seq(Nat)
    BY SMT, <2>1, <1>s
  <2> DEFINE p == Head(sock.feed)
  <2>3. p \in 1..Len(stream)
    BY SMT, <1>i, <2>1, <2>2, <1>0, <1>s DEF FeedInv
  <2>4. Applied(client, p) \in Client
    BY <1>i, <2>3, AppliedType
  <2>5. [sock EXCEPT !.feed = Tail(@)] \in Socket
    BY <1>0, <2>2 DEF Socket
  <2>6. [sock EXCEPT !.feed = Tail(@), !.sent = p] \in Socket
    <3>1. p \in Nat
      BY SMT, <2>3
    <3> QED
      BY <1>0, <2>2, <3>1 DEF Socket
  <2>7. [promise EXCEPT !.got = @ \cup {p}] \in Promise
    BY SMT, <1>0, <2>3 DEF Promise
  <2> QED
    BY <1>i, <1>15, <2>4, <2>5, <2>6, <2>7 DEF Deliver, TypeInv, busVars
<1>16. CASE Lagged
  <2>1. Tail(sock.feed) \in Seq(Nat)
    BY SMT, <1>16, <1>s DEF Lagged
  <2>2. sock' \in Socket
    BY <1>16, <1>0, <2>1 DEF Lagged, Socket
  <2> QED
    BY <1>i, <1>16, <2>2, NoneTypes, ForgetType DEF Lagged, TypeInv, busVars
<1>17. CASE ReadConversation
  <2>1. Tail(sock.asks) \in Seq(Nat) /\ Head(sock.asks) \in Nat
    BY SMT, <1>17, <1>s DEF ReadConversation
  <2>2. sock' \in Socket
    BY <1>17, <1>0, <2>1 DEF ReadConversation, Socket, Phases
  <2> QED
    BY <1>i, <1>17, <2>2, NoneTypes DEF ReadConversation, TypeInv, busVars
<1>18. CASE JoinHub
  <2>1. promise' \in Promise
    BY <1>18, <1>0 DEF JoinHub, Promise
  <2>2. CASE sock' = [sock EXCEPT !.pc = "index"]
    <3>1. sock' \in Socket
      BY <2>2, <1>0 DEF Socket, Phases
    <3> QED
      BY <1>i, <1>18, <2>1, <3>1 DEF JoinHub, TypeInv, busVars
  <2>3. ASSUME NEW first \in 1..Len(stream) + 1, NEW n \in 0..MaxBacklog,
               NEW feed \in [1..n -> first..Len(stream)],
               sock' = [sock EXCEPT !.pc = "index", !.sub = TRUE, !.feed = feed]
        PROVE  TypeInv'
    <3>1. n \in Nat /\ \A x \in first..Len(stream) : x \in Nat
      BY SMT, ReplayAssumption, <1>0
    <3>2. feed \in Seq(Nat)
      BY SMT, <3>1
    <3>3. sock' \in Socket
      BY <2>3, <1>0, <3>2 DEF Socket, Phases
    <3> QED
      BY <1>i, <1>18, <2>1, <3>3 DEF JoinHub, TypeInv, busVars
  <2> QED
    BY <1>18, <2>2, <2>3 DEF JoinHub
<1>19. CASE ReadIndex
  <2>1. sock' \in Socket
    BY <1>19, <1>0 DEF ReadIndex, Socket, Phases
  <2> QED
    BY <1>i, <1>19, <2>1 DEF ReadIndex, TypeInv, busVars
<1>20. CASE ReadLatest
  <2>1. sock' \in Socket
    BY <1>20, <1>0 DEF ReadLatest, LatestEventSequence, Socket, Phases
  <2> QED
    BY <1>i, <1>20, <2>1 DEF ReadLatest, TypeInv, busVars
<1>21. CASE Replay
  BY <1>i, <1>21, ReplayType
<1>22. CASE Lag
  <2>1. PICK i \in DOMAIN sock.feed : sock' = [sock EXCEPT !.feed[i] = 0]
    BY <1>22 DEF Lag
  <2>2. [sock.feed EXCEPT ![i] = 0] \in Seq(Nat)
    BY SMT, <1>s
  <2>3. sock' \in Socket
    BY <1>0, <2>1, <2>2 DEF Socket
  <2> QED
    BY SMT, <1>i, <1>22, <2>3 DEF Lag, Spend, TypeInv, busVars
<1>23. CASE SubscribeFails
  <2>1. client' \in Client
    BY <1>23, <1>0 DEF SubscribeFails, Client
  <2> QED
    BY SMT, <1>i, <1>23, <1>0, <2>1, HandledType, NoneTypes DEF SubscribeFails, Spend, TypeInv, busVars
<1>24. CASE HubSkips
  <2>1. Head(sock.feed) \in Nat /\ Tail(sock.feed) \in Seq(Nat)
    BY SMT, <1>24, <1>s DEF HubSkips
  <2>2. sock' \in Socket /\ promise' \in Promise
    BY <1>24, <1>0, <2>1 DEF HubSkips, Socket, Promise
  <2> QED
    BY SMT, <1>i, <1>24, <2>2 DEF HubSkips, Spend, TypeInv, busVars
<1>25. CASE UNCHANGED vars
  BY <1>i, <1>25 DEF vars, TypeInv, busVars
<1> QED
  BY <1>1, <1>2, <1>3, <1>4, <1>5, <1>6, <1>7, <1>8, <1>9, <1>10, <1>11, <1>12, <1>13,
     <1>14, <1>15, <1>16, <1>17, <1>18, <1>19, <1>20, <1>21, <1>22, <1>23, <1>24, <1>25
     DEF Next, Serve
------------------------------------------------------------------------------
(***************************************************************************)
(* Steps                                                                   *)
(***************************************************************************)
LEMMA WorkerStable ==
  ASSUME WorkerInv, UNCHANGED <<stream, index, worker>>
  PROVE  WorkerInv'
BY DEF WorkerInv, Sound, Within

LEMMA FeedStable ==
  ASSUME FeedInv, stream' = stream, sock'.feed = sock.feed
  PROVE  FeedInv'
BY DEF FeedInv

\* Steps of the worker, the index and the browser are not seen by the socket.
LEMMA SocketStable ==
  ASSUME TypeInv, HandlerInv, PromiseInv, UNCHANGED <<stream, promise>>,
         /\ sock'.up = sock.up /\ sock'.sub = sock.sub /\ sock'.feed = sock.feed
         /\ sock'.sent = sock.sent /\ sock'.pc = sock.pc /\ sock'.idx = sock.idx
         /\ sock'.latest = sock.latest
  PROVE  HandlerInv' /\ PromiseInv'
<1>1. HandlerInv'
  BY DEF HandlerInv, InFeed, Sound, Within
<1>2. ASSUME NEW p \in Nat, Due(p)' PROVE Due(p)
  BY SMT, <1>2 DEF Due, Indexed, TypeInv
<1>3. PromiseInv'
  <2> SUFFICES ASSUME promise.made PROVE PromiseInv'
    BY DEF PromiseInv
  <2>1. promise.base \in Nat /\ Len(stream) \in Nat
    BY SMT DEF TypeInv, Promise
  <2>2. \A p \in promise.base + 1..Len(stream) : p \in Nat /\ (Due(p)' => Due(p))
    BY SMT, <1>2, <2>1
  <2> QED
    BY <2>2 DEF PromiseInv, Sent, InFeed, Lost
<1> QED
  BY <1>1, <1>3

\* An event joins the end of a feed.
LEMMA AppendFacts ==
  ASSUME NEW f \in Seq(Nat), NEW n \in Nat, NEW g, g = Append(f, n)
  PROVE  /\ \A i \in DOMAIN f : i \in DOMAIN g /\ g[i] = f[i]
         /\ \A i \in DOMAIN g : i \in DOMAIN f \/ (i = Len(f) + 1 /\ g[i] = n)
         /\ \E i \in DOMAIN g : g[i] = n
<1>1. DOMAIN g = 1..Len(f) + 1 /\ DOMAIN f = 1..Len(f) /\ Len(f) \in Nat
  BY SMT
<1>2. g[Len(f) + 1] = n /\ \A i \in 1..Len(f) : g[i] = f[i]
  BY SMT
<1>3. Len(f) + 1 \in DOMAIN g
  BY SMT, <1>1
<1> QED
  BY SMT, <1>1, <1>2, <1>3

\* What is published goes to the feed of a socket that has joined the hub.
LEMMA PublishKeeps ==
  ASSUME Inv, NEW t \in Nat, NEW kind \in Kinds, Publish(t, kind),
         UNCHANGED <<index, promise>>
  PROVE  FeedInv' /\ HandlerInv' /\ PromiseInv'
<1> PICK n \in Nat : n = Len(stream) + 1
  BY SMT DEF Inv, TypeInv
<1>0. TypeInv /\ FeedInv /\ HandlerInv /\ PromiseInv
  BY DEF Inv
<1>1. /\ stream' = Append(stream, [turn |-> t, kind |-> kind]) /\ stream \in Seq(Event)
      /\ sock \in Socket /\ sock.feed \in Seq(Nat) /\ promise \in Promise
  BY <1>0, SocketFields DEF Publish, TypeInv
<1>2. /\ Len(stream) \in Nat /\ Len(stream') = n /\ stream'[n].turn = t
      /\ \A p \in 1..Len(stream) : stream'[p] = stream[p]
  BY SMT, <1>1
<1>3. /\ sock'.up = sock.up /\ sock'.sub = sock.sub
      /\ sock'.sent = sock.sent /\ sock'.pc = sock.pc /\ sock'.idx = sock.idx
      /\ sock'.latest = sock.latest
  BY <1>1 DEF Publish, Socket
<1>4. sock'.feed = IF sock.sub /\ t # 0 THEN Append(sock.feed, n) ELSE sock.feed
  BY <1>1 DEF Publish, Socket
<1>5. /\ \A i \in DOMAIN sock.feed : i \in DOMAIN sock'.feed /\ sock'.feed[i] = sock.feed[i]
      /\ \A i \in DOMAIN sock'.feed :
           i \in DOMAIN sock.feed \/ (i = Len(sock.feed) + 1 /\ sock'.feed[i] = n)
      /\ sock.sub /\ t # 0 => \E i \in DOMAIN sock'.feed : sock'.feed[i] = n
      /\ \A i \in DOMAIN sock.feed : i \in Nat /\ i <= Len(sock.feed)
  <2>1. CASE sock.sub /\ t # 0
    <3>1. sock'.feed = Append(sock.feed, n)
      BY <1>4, <2>1
    <3>2. \A i \in DOMAIN sock.feed : i \in Nat /\ i <= Len(sock.feed)
      BY SMT, <1>1
    <3> QED
      <4>1. /\ \A i \in DOMAIN sock.feed :
                  i \in DOMAIN sock'.feed /\ sock'.feed[i] = sock.feed[i]
            /\ \A i \in DOMAIN sock'.feed :
                 i \in DOMAIN sock.feed \/ (i = Len(sock.feed) + 1 /\ sock'.feed[i] = n)
            /\ \E i \in DOMAIN sock'.feed : sock'.feed[i] = n
        <5>1. sock.feed \in Seq(Nat)
          BY <1>1
        <5> QED
          BY <5>1, <3>1, AppendFacts
      <4> QED
        BY <3>2, <4>1
  <2>2. CASE ~(sock.sub /\ t # 0)
    BY SMT, <1>1, <1>4, <2>2
  <2> QED
    BY <2>1, <2>2
<1>6. FeedInv'
  <2>1. \A i \in DOMAIN sock.feed : sock.feed[i] \in Nat
    BY SMT, <1>1
  <2>2. \A i \in DOMAIN sock'.feed : sock'.feed[i] <= n
    BY SMT, <1>0, <1>2, <1>5, <2>1 DEF FeedInv
  <2>3. ASSUME NEW i \in DOMAIN sock'.feed, NEW j \in DOMAIN sock'.feed,
               i < j, sock'.feed[i] # 0, sock'.feed[j] # 0
        PROVE  sock'.feed[i] < sock'.feed[j]
    <3>1. i \in DOMAIN sock.feed
      BY SMT, <1>1, <1>5, <2>3
    <3>2. CASE j \in DOMAIN sock.feed
      BY <1>0, <1>5, <2>3, <3>1, <3>2 DEF FeedInv
    <3>3. CASE j \notin DOMAIN sock.feed
      <4>1. sock'.feed[j] = n /\ sock'.feed[i] = sock.feed[i]
        BY <1>5, <3>1, <3>3
      <4>2. sock.feed[i] <= Len(stream)
        BY <1>0, <3>1 DEF FeedInv
      <4> QED
        BY SMT, <1>2, <2>1, <3>1, <4>1, <4>2
    <3> QED
      BY <3>2, <3>3
  <2> QED
    BY <1>2, <2>2, <2>3 DEF FeedInv
<1>7. /\ \A p : InFeed(p) => InFeed(p)'
      /\ Lost => Lost'
      /\ sock.sub /\ t # 0 => InFeed(n)'
  BY <1>5 DEF InFeed, Lost
<1>8. \A p \in 1..n : p \in 1..Len(stream) \/ p = n
  BY SMT, <1>2
<1>9. HandlerInv'
  <2>1. sock.pc \in {"index", "latest", "plan"} =>
          \A p \in promise.from + 1..n : stream'[p].turn # 0 => InFeed(p)'
    <3> SUFFICES ASSUME sock.pc \in {"index", "latest", "plan"},
                        NEW p \in promise.from + 1..n, stream'[p].turn # 0
                 PROVE  InFeed(p)'
      OBVIOUS
    <3>1. promise.from \in Nat
      BY <1>1 DEF Promise
    <3>2. p \in 1..n
      BY SMT, <1>2, <3>1
    <3>3. CASE p = n
      BY <1>0, <1>2, <1>7, <3>3 DEF HandlerInv
    <3>4. CASE p \in 1..Len(stream)
      <4>1. p \in promise.from + 1..Len(stream)
        BY SMT, <1>2, <3>1, <3>4
      <4> QED
        BY <1>0, <1>2, <1>7, <3>4, <4>1 DEF HandlerInv
    <3> QED
      BY <1>8, <3>2, <3>3, <3>4
  <2>2. \A i, m : Within(i, m)' <=> Within(i, m)
    BY DEF Within
  <2>3. promise.from \in Nat /\ sock.latest \in Nat /\ sock.idx \in Index
    BY <1>0, <1>1, SocketFields DEF Promise
  <2>4. Within(sock.idx, Len(stream)) => Within(sock.idx, n)
    BY SMT, <1>2, <2>3 DEF Within, Index, Turn
  <2> QED
    BY SMT, <1>0, <1>2, <1>3, <2>1, <2>3, <2>4 DEF HandlerInv, Sound, Within
<1>10. ASSUME NEW p \in 1..Len(stream), Due(p)' PROVE Due(p)
  BY <1>2, <1>10 DEF Due, Indexed
<1>11. PromiseInv'
  <2> SUFFICES ASSUME promise.made PROVE PromiseInv'
    BY DEF PromiseInv
  <2>1. promise.base \in Nat /\ promise.from \in Nat /\ sock.sent \in Nat
    BY <1>1, SocketFields DEF Promise
  <2>2. sock.sub /\ promise.from <= Len(stream)
    BY <1>0 DEF PromiseInv
  <2>3. ASSUME NEW p \in promise.base + 1..n, Due(p)'
        PROVE  /\ Sent(p)' \/ InFeed(p)'
               /\ p <= sock.sent => Sent(p)' \/ Lost'
    <3>1. p \in 1..n
      BY SMT, <1>2, <2>1
    <3>2. Sent(p)' <=> Sent(p)
      BY DEF Sent
    <3>3. CASE p = n
      <4>1. InFeed(n)'
        BY <1>2, <1>7, <2>2, <2>3, <3>3 DEF Due
      <4>2. ~(n <= sock.sent)
        BY SMT, <1>0, <1>2, <2>1 DEF PromiseInv
      <4> QED
        BY <3>3, <4>1, <4>2
    <3>4. CASE p \in 1..Len(stream)
      <4>1. p \in promise.base + 1..Len(stream) /\ Due(p)
        BY SMT, <1>2, <1>10, <2>1, <2>3, <3>4
      <4> QED
        BY <1>0, <1>7, <3>2, <4>1 DEF PromiseInv
    <3> QED
      BY <1>8, <3>1, <3>3, <3>4
  <2> QED
    BY SMT, <1>0, <1>2, <1>3, <2>1, <2>2, <2>3 DEF PromiseInv
<1> QED
  BY <1>6, <1>9, <1>11

LEMMA UpdateIndexKeeps ==
  ASSUME TypeInv, WorkerInv, UpdateIndex
  PROVE  WorkerInv'
<1>1. /\ index \in Index /\ worker \in Worker /\ worker.owed # 0 /\ stream' = stream
      /\ index' = ApplyReplayEvent(index, worker.owed)
      /\ worker' = [worker EXCEPT !.owed = 0, !.stage = IF @ = "ended" THEN "idle" ELSE @]
  BY DEF TypeInv, UpdateIndex
<1>2. /\ worker'.turn = worker.turn /\ worker'.owed = 0
      /\ worker'.stage = IF worker.stage = "ended" THEN "idle" ELSE worker.stage
      /\ worker.turn \in Nat /\ worker.owed \in Nat
  BY <1>1 DEF Worker
<1>3. /\ index.cur.turn \in Nat /\ index.cur.start \in Nat /\ index.cur.end \in Nat
      /\ index.prev.turn \in Nat /\ index.prev.end \in Nat
      /\ worker.owed \in 1..Len(stream) /\ Len(stream) \in Nat
      /\ stream[worker.owed].turn = worker.turn /\ worker.turn # 0
  BY SMT, <1>1 DEF Index, Turn, TypeInv, WorkerInv
<1>4. CASE worker.stage = "running"
  <2>1. stream[worker.owed].kind = "started" /\ index.cur.turn # worker.turn
    BY <1>1, <1>4 DEF WorkerInv
  <2>2. index' = [there |-> TRUE, prev |-> index.cur,
                  cur |-> [turn |-> worker.turn, start |-> worker.owed, end |-> 0]]
    BY <1>1, <1>3, <2>1 DEF ApplyReplayEvent
  <2> QED
    BY SMT, <1>1, <1>2, <1>3, <1>4, <2>1, <2>2 DEF WorkerInv, Sound, Within
<1>5. CASE worker.stage = "ended"
  <2>1. stream[worker.owed].kind = "end"
    BY <1>1, <1>5 DEF WorkerInv
  <2>2. CASE index.cur.turn = worker.turn
    <3>1. index' = [index EXCEPT !.there = TRUE, !.cur.end = worker.owed]
      BY <1>1, <1>3, <2>1, <2>2 DEF ApplyReplayEvent
    <3>2. /\ index'.cur.turn = index.cur.turn /\ index'.cur.start = index.cur.start
          /\ index'.cur.end = worker.owed /\ index'.prev = index.prev
      BY <1>1, <3>1 DEF Index, Turn
    <3> QED
      BY SMT, <1>1, <1>2, <1>3, <1>5, <2>1, <2>2, <3>2 DEF WorkerInv, Sound, Within
  <2>3. CASE index.cur.turn # worker.turn
    <3>1. index.prev.turn # worker.turn
      BY SMT, <1>2, <1>3, <2>3 DEF WorkerInv, Sound
    <3>2. index' = [index EXCEPT !.there = TRUE]
      BY <1>1, <1>3, <2>1, <2>3, <3>1 DEF ApplyReplayEvent
    <3>3. index'.cur = index.cur /\ index'.prev = index.prev
      BY <1>1, <3>2 DEF Index
    <3> QED
      BY <1>1, <1>2, <1>3, <1>5, <2>1, <2>3, <3>3 DEF WorkerInv, Sound, Within
  <2> QED
    BY <2>2, <2>3
<1> QED
  BY <1>1, <1>4, <1>5 DEF WorkerInv

\* The worker starts a turn when the one before has ended in the index.
LEMMA WorkerPublishes ==
  ASSUME Inv, StartTurn \/ PublishDelta \/ PublishEnd \/ PublishTitle \/ PublishOther
  PROVE  WorkerInv'
<1>1. /\ index \in Index /\ worker \in Worker /\ stream \in Seq(Event)
      /\ Len(stream) \in Nat /\ index' = index
      /\ index.cur.turn \in Nat /\ index.cur.start \in Nat /\ index.cur.end \in Nat
      /\ worker.turn \in Nat /\ worker.owed \in Nat
  BY SMT DEF Inv, TypeInv, StartTurn, PublishDelta, PublishEnd, PublishTitle, PublishOther,
         Index, Turn, Worker
<1>2. PICK e \in Event : stream' = Append(stream, e)
  <2>1. \A t \in Nat, kind \in Kinds : [turn |-> t, kind |-> kind] \in Event
    BY DEF Event
  <2>2. PICK t \in Nat, kind \in Kinds : Publish(t, kind)
    BY SMT, <1>1 DEF StartTurn, PublishDelta, PublishEnd, PublishTitle, PublishOther, Kinds
  <2> QED
    BY <2>1, <2>2 DEF Publish
<1> PICK n \in Nat : n = Len(stream) + 1
  BY SMT, <1>1
<1>3. /\ Len(stream') = n /\ DOMAIN stream' = 1..n /\ DOMAIN stream = 1..Len(stream)
      /\ \A p \in 1..Len(stream) : stream'[p] = stream[p]
      /\ stream'[n] = e
  BY SMT, <1>1, <1>2
<1>4. WorkerInv
  BY DEF Inv
<1>5. CASE worker' = worker
  <2>1. Within(index, Len(stream)) => Within(index, n)
    BY SMT, <1>1 DEF Within
  <2>2. worker.owed # 0 =>
          worker.owed \in DOMAIN stream' /\ stream'[worker.owed] = stream[worker.owed]
    BY SMT, <1>1, <1>3, <1>4 DEF WorkerInv
  <2> QED
    BY <1>1, <1>3, <1>4, <1>5, <2>1, <2>2 DEF WorkerInv, Sound, Within
<1>6. CASE StartTurn
  <2>1. /\ worker.stage = "idle"
        /\ worker' = [turn |-> worker.turn + 1, stage |-> "running", owed |-> n]
        /\ stream' = Append(stream, [turn |-> worker.turn + 1, kind |-> "started"])
    BY <1>6 DEF StartTurn, Publish
  <2>2. stream'[n].turn = worker.turn + 1 /\ stream'[n].kind = "started" /\ n \in DOMAIN stream'
    BY SMT, <1>1, <1>3, <2>1
  <2>3. Within(index, n - 1) /\ Within(index, n)
    BY SMT, <1>1, <1>4 DEF WorkerInv, Within
  <2> QED
    BY SMTT(30), <1>1, <1>3, <1>4, <2>1, <2>2, <2>3 DEF WorkerInv, Sound, Within
<1>7. CASE PublishEnd
  <2>1. /\ worker.stage \in {"running", "committed", "lost"}
        /\ worker' = [worker EXCEPT !.stage = "ended", !.owed = n]
        /\ stream' = Append(stream, [turn |-> worker.turn, kind |-> "end"])
    BY <1>7 DEF PublishEnd, Publish
  <2>2. stream'[n].turn = worker.turn /\ stream'[n].kind = "end" /\ n \in DOMAIN stream'
    BY SMT, <1>1, <1>3, <2>1
  <2>3. Within(index, n - 1) /\ Within(index, n)
    BY SMT, <1>1, <1>4 DEF WorkerInv, Within
  <2>4. worker'.turn = worker.turn /\ worker'.stage = "ended" /\ worker'.owed = n
    BY <1>1, <2>1 DEF Worker
  <2> QED
    BY <1>1, <1>3, <1>4, <2>1, <2>2, <2>3, <2>4 DEF WorkerInv, Sound, Within
<1> QED
  BY <1>5, <1>6, <1>7 DEF PublishDelta, PublishTitle, PublishOther

\* An event leaves a feed.
LEMMA TailFacts ==
  ASSUME NEW f \in Seq(Nat), f # <<>>, NEW g, g = Tail(f)
  PROVE  /\ 1 \in DOMAIN f /\ f[1] = Head(f) /\ Head(f) \in Nat
         /\ \A i \in DOMAIN g : i + 1 \in DOMAIN f /\ g[i] = f[i + 1]
         /\ \A i \in DOMAIN f \ {1} : i - 1 \in DOMAIN g /\ g[i - 1] = f[i]
         /\ \A i \in DOMAIN g : i \in Nat
         /\ \A i \in DOMAIN f : i \in Nat /\ i >= 1
<1>1. Len(f) \in Nat /\ Len(f) >= 1 /\ DOMAIN f = 1..Len(f) /\ DOMAIN g = 1..Len(f) - 1
  BY SMT
<1>2. \A i \in 1..Len(f) - 1 : g[i] = f[i + 1]
  BY SMT
<1>3. f[1] = Head(f) /\ Head(f) \in Nat
  BY SMT
<1>4. \A i \in DOMAIN f \ {1} : i - 1 \in DOMAIN g /\ (i - 1) + 1 = i
  BY SMT, <1>1
<1> QED
  BY SMT, <1>1, <1>2, <1>3, <1>4

\* The hub passes on an event, the loop drops one that was sent before, or the
\* hub passes over one.
LEMMA DeliverKeeps ==
  ASSUME Inv, Deliver \/ HubSkips
  PROVE  FeedInv' /\ HandlerInv' /\ PromiseInv'
<1>0. /\ TypeInv /\ FeedInv /\ HandlerInv /\ PromiseInv
      /\ sock.pc = "idle" /\ sock.feed # <<>> /\ Head(sock.feed) # 0
      /\ stream' = stream
  BY DEF Inv, Deliver, HubSkips, busVars
<1>1. /\ sock \in Socket /\ sock.feed \in Seq(Nat) /\ promise \in Promise
      /\ promise.base \in Nat /\ sock.sent \in Nat /\ promise.got \in SUBSET Nat
      /\ Len(stream) \in Nat
  BY SMT, <1>0, SocketFields DEF TypeInv, Promise
<1> PICK p : p = Head(sock.feed)
  OBVIOUS
<1> PICK f : f = Tail(sock.feed)
  OBVIOUS
<1>2. /\ 1 \in DOMAIN sock.feed /\ sock.feed[1] = p /\ p \in Nat /\ p # 0
      /\ \A i \in DOMAIN f : i + 1 \in DOMAIN sock.feed /\ f[i] = sock.feed[i + 1]
      /\ \A i \in DOMAIN sock.feed \ {1} : i - 1 \in DOMAIN f /\ f[i - 1] = sock.feed[i]
      /\ \A i \in DOMAIN f : i \in Nat
      /\ \A i \in DOMAIN sock.feed : i \in Nat /\ i >= 1
  <2> PICK F \in Seq(Nat) : F = sock.feed
    BY <1>1
  <2>1. F # <<>> /\ p = Head(F) /\ f = Tail(F) /\ p # 0
    BY <1>0
  <2>2. /\ 1 \in DOMAIN F /\ F[1] = Head(F) /\ Head(F) \in Nat
        /\ \A i \in DOMAIN f : i + 1 \in DOMAIN F /\ f[i] = F[i + 1]
        /\ \A i \in DOMAIN F \ {1} : i - 1 \in DOMAIN f /\ f[i - 1] = F[i]
        /\ \A i \in DOMAIN f : i \in Nat
        /\ \A i \in DOMAIN F : i \in Nat /\ i >= 1
    BY SMTT(30), <2>1, TailFacts
  <2> QED
    BY <2>1, <2>2
<1>3. sock'.feed = f /\ sock'.pc = "idle" /\ sock'.up = sock.up /\ sock'.sub = sock.sub
  BY <1>0, <1>1 DEF Deliver, HubSkips, Socket
<1>4. p <= Len(stream)
  BY <1>0, <1>2 DEF FeedInv
<1>5. FeedInv'
  <2>1. \A i \in DOMAIN f : f[i] <= Len(stream)
    BY <1>0, <1>2 DEF FeedInv
  <2>2. ASSUME NEW i \in DOMAIN f, NEW j \in DOMAIN f, i < j, f[i] # 0, f[j] # 0
        PROVE  f[i] < f[j]
    <3>1. i + 1 < j + 1
      BY SMT, <1>2, <2>2
    <3> QED
      BY <1>0, <1>2, <2>2, <3>1 DEF FeedInv
  <2> QED
    BY <1>0, <1>3, <2>1, <2>2 DEF FeedInv
<1>6. HandlerInv'
  BY <1>3 DEF HandlerInv
<1>7. /\ Lost => Lost'
      /\ \A q : InFeed(q) => InFeed(q)' \/ q = p
      /\ \A q : Lost' => InFeed(q)'
  <2>1. Lost => Lost'
    BY <1>2, <1>3 DEF Lost
  <2>2. ASSUME NEW q, InFeed(q), q # p PROVE InFeed(q)'
    <3>1. PICK i \in DOMAIN sock.feed : sock.feed[i] \in {0, q}
      BY <2>2 DEF InFeed
    <3>2. i # 1
      BY <1>2, <2>2, <3>1
    <3>3. i - 1 \in DOMAIN f /\ f[i - 1] = sock.feed[i]
      BY <1>2, <3>2
    <3> QED
      BY <1>3, <3>1, <3>3 DEF InFeed
  <2>3. \A q : Lost' => InFeed(q)'
    BY DEF Lost, InFeed
  <2> QED
    BY <2>1, <2>2, <2>3
<1>8. ASSUME NEW q \in Nat, q # 0, InFeed(q), q < p PROVE Lost'
  <2>1. PICK i \in DOMAIN sock.feed : sock.feed[i] \in {0, q}
    BY <1>8 DEF InFeed
  <2>2. i # 1
    BY SMT, <1>2, <1>8, <2>1
  <2>3. sock.feed[i] = 0
    <3> SUFFICES ASSUME sock.feed[i] = q PROVE FALSE
      BY <2>1
    <3>1. 1 < i
      BY SMT, <1>2, <2>2
    <3>2. p < q
      BY <1>0, <1>2, <1>8, <3>1 DEF FeedInv
    <3> QED
      BY SMT, <1>2, <1>8, <3>2
  <2> QED
    BY <1>7, <2>3 DEF Lost
<1>9. PromiseInv'
  <2> SUFFICES ASSUME promise'.made PROVE PromiseInv'
    BY DEF PromiseInv
  <2>1. /\ promise.made /\ promise'.base = promise.base /\ promise'.from = promise.from
        /\ promise'.idx = promise.idx
    BY <1>0, <1>1 DEF Deliver, HubSkips, Promise
  <2>2. \A q \in promise.base + 1..Len(stream) : q \in Nat /\ q # 0 /\ (Due(q)' <=> Due(q))
    BY SMT, <1>0, <1>1, <2>1 DEF Due, Indexed
  <2>3. CASE p <= sock.sent /\ sock' = [sock EXCEPT !.feed = Tail(@)] /\ promise' = promise
    <3>1. sock'.sent = sock.sent
      BY <1>1, <2>3 DEF Socket
    <3>2. \A q : Sent(q)' <=> Sent(q)
      BY <2>3 DEF Sent
    <3>3. ASSUME NEW q \in promise.base + 1..Len(stream), Due(q)
          PROVE  /\ Sent(q)' \/ InFeed(q)'
                 /\ q <= sock.sent => Sent(q)' \/ Lost'
      <4>1. Sent(q) \/ InFeed(q)
        BY <1>0, <2>1, <3>3 DEF PromiseInv
      <4>2. q <= sock.sent => Sent(q) \/ Lost
        BY <1>0, <2>1, <3>3 DEF PromiseInv
      <4> QED
        BY <1>7, <2>3, <3>2, <4>1, <4>2
    <3> QED
      BY <1>0, <1>3, <2>1, <2>2, <2>3, <3>1, <3>3 DEF PromiseInv
  <2>4. CASE /\ p > sock.sent /\ sock' = [sock EXCEPT !.feed = Tail(@), !.sent = p]
             /\ promise' = [promise EXCEPT !.got = @ \cup {p}]
    <3>1. /\ sock'.sent = p /\ promise'.got = promise.got \cup {p}
          /\ promise'.passed = promise.passed
      BY <1>1, <2>4 DEF Socket, Promise
    <3>2. \A q : Sent(q)' <=> Sent(q) \/ q = p
      BY <2>1, <3>1 DEF Sent
    <3>3. ASSUME NEW q \in promise.base + 1..Len(stream), Due(q)
          PROVE  /\ Sent(q)' \/ InFeed(q)'
                 /\ q <= p => Sent(q)' \/ Lost'
      <4>1. Sent(q) \/ InFeed(q)
        BY SMT, <1>0, <2>1, <3>3 DEF PromiseInv
      <4>2. Sent(q)' \/ InFeed(q)'
        BY <1>7, <3>2, <4>1
      <4>3. CASE q = p
        BY <3>2, <4>2, <4>3
      <4>4. CASE q < p
        BY <1>8, <2>2, <3>2, <4>1, <4>2, <4>4
      <4> QED
        BY SMT, <1>1, <1>2, <2>2, <4>2, <4>3, <4>4
    <3>4. \A q \in promise'.got : q <= p
      BY SMT, <1>0, <1>1, <1>2, <2>1, <2>4, <3>1 DEF PromiseInv
    <3> QED
      BY <1>0, <1>3, <1>4, <2>1, <2>2, <3>1, <3>3, <3>4 DEF PromiseInv
  <2>5. CASE /\ sock' = [sock EXCEPT !.feed = Tail(@)]
             /\ promise' = [promise EXCEPT !.passed = @ \cup {p}]
    <3>1. /\ sock'.sent = sock.sent /\ promise'.got = promise.got
          /\ promise'.passed = promise.passed \cup {p}
      BY <1>1, <2>5 DEF Socket, Promise
    <3>2. \A q : Sent(q)' <=> Sent(q) \/ q = p
      BY <3>1 DEF Sent
    <3>3. ASSUME NEW q \in promise.base + 1..Len(stream), Due(q)
          PROVE  /\ Sent(q)' \/ InFeed(q)'
                 /\ q <= sock.sent => Sent(q)' \/ Lost'
      <4>1. Sent(q) \/ InFeed(q)
        BY <1>0, <2>1, <3>3 DEF PromiseInv
      <4>2. q <= sock.sent => Sent(q) \/ Lost
        BY <1>0, <2>1, <3>3 DEF PromiseInv
      <4> QED
        BY <1>7, <3>2, <4>1, <4>2
    <3> QED
      BY <1>0, <1>3, <2>1, <2>2, <3>1, <3>3 DEF PromiseInv
  <2> QED
    BY <1>0, <2>3, <2>4, <2>5 DEF Deliver, HubSkips
<1> QED
  BY <1>5, <1>6, <1>9

\* An event that the socket missed counts as one in the feed.
LEMMA LagKeeps ==
  ASSUME Inv, Lag
  PROVE  FeedInv' /\ HandlerInv' /\ PromiseInv'
<1>0. /\ TypeInv /\ FeedInv /\ HandlerInv /\ PromiseInv
      /\ stream' = stream /\ low' = low /\ promise' = promise
  BY DEF Inv, Lag, busVars
<1>1. sock \in Socket /\ sock.feed \in Seq(Nat)
  BY <1>0, SocketFields DEF TypeInv
<1>2. PICK k \in DOMAIN sock.feed : sock' = [sock EXCEPT !.feed[k] = 0]
  BY DEF Lag
<1>3. /\ sock'.feed = [sock.feed EXCEPT ![k] = 0]
      /\ sock'.up = sock.up /\ sock'.sub = sock.sub
      /\ sock'.sent = sock.sent /\ sock'.pc = sock.pc /\ sock'.idx = sock.idx
      /\ sock'.latest = sock.latest
  BY <1>1, <1>2 DEF Socket
<1>4. /\ DOMAIN sock'.feed = DOMAIN sock.feed /\ sock'.feed[k] = 0
      /\ \A i \in DOMAIN sock.feed \ {k} : sock'.feed[i] = sock.feed[i]
  BY <1>1, <1>3
<1>5. FeedInv'
  <2>1. \A i \in DOMAIN sock'.feed : sock'.feed[i] = 0 \/ sock'.feed[i] = sock.feed[i]
    BY <1>4
  <2>2. 0 <= Len(stream)
    BY SMT, <1>0 DEF TypeInv
  <2> QED
    BY <1>0, <1>4, <2>1, <2>2 DEF FeedInv
<1>6. Lost' /\ \A p : InFeed(p)'
  BY <1>4 DEF Lost, InFeed
<1>7. HandlerInv'
  BY <1>0, <1>3, <1>6 DEF HandlerInv, Sound, Within
<1>8. PromiseInv'
  BY <1>0, <1>3, <1>6 DEF PromiseInv
<1> QED
  BY <1>5, <1>7, <1>8

LEMMA LaggedKeeps ==
  ASSUME Inv, Lagged
  PROVE  FeedInv' /\ HandlerInv' /\ PromiseInv'
<1>0. /\ TypeInv /\ FeedInv /\ sock.pc = "idle" /\ sock.feed # <<>>
      /\ stream' = stream /\ promise' = NoPromise
      /\ sock' = [sock EXCEPT !.feed = Tail(@), !.sent = 0]
  BY DEF Inv, Lagged, busVars
<1>1. sock \in Socket /\ sock.feed \in Seq(Nat)
  BY <1>0, SocketFields DEF TypeInv
<1>2. sock'.feed = Tail(sock.feed) /\ sock'.pc = "idle" /\ ~promise'.made
  BY <1>0, <1>1 DEF Socket, NoPromise
<1>3. /\ \A i \in DOMAIN sock'.feed :
           i \in Nat /\ i + 1 \in DOMAIN sock.feed /\ sock'.feed[i] = sock.feed[i + 1]
  BY SMT, <1>0, <1>1, <1>2, TailFacts
<1>4. FeedInv'
  <2>1. ASSUME NEW i \in DOMAIN sock'.feed, NEW j \in DOMAIN sock'.feed,
               i < j, sock'.feed[i] # 0, sock'.feed[j] # 0
        PROVE  sock'.feed[i] < sock'.feed[j]
    <3>1. i + 1 < j + 1
      BY SMT, <1>3, <2>1
    <3> QED
      BY <1>0, <1>3, <2>1, <3>1 DEF FeedInv
  <2> QED
    BY <1>0, <1>3, <2>1 DEF FeedInv
<1> QED
  BY <1>2, <1>4 DEF HandlerInv, PromiseInv

\* The socket joins the hub: from here on all that is stored is passed on.
LEMMA JoinHubKeeps ==
  ASSUME Inv, JoinHub
  PROVE  FeedInv' /\ HandlerInv' /\ PromiseInv'
<1>0. /\ TypeInv /\ FeedInv /\ HandlerInv /\ PromiseInv /\ sock.pc = "hub"
      /\ stream' = stream /\ promise' = [promise EXCEPT !.from = Len(stream)]
      /\ Len(stream) \in Nat /\ sock \in Socket /\ promise \in Promise
  <2>1. sock.pc = "hub" /\ stream' = stream /\ promise' = [promise EXCEPT !.from = Len(stream)]
    BY DEF JoinHub, busVars
  <2> QED
    BY SMT, <2>1 DEF Inv, TypeInv
<1>1. ~promise'.made /\ promise'.from = Len(stream) /\ sock.up
  BY <1>0 DEF HandlerInv, Promise
<1>2. sock'.pc = "index" /\ sock'.sub /\ sock'.up = sock.up
  BY <1>0 DEF JoinHub, Socket
<1>3. HandlerInv'
  BY SMT, <1>0, <1>1, <1>2 DEF HandlerInv
<1>4. PromiseInv'
  BY <1>1 DEF PromiseInv
<1>5. CASE sock' = [sock EXCEPT !.pc = "index"]
  <2>1. sock'.feed = sock.feed
    BY <1>0, <1>5 DEF Socket
  <2> QED
    BY <1>0, <1>3, <1>4, <2>1, FeedStable
<1>6. ASSUME NEW first \in 1..Len(stream) + 1, NEW n \in 0..MaxBacklog,
             NEW feed \in [1..n -> first..Len(stream)], Relayed(feed, first),
             sock' = [sock EXCEPT !.pc = "index", !.sub = TRUE, !.feed = feed]
      PROVE  FeedInv'
  <2>1. sock'.feed = feed
    BY <1>0, <1>6 DEF Socket
  <2>2. \A i \in DOMAIN feed : feed[i] \in first..Len(stream)
    OBVIOUS
  <2>3. \A i \in DOMAIN feed : feed[i] <= Len(stream)
    BY SMT, <1>0, <2>2
  <2>4. \A i, j \in DOMAIN feed : i < j => feed[i] < feed[j]
    BY <1>6 DEF Relayed
  <2> QED
    BY <1>0, <2>1, <2>3, <2>4 DEF FeedInv
<1> QED
  BY <1>3, <1>4, <1>5, <1>6 DEF JoinHub

LEMMA ReadIndexKeeps ==
  ASSUME Inv, ReadIndex \/ ReadLatest
  PROVE  FeedInv' /\ HandlerInv' /\ PromiseInv'
<1>0. /\ TypeInv /\ FeedInv /\ HandlerInv /\ PromiseInv /\ WorkerInv
      /\ stream' = stream /\ promise' = promise
      /\ Len(stream) \in Nat /\ sock \in Socket /\ promise \in Promise
  BY SMT DEF Inv, ReadIndex, ReadLatest, busVars, TypeInv
<1>1. ~promise.made
  BY <1>0 DEF HandlerInv, ReadIndex, ReadLatest
<1>2. sock'.up = sock.up /\ sock'.sub = sock.sub /\ sock'.feed = sock.feed
  BY <1>0 DEF ReadIndex, ReadLatest, Socket
<1>3. /\ ReadIndex => sock.pc = "index" /\ sock'.pc = "latest" /\ sock'.idx = index
      /\ ReadLatest => /\ sock.pc = "latest" /\ sock'.pc = "plan" /\ sock'.idx = sock.idx
                       /\ sock'.latest = Len(stream)
  BY <1>0 DEF ReadIndex, ReadLatest, LatestEventSequence, Socket
<1>4. HandlerInv'
  <2>1. CASE ReadIndex
    BY <1>0, <1>1, <1>2, <1>3, <2>1 DEF HandlerInv, WorkerInv, InFeed, Sound, Within
  <2>2. CASE ReadLatest
    BY SMTT(30), <1>0, <1>1, <1>2, <1>3, <2>2 DEF HandlerInv, InFeed, Sound, Within
  <2> QED
    BY <2>1, <2>2
<1> QED
  BY <1>0, <1>1, <1>2, <1>4, FeedStable DEF PromiseInv

\* What the index of a subscription knows ends with its current turn.
LEMMA IndexEnds ==
  ASSUME NEW i \in Index, Sound(i), NEW latest \in Nat, Within(i, latest),
         NEW p \in Nat, p <= latest, NEW t \in {i.cur, i.prev}, t.turn # 0,
         t.end = 0 \/ p <= t.end
  PROVE  p <= EndOf(i.cur, latest)
BY SMT DEF Index, Turn, Sound, Within, EndOf

\* The replay covers what the feed does not.
LEMMA AnswerKeeps ==
  ASSUME Inv, sock.pc = "plan", UNCHANGED busVars,
         NEW S, NEW passed, NEW newest, Answers(S, passed, newest)
  PROVE  PromiseInv'
<1>0. /\ TypeInv /\ HandlerInv /\ stream' = stream
      /\ sock \in Socket /\ promise \in Promise /\ Len(stream) \in Nat
  BY SMT DEF Inv, TypeInv, busVars
<1>1. /\ sock.ask \in Nat /\ sock.latest \in Nat /\ sock.idx \in Index
      /\ promise.from \in Nat
  BY <1>0, SocketFields DEF TypeInv, Promise
<1>2. /\ sock.up /\ sock.sub /\ promise.from <= sock.latest /\ sock.latest <= Len(stream)
      /\ Sound(sock.idx) /\ Within(sock.idx, sock.latest)
      /\ \A p \in promise.from + 1..Len(stream) : stream[p].turn # 0 => InFeed(p)
  BY <1>0 DEF HandlerInv
<1>3. /\ sock'.sent \in Nat /\ promise'.base \in Nat
      /\ S # {} => newest \in S /\ \A q \in S : q <= newest
      /\ sock'.sent = newest /\ (S = {} => newest = ThePlan.last)
      /\ promise'.base = IF sock.ask # 0 THEN sock.ask
                         ELSE IF ThePlan.verdict = "replay" THEN ThePlan.first - 1
                              ELSE sock.latest
  BY <1>0, AnswerSent
<1>4. sock'.up = sock.up /\ sock'.sub = sock.sub /\ sock'.feed = sock.feed
  BY <1>0, HandledType DEF Answers, Socket
<1>5. /\ promise'.from = promise.from /\ promise'.idx = sock.idx /\ promise'.got = S
      /\ promise'.passed = passed
  BY <1>0 DEF Answers, Promise
<1> PICK e : e = EndOf(sock.idx.cur, sock.latest)
  OBVIOUS
<1>6. e \in Nat /\ e <= sock.latest
  BY SMT, <1>1, <1>2 DEF EndOf, Index, Turn, Within
<1>7. \A p \in 1..Len(stream) : /\ Sent(p)' <=> p \in Asked(ThePlan)
                                /\ InFeed(p)' <=> InFeed(p)
  BY <1>4, <1>5 DEF Sent, InFeed, Answers
<1>8. \/ /\ ThePlan.verdict = "nothing" /\ ThePlan.first = 1 /\ ThePlan.end = 0
         /\ ThePlan.last = sock.ask /\ (sock.ask = 0 \/ sock.ask >= e)
      \/ /\ ThePlan.verdict = "replay" /\ ThePlan.first = sock.ask + 1 /\ ThePlan.end = e
         /\ ThePlan.last = sock.ask /\ sock.ask # 0
      \/ /\ ThePlan.verdict = "replay" /\ ThePlan.first = sock.idx.cur.start
         /\ ThePlan.end = e /\ ThePlan.last = 0 /\ sock.ask = 0
         /\ sock.idx.cur.turn # 0 /\ ThePlan.needFirst = sock.idx.cur.start
  BY <1>0, PlanFacts DEF Answers
<1>9. ASSUME NEW p \in promise'.base + 1..Len(stream), stream[p].turn # 0, p <= e,
             ThePlan.verdict = "replay"
      PROVE  p \in Asked(ThePlan)
  <2>1. ThePlan.end = e /\ ThePlan.first = promise'.base + 1
    BY SMT, <1>1, <1>3, <1>8, <1>9 DEF Index, Turn
  <2> QED
    BY SMT, <1>0, <1>1, <1>3, <1>6, <1>9, <2>1 DEF Asked
<1>10. ASSUME NEW p \in promise'.base + 1..Len(stream), Due(p)'
       PROVE  Sent(p)' \/ InFeed(p)'
  <2>1. p \in Nat /\ p \in 1..Len(stream) /\ p > promise'.base
    BY SMT, <1>0, <1>3
  <2>2. stream[p].turn # 0
    BY <1>0, <1>10 DEF Due
  <2>3. CASE p > promise.from
    BY SMT, <1>1, <1>2, <1>7, <2>1, <2>2, <2>3
  <2>4. CASE ~(p > promise.from)
    <3>1. PICK t \in {sock.idx.cur, sock.idx.prev} : t.turn # 0 /\ (t.end = 0 \/ p <= t.end)
      BY <1>5, <1>10, <2>4 DEF Due, Indexed
    <3>2. p <= sock.latest
      BY SMT, <1>1, <1>2, <2>1, <2>4
    <3>3. p <= e
      BY <1>1, <1>2, <2>1, <3>1, <3>2, IndexEnds
    <3>4. ThePlan.verdict = "replay"
      BY SMTT(30), <1>1, <1>3, <1>6, <1>8, <2>1, <3>2, <3>3
    <3> QED
      BY <1>7, <1>9, <2>1, <2>2, <3>3, <3>4
  <2> QED
    BY <2>3, <2>4
<1>11. S = {} => sock'.sent <= promise'.base
  <2> SUFFICES ASSUME S = {} PROVE sock'.sent <= promise'.base
    OBVIOUS
  <2>1. sock.idx.cur.turn # 0 => sock.idx.cur.start # 0
    BY <1>2 DEF Sound
  <2>2. ~(ThePlan.verdict = "replay" /\ sock.ask = 0)
    BY <1>8, <2>1 DEF Answers
  <2> QED
    BY SMT, <1>1, <1>3, <1>8, <2>2
<1>12. S # {} => ThePlan.verdict = "replay" /\ newest <= e
  BY SMT, <1>1, <1>3, <1>6, <1>8 DEF Answers, Asked
<1>13. ASSUME NEW p \in promise'.base + 1..Len(stream), Due(p)', p <= sock'.sent
       PROVE  Sent(p)'
  <2>1. p \in Nat /\ p \in 1..Len(stream) /\ p > promise'.base
    BY SMT, <1>0, <1>3
  <2>2. stream[p].turn # 0
    BY <1>0, <1>13 DEF Due
  <2>3. S # {}
    BY SMT, <1>3, <1>11, <1>13, <2>1
  <2>4. newest \in Nat
    BY <1>3, <2>3
  <2>5. p <= e
    BY SMT, <1>3, <1>6, <1>12, <1>13, <2>1, <2>3, <2>4
  <2> QED
    BY <1>7, <1>9, <1>12, <2>1, <2>2, <2>3, <2>5
<1>14. sock'.sent <= Len(stream)
  <2>1. CASE S # {}
    BY SMT, <1>0, <1>3, <2>1 DEF Answers
  <2>2. CASE S = {}
    <3>1. ThePlan.last <= Len(stream)
      BY SMT, <1>0, <1>1, <1>2, <1>8, AskBound
    <3> QED
      BY <1>3, <2>2, <3>1
  <2> QED
    BY <2>1, <2>2
<1>15. promise.from <= Len(stream) /\ \A p \in S : p <= sock'.sent
  BY SMTT(30), <1>0, <1>1, <1>2, <1>3
<1> QED
  BY <1>0, <1>2, <1>4, <1>5, <1>10, <1>13, <1>14, <1>15 DEF PromiseInv

LEMMA ReplayKeeps ==
  ASSUME Inv, Replay
  PROVE  WorkerInv' /\ FeedInv' /\ HandlerInv' /\ PromiseInv'
<1>0. TypeInv /\ WorkerInv /\ FeedInv /\ sock \in Socket
  BY DEF Inv, TypeInv
<1>1. /\ UNCHANGED busVars /\ sock.pc = "plan"
      /\ \/ sock' = Handled /\ client' = Forget(client) /\ promise' = NoPromise
         \/ \E S, passed, newest : Answers(S, passed, newest)
  BY <1>0, ReplayCases
<1>2. Handled \in Socket /\ Handled.feed = sock.feed /\ Handled.pc = "idle"
  BY <1>0, HandledType
<1>3. sock'.feed = sock.feed /\ sock'.pc = "idle"
  BY <1>1, <1>2 DEF Answers, Socket
<1>4. WorkerInv' /\ FeedInv' /\ HandlerInv'
  BY <1>0, <1>1, <1>3, WorkerStable, FeedStable DEF busVars, HandlerInv
<1>5. CASE promise' = NoPromise
  BY <1>4, <1>5 DEF PromiseInv, NoPromise
<1>6. CASE \E S, passed, newest : Answers(S, passed, newest)
  BY <1>1, <1>4, <1>6, AnswerKeeps
<1> QED
  BY <1>1, <1>5, <1>6

LEMMA InvInit == Init => Inv
<1> SUFFICES ASSUME Init PROVE Inv
  OBVIOUS
<1>1. /\ stream = <<>> /\ low = 1 /\ index = NoIndex
      /\ worker = [turn |-> 0, stage |-> "idle", owed |-> 0] /\ db = {} /\ sock = Closed
      /\ client = [last |-> 0, page |-> {}, seen |-> {}, resync |-> FALSE,
                   refresh |-> FALSE, error |-> FALSE]
      /\ promise = NoPromise /\ troubles = 0
  BY DEF Init
<1>2. worker \in Worker /\ client \in Client
  BY <1>1 DEF Worker, Stages, Client
<1>3. TypeInv
  BY SMT, <1>1, <1>2, NoneTypes DEF TypeInv
<1>4. WorkerInv
  BY SMT, <1>1 DEF WorkerInv, NoIndex, NoTurn, Sound, Within
<1>5. FeedInv /\ HandlerInv /\ AskInv /\ PromiseInv
  BY SMTT(30), <1>1 DEF FeedInv, HandlerInv, AskInv, PromiseInv, Closed, NoPromise
<1> QED
  BY <1>3, <1>4, <1>5 DEF Inv

LEMMA AskNext ==
  ASSUME Inv, [Next]_vars
  PROVE  AskInv'
<1>0. AskInv /\ sock \in Socket
  BY DEF Inv, TypeInv
<1>1. CASE sock' = sock
  BY <1>0, <1>1 DEF AskInv
<1>2. ASSUME NEW t, NEW kind, Publish(t, kind) PROVE AskInv'
  BY <1>0, <1>2 DEF Publish, AskInv, Socket
<1>3. CASE Connect \/ Disconnect
  <2>1. CASE Connect
    <3>1. sock'.up
      BY <2>1 DEF Connect, Closed
    <3> QED
      BY <3>1 DEF AskInv
  <2>2. CASE Disconnect
    BY <2>2 DEF Disconnect, Closed, AskInv
  <2> QED
    BY <1>3, <2>1, <2>2
<1>4. CASE Recover
  BY <1>0, <1>4 DEF Recover, AskInv, Socket
<1>5. CASE Deliver \/ HubSkips \/ Lagged \/ Lag \/ ReadIndex \/ ReadLatest \/ JoinHub
  <2>1. sock'.asks = sock.asks /\ sock'.up = sock.up
    BY <1>0, <1>5 DEF Deliver, HubSkips, Lagged, Lag, ReadIndex, ReadLatest, JoinHub, Socket
  <2> QED
    BY <1>0, <2>1 DEF AskInv
<1>6. CASE ReadConversation
  <2>1. sock'.up = sock.up /\ sock.up
    BY <1>0, <1>6 DEF ReadConversation, AskInv, Socket
  <2> QED
    BY <2>1 DEF AskInv
<1>7. CASE Replay \/ SubscribeFails
  <2>1. Handled.asks = sock.asks /\ Handled.up = sock.up /\ Handled \in Socket
    BY <1>0, HandledType DEF Handled, Socket
  <2>2. sock' = Handled \/ \E x : sock' = [Handled EXCEPT !.sent = x]
    BY <1>7, ReplayCases DEF SubscribeFails, Answers, Inv
  <2>3. sock'.asks = sock.asks /\ sock'.up = sock.up
    BY <2>1, <2>2 DEF Socket
  <2> QED
    BY SMT, <1>0, <2>3 DEF AskInv
<1> QED
  BY <1>1, <1>2, <1>3, <1>4, <1>5, <1>6, <1>7
     DEF Next, Serve, vars, StartTurn, PublishDelta, CommitTurn, PublishEnd, PublishTitle,
         PublishOther, UpdateIndex, LoseTurn, ExpireEvent, ExpireIndex, Refresh

LEMMA InvNext ==
  ASSUME Inv, [Next]_vars
  PROVE  Inv'
<1>0. /\ TypeInv /\ WorkerInv /\ FeedInv /\ HandlerInv /\ PromiseInv /\ sock \in Socket
  BY DEF Inv, TypeInv
<1>t. TypeInv'
  BY TypeNext
<1> SUFFICES WorkerInv' /\ FeedInv' /\ HandlerInv' /\ PromiseInv'
  BY <1>t, AskNext DEF Inv
<1>w. worker.turn \in Nat
  BY DEF Inv, TypeInv, Worker
<1>1. CASE StartTurn
  BY SMT, <1>1, <1>w, WorkerPublishes, PublishKeeps DEF StartTurn, Kinds
<1>2. CASE PublishDelta
  BY <1>2, <1>w, WorkerPublishes, PublishKeeps DEF PublishDelta, Kinds
<1>4. CASE PublishEnd
  BY <1>4, <1>w, WorkerPublishes, PublishKeeps DEF PublishEnd, Kinds
<1>5. CASE PublishTitle
  BY <1>5, WorkerPublishes, PublishKeeps DEF PublishTitle, Kinds
<1>6. CASE PublishOther
  BY <1>6, WorkerPublishes, PublishKeeps DEF PublishOther, Kinds
<1>3. CASE CommitTurn \/ UpdateIndex \/ LoseTurn \/ ExpireIndex \/ ExpireEvent
  <2>1. UNCHANGED <<stream, sock, promise>>
    BY <1>3 DEF CommitTurn, UpdateIndex, LoseTurn, ExpireIndex, ExpireEvent
  <2>2. WorkerInv'
    <3>1. CASE UpdateIndex
      BY <1>0, <3>1, UpdateIndexKeeps
    <3>2. CASE CommitTurn \/ LoseTurn
      <4>1. /\ index' = index /\ stream' = stream /\ worker'.turn = worker.turn
            /\ worker'.stage # "idle" /\ worker'.owed = 0 /\ worker.turn # 0
        BY <1>0, <3>2 DEF CommitTurn, LoseTurn, WorkerInv, TypeInv, Worker
      <4> QED
        BY <1>0, <4>1 DEF WorkerInv, Sound, Within
    <3>3. CASE ExpireIndex
      <4>1. index' = NoIndex /\ stream' = stream /\ worker' = worker
        BY <3>3 DEF ExpireIndex
      <4>2. /\ NoIndex.cur.turn = 0 /\ NoIndex.cur.start = 0 /\ NoIndex.cur.end = 0
            /\ NoIndex.prev.turn = 0
        BY DEF NoIndex, NoTurn
      <4>3. Len(stream) \in Nat /\ worker.owed \in Nat
        BY SMT, <1>0 DEF TypeInv, Worker
      <4> QED
        BY SMTT(30), <1>0, <1>w, <4>1, <4>2, <4>3 DEF WorkerInv, Sound, Within
    <3>4. CASE ExpireEvent
      BY <1>0, <3>4, WorkerStable DEF ExpireEvent
    <3> QED
      BY <1>3, <3>1, <3>2, <3>3, <3>4
  <2> QED
    BY <1>0, <2>1, <2>2, FeedStable, SocketStable
<1>7. CASE Deliver \/ HubSkips
  BY <1>0, <1>7, DeliverKeeps, WorkerStable DEF Deliver, HubSkips, busVars
<1>8. CASE Lag
  BY <1>0, <1>8, LagKeeps, WorkerStable DEF Lag, busVars
<1>9. CASE Lagged
  BY <1>0, <1>9, LaggedKeeps, WorkerStable DEF Lagged, busVars
<1>10. CASE JoinHub
  BY <1>0, <1>10, JoinHubKeeps, WorkerStable DEF JoinHub, busVars
<1>11. CASE ReadIndex \/ ReadLatest
  BY <1>0, <1>11, ReadIndexKeeps, WorkerStable DEF ReadIndex, ReadLatest, busVars
<1>12. CASE Replay
  BY <1>12, ReplayKeeps
<1>13. CASE Connect
  <2>1. UNCHANGED busVars /\ promise' = promise /\ ~sock.up
    BY <1>13 DEF Connect
  <2>2. sock'.feed = <<>> /\ sock'.pc = "idle"
    BY <1>13 DEF Connect, Closed
  <2>3. ~promise'.made
    BY <1>0, <2>1 DEF PromiseInv
  <2>4. WorkerInv'
    BY <1>0, <2>1, WorkerStable DEF busVars
  <2>5. FeedInv'
    BY SMT, <2>2 DEF FeedInv
  <2>6. HandlerInv' /\ PromiseInv'
    BY <2>2, <2>3 DEF HandlerInv, PromiseInv
  <2> QED
    BY <2>4, <2>5, <2>6
<1>14. CASE Disconnect
  <2>1. UNCHANGED busVars /\ promise' = NoPromise /\ sock' = Closed
    BY <1>14 DEF Disconnect
  <2>2. sock'.feed = <<>> /\ sock'.pc = "idle" /\ ~promise'.made
    BY <2>1 DEF Closed, NoPromise
  <2>3. WorkerInv'
    BY <1>0, <2>1, WorkerStable DEF busVars
  <2>4. FeedInv'
    BY SMT, <2>2 DEF FeedInv
  <2>5. HandlerInv'
    BY <2>2 DEF HandlerInv
  <2>6. PromiseInv'
    BY <2>2 DEF PromiseInv
  <2> QED
    BY <2>3, <2>4, <2>5, <2>6
<1>15. CASE Refresh \/ Recover
  <2>1. UNCHANGED busVars /\ promise' = promise
    BY <1>15 DEF Refresh, Recover
  <2>2. /\ sock'.up = sock.up /\ sock'.sub = sock.sub /\ sock'.feed = sock.feed
        /\ sock'.sent = sock.sent /\ sock'.pc = sock.pc /\ sock'.idx = sock.idx
        /\ sock'.latest = sock.latest
    BY <1>0, <1>15 DEF Refresh, Recover, Socket
  <2> QED
    BY SMTT(30), <1>0, <2>1, <2>2, WorkerStable, FeedStable, SocketStable DEF busVars
<1>16. CASE ReadConversation
  <2>1. /\ UNCHANGED busVars /\ promise' = NoPromise
        /\ sock' = [sock EXCEPT !.asks = Tail(@), !.ask = Head(sock.asks), !.pc = "hub",
                                !.has = db]
    BY <1>16 DEF ReadConversation
  <2>2. sock'.feed = sock.feed /\ sock'.pc = "hub" /\ sock'.up = sock.up /\ sock.up
    <3>1. sock.up
      BY <1>16 DEF ReadConversation, AskInv, Inv
    <3> QED
      BY <1>0, <2>1, <3>1 DEF Socket
  <2> QED
    BY <1>0, <2>1, <2>2, WorkerStable, FeedStable
       DEF busVars, HandlerInv, PromiseInv, NoPromise
<1>17. CASE SubscribeFails
  <2>1. UNCHANGED busVars /\ promise' = NoPromise /\ sock' = Handled
    BY <1>17 DEF SubscribeFails
  <2> QED
    BY <1>0, <2>1, HandledType, WorkerStable, FeedStable
       DEF busVars, HandlerInv, PromiseInv, NoPromise
<1>18. CASE UNCHANGED vars
  BY SMT, <1>0, <1>18, WorkerStable, FeedStable, SocketStable DEF vars, busVars
<1> QED
  BY <1>1, <1>2, <1>3, <1>4, <1>5, <1>6, <1>7, <1>8, <1>9, <1>10, <1>11, <1>12, <1>13,
     <1>14, <1>15, <1>16, <1>17, <1>18 DEF Next, Serve

\* Only the hub moves the last event of a browser that is subscribed, past all
\* that it has got.
LEMMA InOrderNext ==
  ASSUME Inv, [Next]_vars
  PROVE  InOrder
<1> SUFFICES ASSUME promise.made, client'.last # client.last, client'.last # 0
             PROVE  \A q \in promise.got : q < client'.last
  BY DEF InOrder
<1>0. TypeInv /\ FeedInv /\ HandlerInv /\ PromiseInv /\ client \in Client
  BY DEF Inv, TypeInv
<1>1. sock.pc = "idle"
  BY <1>0 DEF HandlerInv
<1>2. client' # client
  OBVIOUS
<1>3. CASE Deliver
  <2>1. sock.feed # <<>> /\ Head(sock.feed) # 0 /\ sock.feed \in Seq(Nat) /\ sock.sent \in Nat
    BY <1>0, <1>3, SocketFields DEF Deliver, TypeInv
  <2>2. Head(sock.feed) = sock.feed[1] /\ 1 \in DOMAIN sock.feed /\ Head(sock.feed) \in Nat
    BY SMT, <2>1
  <2>3. Head(sock.feed) \in 1..Len(stream)
    BY SMT, <1>0, <2>1, <2>2 DEF FeedInv, TypeInv
  <2>4. Head(sock.feed) > sock.sent /\ client' = Applied(client, Head(sock.feed))
    BY <1>2, <1>3 DEF Deliver
  <2>5. client'.last = Head(sock.feed)
    BY <1>0, <2>3, <2>4, AppliedType
  <2>6. \A q \in promise.got : q \in Nat /\ q <= sock.sent
    BY <1>0 DEF PromiseInv, TypeInv, Promise
  <2> QED
    BY SMT, <2>1, <2>2, <2>4, <2>5, <2>6
<1>4. CASE Lagged
  BY <1>0, <1>4, ForgetType DEF Lagged
<1>5. CASE Connect \/ Refresh \/ Recover \/ SubscribeFails
  <2>1. client'.last = client.last
    BY <1>0, <1>5 DEF Connect, Refresh, Recover, SubscribeFails, Client
  <2> QED
    BY <2>1
<1>6. CASE Replay
  BY <1>1, <1>6 DEF Replay
<1> QED
  BY <1>2, <1>3, <1>4, <1>5, <1>6
     DEF Next, Serve, vars, StartTurn, PublishDelta, CommitTurn, PublishEnd, PublishTitle,
         PublishOther, UpdateIndex, LoseTurn, ExpireEvent, ExpireIndex, Disconnect,
         ReadConversation, JoinHub, ReadIndex, ReadLatest, HubSkips, Lag

\* The places of an event are accounted for, from the worker to the browser.
THEOREM EventsAccountedFor == Spec => []Inv
<1>1. Inv /\ [Next]_vars => Inv'
  BY InvNext
<1> QED
  BY <1>1, InvInit, PTL DEF Spec

\* Once the server has answered Subscribed, the replay and the live feed bring
\* the browser every later event of the conversation that replay_events and the
\* task behind the hub can get hold of, each once and in order, or a resync is
\* on its way: whatever the worker, the index, the stream, the hub and the socket
\* do between the steps of handle_client_message.  An event is missing without a
\* resync only if replay_events passed over it, because it had expired or was not
\* read, or the hub's task did, because it was not received or decoded.
THEOREM ReplayMeetsFeed == Spec => NoSilentGap
<1>1. Inv => NoGap
  BY DEF Inv, PromiseInv, NoGap, Due, Sent, InFeed
<1>2. Inv /\ [Next]_vars => InOrder
  BY InOrderNext
<1>3. Inv /\ [Next]_vars => [InOrder]_vars
  BY <1>2
<1> QED
  BY <1>1, <1>3, EventsAccountedFor, PTL DEF Spec, NoSilentGap
=============================================================================
