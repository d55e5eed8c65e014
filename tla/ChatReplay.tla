----------------------------- MODULE ChatReplay -----------------------------
(***************************************************************************)
(* How the events of one conversation reach one browser: the publisher in  *)
(* the chat-worker (event first, then the replay index), the CHAT_EVENTS   *)
(* stream and the CHAT_REPLAY index, the websocket loop of the             *)
(* realtime-service and the useChatSocket hook.  Every await of            *)
(* handle_client_message is a step; the loop serves one thing at a time,   *)
(* so nothing is sent from the live feed while a subscription is handled.  *)
(*                                                                         *)
(* An event is its sequence in the stream, which all conversations share.  *)
(* What reaches the outbound queue of an open socket reaches the browser.  *)
(* Turns run one after the other, as the conversation lock has it.  A      *)
(* fetch of the conversation is one step, taken when its answer arrives.   *)
(***************************************************************************)
EXTENDS Naturals, Sequences, FiniteSets

CONSTANTS
  Turns,       \* bound: turns of the conversation, 1..Turns
  MaxExtras,   \* bound: events other than the start and the end of a turn
  MaxBacklog,  \* bound: events a shared hub has still to pass on
  MaxTroubles  \* bound: faults, losses and expiries

ASSUME ReplayAssumption ==
  Turns \in Nat /\ MaxExtras \in Nat /\ MaxBacklog \in Nat /\ MaxTroubles \in Nat

VARIABLES
  stream,   \* CHAT_EVENTS
  low,      \* the oldest sequence still there
  index,    \* the conversation's entry in CHAT_REPLAY
  worker,   \* the publisher
  db,       \* turns committed to Postgres
  sock,     \* the websocket loop of the realtime-service
  client,   \* useChatSocket
  promise,  \* history: what the server owes since it answered Subscribed
  troubles

busVars == <<stream, low, index, worker, db>>
vars == <<busVars, sock, client, promise, troubles>>

------------------------------------------------------------------------------
Kinds == {"started", "delta", "end", "title", "other"}

NoTurn == [turn |-> 0, start |-> 0, end |-> 0]
NoIndex == [there |-> FALSE, cur |-> NoTurn, prev |-> NoTurn]

\* feed: what the hub passes on to this socket, 0 where it lagged; sent: the
\* conversation's entry in last_sent_sequences; asks: the last_event_id of each
\* subscription that waits in the socket, ask: of the one being handled.
Closed == [up |-> FALSE, sub |-> FALSE, feed |-> <<>>, sent |-> 0, pc |-> "idle",
           asks |-> <<>>, ask |-> 0, has |-> {}, idx |-> NoIndex, latest |-> 0]
NoPromise == [made |-> FALSE, base |-> 0, from |-> 0, idx |-> NoIndex, got |-> {},
              passed |-> {}]

Spend == troubles < MaxTroubles /\ troubles' = troubles + 1

Init ==
  /\ stream = <<>> /\ low = 1 /\ index = NoIndex
  /\ worker = [turn |-> 0, stage |-> "idle", owed |-> 0]
  /\ db = {}
  /\ sock = Closed
  /\ client = [last |-> 0, page |-> {}, seen |-> {}, resync |-> FALSE,
               refresh |-> FALSE, error |-> FALSE]
  /\ promise = NoPromise
  /\ troubles = 0

------------------------------------------------------------------------------
(***************************************************************************)
(* The publisher                                                           *)
(***************************************************************************)
Of(kinds) == {p \in DOMAIN stream : stream[p].kind \in kinds}
Extra == Cardinality(Of({"delta", "title", "other"})) < MaxExtras

\* subscribe_conversation_events: the conversation's consumer hands on, in
\* order, the events stored from position `first' on, and passes over those of
\* others (and, in HubSkips, those it cannot read).
Relayed(feed, first) ==
  /\ {feed[i] : i \in DOMAIN feed} = {p \in first..Len(stream) : stream[p].turn # 0}
  /\ \A i, j \in DOMAIN feed : i < j => feed[i] < feed[j]

\* send_publish: the stream stores the event and every hub will hear of it.
Publish(t, kind) ==
  /\ stream' = Append(stream, [turn |-> t, kind |-> kind])
  /\ sock' = IF sock.sub /\ t # 0 THEN [sock EXCEPT !.feed = Append(@, Len(stream) + 1)]
             ELSE sock

StartTurn ==
  /\ worker.stage = "idle" /\ worker.turn < Turns
  /\ Publish(worker.turn + 1, "started")
  /\ worker' = [turn |-> worker.turn + 1, stage |-> "running", owed |-> Len(stream) + 1]
  /\ UNCHANGED <<low, index, db, client, promise, troubles>>

PublishDelta ==
  /\ worker.stage = "running" /\ worker.owed = 0 /\ Extra
  /\ Publish(worker.turn, "delta")
  /\ UNCHANGED <<low, index, worker, db, client, promise, troubles>>

\* commit_turn or commit_interrupted_turn, before the turn-ending event.
CommitTurn ==
  /\ worker.stage = "running" /\ worker.owed = 0
  /\ db' = db \cup {worker.turn}
  /\ worker' = [worker EXCEPT !.stage = "committed"]
  /\ UNCHANGED <<stream, low, index, sock, client, promise, troubles>>

\* Finish, Interrupted or Clear: by the owner, or by a redelivery that finds
\* the turn given up.
PublishEnd ==
  /\ worker.stage \in {"running", "committed", "lost"} /\ worker.owed = 0
  /\ Publish(worker.turn, "end")
  /\ worker' = [worker EXCEPT !.stage = "ended", !.owed = Len(stream) + 1]
  /\ UNCHANGED <<low, index, db, client, promise, troubles>>

\* The title task of the first turn publishes when it is done.
PublishTitle ==
  /\ 1 \in db /\ Of({"title"}) = {} /\ Extra
  /\ worker.turn > 1 \/ (worker.stage \in {"ended", "idle"} /\ worker.owed = 0)
  /\ Publish(1, "title")
  /\ UNCHANGED <<low, index, worker, db, client, promise, troubles>>

PublishOther ==
  /\ Extra
  /\ Publish(0, "other")
  /\ UNCHANGED <<low, index, worker, db, client, promise, troubles>>

\* apply_replay_event
ApplyReplayEvent(i, p) ==
  LET t == stream[p].turn IN
  CASE stream[p].kind = "started" /\ i.cur.turn # t ->
         [there |-> TRUE, prev |-> i.cur, cur |-> [turn |-> t, start |-> p, end |-> 0]]
    [] stream[p].kind = "end" /\ i.cur.turn = t ->
         [i EXCEPT !.there = TRUE, !.cur.end = p]
    [] stream[p].kind = "end" /\ i.cur.turn # t /\ i.prev.turn = t ->
         [i EXCEPT !.there = TRUE, !.prev.end = p]
    [] OTHER -> [i EXCEPT !.there = TRUE]

\* update_replay_for_event, after the event is in the stream.
UpdateIndex ==
  /\ worker.owed # 0
  /\ index' = ApplyReplayEvent(index, worker.owed)
  /\ worker' = [worker EXCEPT !.owed = 0,
                              !.stage = IF @ = "ended" THEN "idle" ELSE @]
  /\ UNCHANGED <<stream, low, db, sock, client, promise, troubles>>

\* The worker dies or the index update fails: the turn is given up, and a
\* redelivery will end it (again).
LoseTurn ==
  /\ worker.stage \in {"running", "committed", "ended"}
  /\ worker' = [worker EXCEPT !.stage = "lost", !.owed = 0]
  /\ Spend
  /\ UNCHANGED <<stream, low, index, db, sock, client, promise>>

\* max_age of the stream, and of the index bucket.
ExpireEvent ==
  /\ low <= Len(stream)
  /\ low' = low + 1
  /\ Spend
  /\ UNCHANGED <<stream, index, worker, db, sock, client, promise>>

ExpireIndex ==
  /\ index # NoIndex
  /\ index' = NoIndex
  /\ Spend
  /\ UNCHANGED <<stream, low, worker, db, sock, client, promise>>

------------------------------------------------------------------------------
(***************************************************************************)
(* The browser                                                             *)
(***************************************************************************)

\* The socket opens; the hook subscribes with the last event it has seen,
\* unless a recovery is under way and will do so.
Connect ==
  /\ ~sock.up
  /\ sock' = [Closed EXCEPT !.up = TRUE,
                           !.asks = IF client.resync THEN <<>> ELSE <<client.last>>]
  /\ client' = [client EXCEPT !.error = FALSE]
  /\ UNCHANGED <<busVars, promise, troubles>>

\* The connection is lost, or the server gives up on a slow client.
Disconnect ==
  /\ sock.up
  /\ sock' = Closed
  /\ promise' = NoPromise
  /\ Spend
  /\ UNCHANGED <<busVars, client>>

\* onTerminalRefresh: the conversation is fetched again after a turn ended.
Refresh ==
  /\ client.refresh
  /\ client' = [client EXCEPT !.refresh = FALSE, !.page = db]
  /\ UNCHANGED <<busVars, sock, promise, troubles>>

\* runResync and finishRecovery: fetch, then subscribe again.
Recover ==
  /\ client.resync
  /\ client' = [client EXCEPT !.resync = FALSE, !.page = db]
  /\ sock' = IF sock.up THEN [sock EXCEPT !.asks = Append(@, client.last)] ELSE sock
  /\ UNCHANGED <<busVars, promise, troubles>>

Shown(S) == {stream[p].turn : p \in {q \in S : stream[q].kind # "title"}}

\* Slip: the end of a turn does not refresh the conversation.
AppliedUnrefreshed(c, p) ==
  [c EXCEPT !.last = p, !.seen = @ \cup Shown({p})]

\* handleMessage and applyEvent, for an event.
Applied(c, p) ==
  [c EXCEPT !.last = p, !.seen = @ \cup Shown({p}),
            !.refresh = @ \/ stream[p].kind = "end",
            !.error = @ /\ stream[p].kind # "started"]

\* handleMessage, for resync_required.
Forget(c) == [c EXCEPT !.last = 0, !.resync = TRUE]

------------------------------------------------------------------------------
(***************************************************************************)
(* The websocket loop                                                      *)
(***************************************************************************)

\* Slip: events that a replay has already sent are sent again.
DeliverAgain ==
  /\ sock.pc = "idle" /\ sock.feed # <<>> /\ Head(sock.feed) # 0
  /\ LET p == Head(sock.feed) IN
     /\ sock' = [sock EXCEPT !.feed = Tail(@), !.sent = p]
     /\ client' = Applied(client, p)
     /\ promise' = [promise EXCEPT !.got = @ \cup {p}]
  /\ UNCHANGED <<busVars, troubles>>

\* An event from the hub, unless it was sent before.
Deliver ==
  /\ sock.pc = "idle" /\ sock.feed # <<>> /\ Head(sock.feed) # 0
  /\ LET p == Head(sock.feed) IN
     \/ /\ p <= sock.sent
        /\ sock' = [sock EXCEPT !.feed = Tail(@)]
        /\ UNCHANGED <<client, promise>>
     \/ /\ p > sock.sent
        /\ sock' = [sock EXCEPT !.feed = Tail(@), !.sent = p]
        /\ client' = Applied(client, p)
        /\ promise' = [promise EXCEPT !.got = @ \cup {p}]
  /\ UNCHANGED <<busVars, troubles>>

\* The task of subscribe_conversation_events: a receive error, a message without
\* its metadata and a payload that does not decode are warnings, and the event is
\* not passed on.  When the task has ended the hub stays, since each of its
\* sockets holds it with its sender, and all later events are passed over.  The
\* loop hears of neither, so it is shown where it would have met the event.
HubSkips ==
  /\ sock.pc = "idle" /\ sock.feed # <<>> /\ Head(sock.feed) # 0
  /\ sock' = [sock EXCEPT !.feed = Tail(@)]
  /\ promise' = [promise EXCEPT !.passed = @ \cup {Head(sock.feed)}]
  /\ Spend
  /\ UNCHANGED <<busVars, client>>

\* The broadcast channel dropped an event before this socket read it; two that
\* are dropped in a row are answered like one.
Lag ==
  /\ \E i \in DOMAIN sock.feed :
       sock.feed[i] # 0 /\ sock' = [sock EXCEPT !.feed[i] = 0]
  /\ Spend
  /\ UNCHANGED <<busVars, client, promise>>

\* SocketEvent::Lagged
Lagged ==
  /\ sock.pc = "idle" /\ sock.feed # <<>> /\ Head(sock.feed) = 0
  /\ sock' = [sock EXCEPT !.feed = Tail(@), !.sent = 0]
  /\ client' = Forget(client)
  /\ promise' = NoPromise
  /\ UNCHANGED <<busVars, troubles>>

\* SubscribeConversation: get_conversation...
ReadConversation ==
  /\ sock.asks # <<>> /\ sock.pc = "idle"
  /\ sock' = [sock EXCEPT !.asks = Tail(@), !.ask = Head(sock.asks), !.pc = "hub", !.has = db]
  /\ promise' = NoPromise
  /\ UNCHANGED <<busVars, client, troubles>>

\* ...subscribe_socket_to_conversation, once per socket.  A hub that other
\* sockets share may still have earlier events under way...
JoinHub ==
  /\ sock.pc = "hub"
  /\ \/ /\ sock.sub
        /\ sock' = [sock EXCEPT !.pc = "index"]
     \/ /\ ~sock.sub
        /\ \E first \in 1..Len(stream) + 1, n \in 0..MaxBacklog :
             \E feed \in [1..n -> first..Len(stream)] :
               /\ Relayed(feed, first)
               /\ sock' = [sock EXCEPT !.pc = "index", !.sub = TRUE, !.feed = feed]
  /\ promise' = [promise EXCEPT !.from = Len(stream)]
  /\ UNCHANGED <<busVars, client, troubles>>

\* ...load_replay_index...
ReadIndex ==
  /\ sock.pc = "index"
  /\ sock' = [sock EXCEPT !.pc = "latest", !.idx = index]
  /\ UNCHANGED <<busVars, client, promise, troubles>>

LatestEventSequence == Len(stream)

ReadLatest ==
  /\ sock.pc = "latest"
  /\ sock' = [sock EXCEPT !.pc = "plan", !.latest = LatestEventSequence]
  /\ UNCHANGED <<busVars, client, promise, troubles>>

EndOf(turn, latest) == IF turn.end = 0 THEN latest ELSE turn.end

\* turn_contains_sequence
Contains(turn, p, latest) == turn.turn # 0 /\ turn.start <= p /\ p <= EndOf(turn, latest)

Nothing(last) == [verdict |-> "nothing", first |-> 1, end |-> 0, last |-> last,
                  needFirst |-> 0, needEnd |-> 0]
Resync == [Nothing(0) EXCEPT !.verdict = "resync"]
Range(first, turn, latest, last, needFirst) ==
  [verdict |-> "replay", first |-> first, end |-> EndOf(turn, latest), last |-> last,
   needFirst |-> needFirst, needEnd |-> turn.end]

\* build_replay_plan and replay_range: a client that names the current or the
\* previous turn of the index is brought to the end of the current one.
Plan(ask, i, has, latest) ==
  CASE ~i.there -> IF ask = 0 THEN Nothing(0) ELSE Resync
    [] i.there /\ ask = 0 ->
         IF i.cur.turn = 0 \/ i.cur.end # 0 \/ i.cur.turn \in has THEN Nothing(0)
         ELSE Range(i.cur.start, i.cur, latest, 0, i.cur.start)
    [] i.there /\ ask # 0 /\ (Contains(i.cur, ask, latest) \/ Contains(i.prev, ask, latest)) ->
         IF ask >= EndOf(i.cur, latest) THEN Nothing(ask)
         ELSE Range(ask + 1, i.cur, latest, ask, 0)
    [] OTHER -> Resync

\* replay_events: the conversation's events of the range, and those of them that
\* have not expired.  A message that is not there or cannot be read is passed over.
Asked(r) == {p \in r.first..r.end : p \in 1..Len(stream) /\ stream[p].turn # 0}
Readable(r) == {p \in Asked(r) : p >= low}

\* replay_is_incomplete: the ends of the range that are known must be there.
Incomplete(r, S) == ~({r.needFirst, r.needEnd} \ {0} \subseteq S)

\* What is sent last: the greatest sequence of S, or the client's own when S is empty.
Newest(S, last) == IF S = {} THEN {last} ELSE {p \in S : \A q \in S : q <= p}

\* The handler returns to the loop.
Handled == [sock EXCEPT !.pc = "idle", !.ask = 0, !.has = {}, !.idx = NoIndex, !.latest = 0]

\* The rest of handle_client_message: Subscribed and the replay, or a resync.
Replay ==
  /\ sock.pc = "plan"
  /\ LET r == Plan(sock.ask, sock.idx, sock.has, sock.latest) IN
     \E unread \in SUBSET Readable(r) :
       LET S == Readable(r) \ unread
           resync == r.verdict = "resync" \/ (r.verdict = "replay" /\ Incomplete(r, S))
       IN
       /\ IF unread = {} THEN UNCHANGED troubles ELSE Cardinality(unread) = 1 /\ Spend
       /\ \/ /\ resync
             /\ sock' = Handled
             /\ client' = Forget(client)
             /\ promise' = NoPromise
          \/ /\ ~resync
             /\ \E newest \in Newest(S, r.last) :
                  /\ sock' = [Handled EXCEPT !.sent = newest]
                  /\ client' = IF S = {} THEN client
                               ELSE [Applied(client, newest) EXCEPT
                                       !.seen = @ \cup Shown(S),
                                       !.refresh = @ \/ \E p \in S : stream[p].kind = "end"]
             /\ promise' = [promise EXCEPT
                  !.made = TRUE, !.idx = sock.idx, !.got = S, !.passed = Asked(r) \ S,
                  !.base = IF sock.ask # 0 THEN sock.ask
                           ELSE IF r.verdict = "replay" THEN r.first - 1 ELSE sock.latest]
  /\ UNCHANGED busVars

\* A call of the handler fails: the client is told with an error message.
SubscribeFails ==
  /\ sock.pc \in {"hub", "index", "latest", "plan"}
  /\ sock' = Handled
  /\ client' = [client EXCEPT !.error = TRUE]
  /\ promise' = NoPromise
  /\ Spend
  /\ UNCHANGED busVars

------------------------------------------------------------------------------
Serve == \/ Deliver \/ Lagged \/ ReadConversation \/ JoinHub \/ ReadIndex
         \/ ReadLatest \/ Replay

Next ==
  \/ StartTurn \/ PublishDelta \/ CommitTurn \/ PublishEnd \/ PublishTitle
  \/ PublishOther \/ UpdateIndex
  \/ LoseTurn \/ ExpireEvent \/ ExpireIndex
  \/ Connect \/ Disconnect \/ Refresh \/ Recover
  \/ Serve \/ HubSkips \/ Lag \/ SubscribeFails

Spec == Init /\ [][Next]_vars

------------------------------------------------------------------------------
(***************************************************************************)
(* Properties                                                              *)
(***************************************************************************)
\* What the index read for a subscription knew of.
Indexed(p) ==
  \E t \in {promise.idx.cur, promise.idx.prev} :
    t.turn = stream[p].turn /\ t.turn # 0 /\ (t.end = 0 \/ p <= t.end)

\* Every event after the last one the browser had was sent, is in the feed, or is
\* one that the replay or the hub could not get hold of.
NoGap ==
  promise.made =>
    \A p \in promise.base + 1..Len(stream) :
      stream[p].turn # 0 /\ (p > promise.from \/ Indexed(p)) =>
        \/ p \in promise.got \cup promise.passed
        \/ \E i \in DOMAIN sock.feed : sock.feed[i] \in {0, p}

\* What the hub passes on after a replay is newer than all that was sent.
InOrder ==
  promise.made /\ client'.last # client.last =>
    client'.last = 0 \/ \A p \in promise.got : p < client'.last

\* Once the server has answered Subscribed, the browser gets every later event
\* of the conversation: all that come after the socket joined the hub, and
\* before that those of the turns in the index.  The replay and the live feed
\* leave no hole between them, or a resync is on its way.  Holes come from two
\* places alone, and neither is followed by a resync: the `continue' of
\* replay_events for a message of its range that has expired or cannot be read,
\* where it is not an end that replay_is_incomplete asks for, and the task
\* behind the hub, which passes over what it cannot receive or decode.  Nor do
\* the replay and the feed overlap: though the feed holds what the replay has
\* sent, each event reaches the browser once and after all the earlier ones of
\* that subscription.
NoSilentGap == []NoGap /\ [][InOrder]_vars

\* Nothing is left to do: no event, answer, fetch or subscription is under way.
Quiet ==
  /\ worker.stage = "idle" /\ worker.owed = 0
  /\ sock.up /\ sock.pc = "idle" /\ sock.asks = <<>> /\ sock.feed = <<>>
  /\ ~client.refresh /\ ~client.resync

\* When everything has come to rest, each committed turn of which the browser
\* has seen an event (but the title) is on its page, through any one loss, lag,
\* expiry or failure: either the end of the turn arrived, or a resync did.  An
\* event that is in the stream and that replay_events or the hub could not read
\* is passed over without either.
PageSettles ==
  Quiet /\ ~client.error /\ (\A p \in promise.passed : p < low) =>
    client.seen \cap db \subseteq client.page
=============================================================================
