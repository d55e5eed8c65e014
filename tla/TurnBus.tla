------------------------------- MODULE TurnBus -------------------------------
(***************************************************************************)
(* Chat turns of the superseded backend (old/backend/src/chat): one        *)
(* process, one conversation.  A POST claims the conversation's session    *)
(* (single flight) and spawns a worker that streams frames into it; a tab  *)
(* reads the session through a cursor and may come back with the cursor of *)
(* the last frame it got.  A session lives while a reader stream or the    *)
(* worker's handle owns it; the next one gets a fresh cursor generation.   *)
(*                                                                         *)
(* A frame is [t, k, kind, id]: the k-th frame of turn t (a title has      *)
(* k = 0); id is set on a finish that names the persisted reply.           *)
(* Session pushes a frame under its lock and wakes the readers after it:   *)
(* in between the writer is in the session's `owed'.                       *)
(* Cursor (gen, seq) packs to gen * Width + seq, as gen << 32 | seq does.  *)
(***************************************************************************)
EXTENDS Integers, Sequences, FiniteSets, SequencesExt

CONSTANTS
  Turns,      \* turn requests 1..n: each is posted once
  MaxExtras,  \* citation and text frames over all turns
  MaxGens,    \* session incarnations
  Width,      \* cursors of one generation (2^32 in the code)
  MaxTroubles \* stops, failures, panics and lost streams

VARIABLES
  mapped,     \* generation the session map points at, 0 for no entry
  gens,       \* generations handed out (next_gen)
  sess,       \* generation -> Inner of that incarnation
  unpruned,   \* generations whose last owner is gone and Drop has not run
  turn,       \* turn -> its POST and worker
  rows,       \* committed turns of the conversation, oldest first
  ever,       \* turns that were ever committed
  titled,     \* the conversation has a title
  tab,        \* the reader stream and the browser behind it
  extras,     \* citation and text frames so far
  troubles    \* stops, failures, panics and lost streams so far

busVars == <<mapped, gens, sess, unpruned, turn, rows, ever, titled, tab,
             extras, troubles>>

Gens == 1..MaxGens
Fresh == -1             \* no cursor: a fresh connect
NoTurn == 0

Trouble == troubles < MaxTroubles /\ troubles' = troubles + 1

Generation(g) == g * Width

NewSession(g) ==
  [frames |-> <<>>, turnCursor |-> Generation(g), next |-> Generation(g),
   running |-> FALSE, cancel |-> FALSE, owed |-> {}]

NewTurn == [pc |-> "new", gen |-> 0, parent |-> NoTurn, hadTitle |-> FALSE,
            texts |-> FALSE, k |-> 0]

NewTab == [on |-> FALSE, gen |-> 0, cursor |-> Fresh, last |-> Fresh,
           pc |-> "parked", seen |-> TRUE, batch |-> <<>>,
           got |-> [t |-> NoTurn, k |-> 0]]

BusInit ==
  /\ mapped = 0
  /\ gens = 0
  /\ sess = [g \in Gens |-> NewSession(g)]
  /\ unpruned = {}
  /\ turn = [t \in Turns |-> NewTurn]
  /\ rows = <<>>
  /\ ever = {}
  /\ titled = FALSE
  /\ tab = NewTab
  /\ extras = 0
  /\ troubles = 0

----------------------------------------------------------------------------
(* The session                                                             *)

WorkerOwns == {"setup", "abort", "stream", "commit", "failed", "finish"}

\* Strong owners of incarnation g: the reader stream, the worker's handle, and
\* whoever has still to wake the readers.
Owned(g) == \/ tab.on /\ tab.gen = g
            \/ \E t \in Turns : turn[t].gen = g /\ turn[t].pc \in WorkerOwns
            \/ sess[g].owed # {}

\* The map entry upgrades.
Alive(g) == g # 0 /\ Owned(g)

\* Writer w appends a frame.
Push(s, w, f) ==
  [s EXCEPT !.frames = Append(@, [c |-> s.next, f |-> f]),
            !.next = @ + 1, !.owed = @ \cup {w}]

Frame(t, k, kind) == [t |-> t, k |-> k, kind |-> kind, id |-> FALSE]

Begin(s, t) ==
  LET kept == SelectSeq(s.frames, LAMBDA e : e.c >= s.turnCursor)
  IN  Push([s EXCEPT !.frames = kept, !.turnCursor = s.next,
                     !.running = TRUE, !.cancel = FALSE],
           t, Frame(t, 1, "user"))

CloseWith(s, t, f) == [Push(s, t, f) EXCEPT !.running = FALSE, !.cancel = FALSE]

\* The resume floor: the oldest frame retained.
Floor(s) == IF s.frames = <<>> THEN s.next ELSE s.frames[1].c

\* Mutant: one frame may be missing between the cursor and the floor.
ResumesLate(s, c) == c + 2 >= Floor(s)

\* A subscriber at cursor c can go on from the buffer.
Resumes(s, c) == c + 1 >= Floor(s)

\* What a subscriber at cursor c has not seen: frames, or resync.
ReadFrom(s, c) ==
  LET from(P(_)) == [resync |-> FALSE, frames |-> SelectSeq(s.frames, P)]
  IN  CASE c = Fresh -> from(LAMBDA e : s.running /\ e.c >= s.turnCursor)
        [] c # Fresh /\ Resumes(s, c) -> from(LAMBDA e : e.c > c)
        [] OTHER -> [resync |-> TRUE, frames |-> <<>>]

\* get_or_create: the live session the map knows, or a new incarnation.
GetOrCreate(g) ==
  IF Alive(mapped)
  THEN g = mapped /\ UNCHANGED <<mapped, gens>>
  ELSE /\ gens < MaxGens
       /\ g = gens + 1
       /\ mapped' = g
       /\ gens' = g

\* An owner of g lets go of it: if it was the last one, Drop is still to run.
Released(g) == unpruned' = IF Owned(g)' THEN unpruned ELSE unpruned \cup {g}

\* notify.send_replace, outside the session's lock; the end of a worker's or an
\* emit's hold on the session.
Wake(g, w) ==
  /\ w \in sess[g].owed
  /\ sess' = [sess EXCEPT ![g].owed = @ \ {w}]
  /\ tab' = IF tab.on /\ tab.gen = g THEN [tab EXCEPT !.seen = FALSE] ELSE tab
  /\ UNCHANGED <<mapped, gens, turn, rows, ever, titled, extras, troubles>>
  /\ Released(g)

\* Mutant: Session::drop removes the entry without looking at it.
PruneAny(g) ==
  /\ g \in unpruned
  /\ unpruned' = unpruned \ {g}
  /\ mapped' = 0
  /\ UNCHANGED <<gens, sess, turn, rows, ever, titled, tab, extras, troubles>>

\* Session::drop prunes the entry only when it does not upgrade, so that a
\* newer incarnation under the same key stays mapped.
Prune(g) ==
  /\ g \in unpruned
  /\ unpruned' = unpruned \ {g}
  /\ mapped' = IF Alive(mapped) THEN mapped ELSE 0
  /\ UNCHANGED <<gens, sess, turn, rows, ever, titled, tab, extras, troubles>>

----------------------------------------------------------------------------
(* POST, stop                                                              *)

Tail_(s) == IF s = <<>> THEN NoTurn ELSE Last(s)

\* post_message up to the parent check: the request names the tail it saw.
CheckParent(t) ==
  /\ turn[t].pc = "new"
  /\ \A u \in Turns : u < t => turn[u].pc # "new"
  /\ turn' = [turn EXCEPT ![t].pc = "checked", ![t].parent = Tail_(rows)]
  /\ UNCHANGED <<mapped, gens, sess, unpruned, rows, ever, titled, tab, extras, troubles>>

\* ... and from try_start on: the slot is taken and the worker spawned, or
\* the request is answered 409 in_flight.
TryStart(t) ==
  /\ turn[t].pc = "checked"
  /\ \E g \in Gens :
       /\ GetOrCreate(g)
       /\ IF sess[g].running
          THEN /\ turn' = [turn EXCEPT ![t].pc = "refused"]
               /\ UNCHANGED sess
          ELSE /\ sess' = [sess EXCEPT ![g] = Begin(@, t)]
               /\ turn' = [turn EXCEPT ![t].pc = "setup", ![t].gen = g, ![t].k = 1]
  /\ UNCHANGED <<unpruned, rows, ever, titled, tab, extras, troubles>>

Stop ==
  /\ Trouble
  /\ Alive(mapped)
  /\ sess[mapped].running /\ ~sess[mapped].cancel
  /\ sess' = [sess EXCEPT ![mapped].cancel = TRUE]
  /\ UNCHANGED <<mapped, gens, unpruned, turn, rows, ever, titled, tab, extras>>

----------------------------------------------------------------------------
(* The worker                                                              *)

\* The worker of t is at pc, and past the wake-up of its last frame.
At(t, pc) == turn[t].pc = pc /\ t \notin sess[turn[t].gen].owed

AppendFrame(t, kind) == [sess EXCEPT ![turn[t].gen] = Push(@, t, Frame(t, turn[t].k + 1, kind))]

\* The worker ends its turn with a clear, or with a finish that names the
\* persisted reply or none.
Terminate(t, kind, id, pc) ==
  /\ sess' = [sess EXCEPT ![turn[t].gen] =
               CloseWith(@, t, [Frame(t, turn[t].k + 1, kind) EXCEPT !.id = id])]
  /\ turn' = [turn EXCEPT ![t].pc = pc, ![t].k = @ + 1]

\* Connection, history, title flag, retrieval (best effort, with or without
\* a citations frame) and the opening of the model's stream.
Setup(t, cited) ==
  /\ At(t, "setup")
  /\ cited => extras < MaxExtras
  /\ extras' = IF cited THEN extras + 1 ELSE extras
  /\ sess' = IF cited THEN AppendFrame(t, "citations") ELSE sess
  /\ turn' = [turn EXCEPT ![t].pc = "stream", ![t].hadTitle = titled,
                          ![t].k = IF cited THEN @ + 1 ELSE @]
  /\ UNCHANGED <<mapped, gens, unpruned, rows, ever, titled, tab, troubles>>

SetupFails(t) ==
  /\ Trouble
  /\ At(t, "setup")
  /\ sess' = AppendFrame(t, "error")
  /\ turn' = [turn EXCEPT ![t].pc = "abort", ![t].k = @ + 1]
  /\ UNCHANGED <<mapped, gens, unpruned, rows, ever, titled, tab, extras>>

Cancelled(t) == sess[turn[t].gen].cancel

\* One turn of the biased select: the cancel token first, then the model.
TextDelta(t) ==
  /\ At(t, "stream") /\ ~Cancelled(t) /\ extras < MaxExtras
  /\ extras' = extras + 1
  /\ sess' = AppendFrame(t, "text")
  /\ turn' = [turn EXCEPT ![t].texts = TRUE, ![t].k = @ + 1]
  /\ UNCHANGED <<mapped, gens, unpruned, rows, ever, titled, tab, troubles>>

StreamEnds(t, failed) ==
  /\ At(t, "stream") /\ ~Cancelled(t)
  /\ IF failed THEN Trouble ELSE UNCHANGED troubles
  /\ sess' = IF failed THEN AppendFrame(t, "error") ELSE sess
  /\ turn' = [turn EXCEPT ![t].pc = "commit", ![t].k = IF failed THEN @ + 1 ELSE @]
  /\ UNCHANGED <<mapped, gens, unpruned, rows, ever, titled, tab, extras>>

\* The turn was cancelled, or could not be set up.
Clear(t) ==
  /\ At(t, "abort") \/ (At(t, "stream") /\ Cancelled(t))
  /\ Terminate(t, "clear", FALSE, "done")
  /\ UNCHANGED <<mapped, gens, unpruned, rows, ever, titled, tab, extras, troubles>>

\* commit_turn: what is newer than the parent goes (everything when there is
\* no parent, or when it is itself gone), the pair is added.
CommitTurn(t) ==
  LET p == SelectInSeq(rows, LAMBDA r : r = turn[t].parent)
  IN  rows' = Append(SubSeq(rows, 1, p), t) /\ ever' = ever \cup {t}

Commit(t) ==
  /\ At(t, "commit")
  /\ CommitTurn(t)
  /\ turn' = [turn EXCEPT ![t].pc = "finish"]
  /\ UNCHANGED <<mapped, gens, sess, unpruned, titled, tab, extras, troubles>>

\* Mutant: a failed commit is taken for a commit that did not happen.
CommitFailsClear(t) ==
  /\ Trouble
  /\ At(t, "commit")
  /\ CommitTurn(t) \/ UNCHANGED <<rows, ever>>
  /\ sess' = AppendFrame(t, "error")
  /\ turn' = [turn EXCEPT ![t].pc = "abort", ![t].k = @ + 1]
  /\ UNCHANGED <<mapped, gens, unpruned, titled, tab, extras>>

\* The call fails, whether or not the transaction went through.
CommitFails(t) ==
  /\ Trouble
  /\ At(t, "commit")
  /\ CommitTurn(t) \/ UNCHANGED <<rows, ever>>
  /\ sess' = AppendFrame(t, "error")
  /\ turn' = [turn EXCEPT ![t].pc = "failed", ![t].k = @ + 1]
  /\ UNCHANGED <<mapped, gens, unpruned, titled, tab, extras>>

\* finish names the reply commit_turn returned; after a failed commit it has the
\* reason "error" and no id.
Finish(t) ==
  /\ \/ /\ At(t, "finish")
        /\ Terminate(t, "finish", TRUE,
                     IF ~turn[t].hadTitle /\ turn[t].texts THEN "title" ELSE "done")
     \/ At(t, "failed") /\ Terminate(t, "finish", FALSE, "done")
  /\ UNCHANGED <<mapped, gens, unpruned, rows, ever, titled, tab, extras, troubles>>

\* The worker unwinds, wherever it is: TurnHandle::drop clears a turn that still
\* runs.  In the commit the transaction may have gone through.
Unwind(t) ==
  /\ Trouble
  /\ \E pc \in WorkerOwns : At(t, pc)
  /\ sess[turn[t].gen].running
  /\ (turn[t].pc = "commit" /\ CommitTurn(t)) \/ UNCHANGED <<rows, ever>>
  /\ Terminate(t, "clear", FALSE,
               IF turn[t].pc \in {"commit", "failed", "finish"} THEN "dropped" ELSE "done")
  /\ UNCHANGED <<mapped, gens, unpruned, titled, tab, extras>>

\* generate_title: an error of the model, or an answer of which clean_title
\* leaves nothing, is no title.
GenerateTitle(answer) == answer \notin {"error", "blank"}

\* The detached title task: rename, then a frame for whoever is subscribed;
\* without a title, or when the rename fails, it ends without either.
Title(t, answer, renamed) ==
  LET named == GenerateTitle(answer) /\ renamed IN
  /\ At(t, "title")
  /\ turn' = [turn EXCEPT ![t].pc = "done"]
  /\ titled' = (titled \/ named)
  /\ sess' = IF named /\ Alive(mapped)
             THEN [sess EXCEPT ![mapped] = Push(@, -t, Frame(t, 0, "title"))]
             ELSE sess
  /\ UNCHANGED <<mapped, gens, unpruned, rows, ever, tab, extras, troubles>>

----------------------------------------------------------------------------
(* The reader stream and the tab behind it                                 *)

\* GET stream with the browser's Last-Event-Id, if it has one.
Subscribe ==
  /\ ~tab.on
  /\ \E g \in Gens :
       /\ GetOrCreate(g)
       /\ tab' = [tab EXCEPT !.on = TRUE, !.gen = g, !.cursor = tab.last,
                             !.pc = "mark", !.seen = TRUE]
  /\ UNCHANGED <<sess, unpruned, turn, rows, ever, titled, extras, troubles>>

\* A version came after the one marked as seen, so changed() returns, or the loop
\* begins: borrow_and_update comes before the slice ...
Mark ==
  /\ tab.on
  /\ tab.pc = "mark" \/ (tab.pc = "parked" /\ ~tab.seen)
  /\ tab' = [tab EXCEPT !.pc = "read", !.seen = TRUE]
  /\ UNCHANGED <<mapped, gens, sess, unpruned, turn, rows, ever, titled, extras, troubles>>

\* ... and read_from after it; a resync makes a fresh subscriber of the tab.
Read ==
  LET r == ReadFrom(sess[tab.gen], tab.cursor)
  IN  /\ tab.on /\ tab.pc = "read"
      /\ tab' = IF r.resync
                THEN [tab EXCEPT !.pc = "mark", !.cursor = Fresh]
                ELSE [tab EXCEPT !.pc = IF r.frames = <<>> THEN "parked" ELSE "yield",
                                 !.batch = r.frames]
      /\ UNCHANGED <<mapped, gens, sess, unpruned, turn, rows, ever, titled, extras, troubles>>

\* Mutant: the version is marked once more when the batch has gone out.
YieldMarks ==
  LET e == Head(tab.batch)
  IN  /\ tab.on /\ tab.pc = "yield"
      /\ tab' = [tab EXCEPT !.cursor = e.c, !.last = e.c, !.batch = Tail(@),
                   !.seen = TRUE,
                   !.pc = IF Len(tab.batch) = 1 THEN "parked" ELSE "yield",
                   !.got = IF e.f.k = 0 THEN @ ELSE [t |-> e.f.t, k |-> e.f.k]]
      /\ UNCHANGED <<mapped, gens, sess, unpruned, turn, rows, ever, titled, extras, troubles>>

\* One frame of the batch goes out with its id line.
Yield ==
  LET e == Head(tab.batch)
  IN  /\ tab.on /\ tab.pc = "yield"
      /\ tab' = [tab EXCEPT !.cursor = e.c, !.last = e.c, !.batch = Tail(@),
                   !.pc = IF Len(tab.batch) = 1 THEN "parked" ELSE "yield",
                   !.got = IF e.f.k = 0 THEN @ ELSE [t |-> e.f.t, k |-> e.f.k]]
      /\ UNCHANGED <<mapped, gens, sess, unpruned, turn, rows, ever, titled, extras, troubles>>

\* The connection is lost, or the page is loaded anew without a cursor.
Disconnect(reload) ==
  /\ Trouble
  /\ tab.on
  /\ tab' = [tab EXCEPT !.on = FALSE, !.batch = <<>>, !.pc = "parked", !.seen = TRUE,
                        !.last = IF reload THEN Fresh ELSE @,
                        !.got = IF reload THEN [t |-> NoTurn, k |-> 0] ELSE @]
  /\ UNCHANGED <<mapped, gens, sess, turn, rows, ever, titled, extras>>
  /\ Released(tab.gen)

----------------------------------------------------------------------------
WorkerStep(t) ==
  \/ \E cited \in BOOLEAN : Setup(t, cited)
  \/ SetupFails(t)
  \/ TextDelta(t)
  \/ \E failed \in BOOLEAN : StreamEnds(t, failed)
  \/ Clear(t)
  \/ Commit(t)
  \/ CommitFails(t)
  \/ Finish(t)

ReaderStep == Mark \/ Read \/ Yield

BusNext ==
  \/ \E g \in Gens : Prune(g)
  \/ \E g \in Gens : \E w \in sess[g].owed : Wake(g, w)
  \/ \E t \in Turns : CheckParent(t)
  \/ \E t \in Turns : TryStart(t)
  \/ Stop
  \/ \E t \in Turns : WorkerStep(t)
  \/ \E t \in Turns : Unwind(t)
  \/ \E t \in Turns, answer \in {"error", "blank", "words"}, renamed \in BOOLEAN :
       Title(t, answer, renamed)
  \/ Subscribe
  \/ ReaderStep
  \/ \E reload \in BOOLEAN : Disconnect(reload)

BusSpec == BusInit /\ [][BusNext]_busVars

----------------------------------------------------------------------------
\* The single-flight slot: no two workers drive turns of the conversation at
\* once, not even across incarnations of its session, and a session that says
\* it is running has the worker that will release it, so that no conversation
\* is stuck at 409 in_flight (InProcessBus::try_start, TurnHandle::drop).
SlotHasOneWorker ==
  LET workers == {t \in Turns : turn[t].pc \in WorkerOwns}
  IN  /\ Cardinality(workers) <= 1
      /\ \A g \in Gens : sess[g].running <=> \E t \in workers : turn[t].gen = g

\* What the stream says of a turn is what the database holds, and is said once: a
\* finish that names a reply is of a turn that was committed, a clear of one that
\* was not, and no turn has two ends (drive_turn: commit_turn before finish, clear on
\* the branches that do not write; "clear XOR finish", chat-v4.md:134).  Two ends
\* say nothing about the rows: a finish without an id, after a commit that failed
\* (worker.rs:268), and the clear of a worker that unwound from its commit on.
VerdictsMatchRows ==
  LET ends(g) == {e \in Range(sess[g].frames) : e.f.kind \in {"clear", "finish"}} IN
  /\ \A g \in Gens : \A e \in ends(g) :
       IF e.f.kind = "finish" THEN e.f.id => e.f.t \in ever
       ELSE turn[e.f.t].pc # "dropped" => e.f.t \notin ever
  /\ \A g, h \in Gens : \A e \in ends(g), f \in ends(h) : e.f.t = f.f.t => e = f

Asleep ==
  /\ tab.on /\ tab.pc = "parked" /\ tab.seen
  /\ sess[tab.gen].owed = {}

\* A reader sleeps without a wake-up on its way only when it is at the end of the
\* log: it has had the session's last frame.  The version is marked before the slice
\* is taken, and sent after the frame was appended (Session::reader).  A reader that
\* has had no frame yet is promised less: it does not sleep through a turn that runs,
\* but it is given no title, and no turn that began and ended before it looked, and
\* no resync for them (Session::read_from without a cursor).
NoLostWakeup ==
  Asleep => IF tab.cursor = Fresh THEN ~sess[tab.gen].running
            ELSE tab.cursor + 1 = sess[tab.gen].next

\* A tab never gets the middle of a turn, nor a frame without the one before it:
\* over lost connections, trimmed buffers and new incarnations of the session, a
\* frame it is sent opens a turn or follows the frame it got before, and has the
\* next cursor unless read_from made it start over (Session::read_from, resync).
FrameFollows ==
  /\ tab'.got # tab.got /\ tab'.got.t # NoTurn
       => \/ tab'.got.k = 1
          \/ tab'.got = [tab.got EXCEPT !.k = @ + 1]
  /\ Fresh \notin {tab.cursor, tab'.cursor}
       => tab'.cursor \in {tab.cursor, tab.cursor + 1}
NoTornTurn == [][FrameFollows]_busVars

=============================================================================
