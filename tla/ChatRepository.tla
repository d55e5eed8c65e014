--------------------------- MODULE ChatRepository ---------------------------
(***************************************************************************)
(* The two ChatRepositories side by side: PgRepository, over the rows of   *)
(* chat_conversation and chat_message, and the                             *)
(* MemoryChatRepository the service tests run on, over a list of messages  *)
(* per conversation.  Every call is made to both.                          *)
(*                                                                         *)
(* One tenant.  A call is one step: each is one statement or one           *)
(* transaction in Postgres, apart from the reading of the messages it      *)
(* returns.  A message is named by its turn; every commit of a turn makes  *)
(* up a new assistant message.                                             *)
(***************************************************************************)
EXTENDS Integers, Sequences, SequencesExt, FiniteSetsExt

CONSTANTS Convs, Users, Turns, MaxCommits

VARIABLES
  conv,    \* chat_conversation: owner, title, deleted, next_message_ordinal
  message, \* chat_message: conversation, id, ordinal
  recent,  \* chat_conversation by updated_at, the latest first
  mem,     \* StoredConversation, per id
  memRecent, \* the same order in the double
  commits, \* commits so far
  answer   \* the answers of both to the last call

repoVars == <<conv, message, recent, mem, memRecent, commits, answer>>

NoConv == [owner |-> "none", title |-> "none", deleted |-> FALSE, next |-> 0]
NoStored == [owner |-> "none", title |-> "none", deleted |-> FALSE, next |-> 0, messages |-> <<>>]
NoParent == <<"none", 0>>
UserMessage(t) == <<t, 0>>
AssistantMessage(t) == <<t, commits + 1>>
MessageIds == {NoParent} \cup {m.id : m \in message} \cup {UserMessage(t) : t \in Turns}

RepoInit ==
  /\ conv = [k \in Convs |-> NoConv]
  /\ message = {}
  /\ recent = <<>>
  /\ mem = [k \in Convs |-> NoStored]
  /\ memRecent = <<>>
  /\ commits = 0
  /\ answer = [pg |-> "ok", mem |-> "ok"]

------------------------------------------------------------------------------
\* updated_at = now()
Touch(s, k) == <<k>> \o SelectSeq(s, LAMBDA j : j # k)

\* WHERE user_id = .. AND conversation_id = .. AND deleted_at IS NULL
Visible(u, k) == conv[k].owner = u /\ ~conv[k].deleted
Of(k) == {m \in message : m.conv = k}

\* list_pg_messages
Messages(k) == LET rows == SetToSortSeq(Of(k), LAMBDA a, b : a.ordinal < b.ordinal)
               IN [i \in DOMAIN rows |-> rows[i].id]

\* list_conversations, in Postgres and in the double
Listed(u) == SelectSeq(recent, LAMBDA k : Visible(u, k))
VisibleTo(u, k) == mem[k].owner = u /\ ~mem[k].deleted
MemListed(u) == SelectSeq(memRecent, LAMBDA k : VisibleTo(u, k))

\* The double looks the id up before it asks whose the conversation is.
EnsureVisible(u, k) == IF mem[k] = NoStored THEN "not found"
                       ELSE IF VisibleTo(u, k) THEN "ok" ELSE "forbidden"

Answer(pg, m) == answer' = [pg |-> pg, mem |-> m]
PgVisible(u, k) == IF Visible(u, k) THEN "ok" ELSE "not found"

------------------------------------------------------------------------------
\* create_conversation, with a title or the default one
PgCreate(u, k, title) ==
  /\ conv' = [conv EXCEPT ![k] = [owner |-> u, title |-> title, deleted |-> FALSE, next |-> 1]]
  /\ recent' = Touch(recent, k)

MemCreate(u, k, title) ==
  /\ mem' = [mem EXCEPT ![k] = [owner |-> u, title |-> title, deleted |-> FALSE, next |-> 1,
                                messages |-> <<>>]]
  /\ memRecent' = Touch(memRecent, k)

Create(u, k, title) ==
  /\ conv[k] = NoConv
  /\ PgCreate(u, k, title) /\ MemCreate(u, k, title)
  /\ Answer("ok", "ok")
  /\ UNCHANGED <<message, commits>>

\* get_conversation
Get(u, k) ==
  /\ Answer(PgVisible(u, k), EnsureVisible(u, k))
  /\ UNCHANGED <<conv, message, recent, mem, memRecent, commits>>

\* The statement of rename_conversation and of rename_conversation_if_default
PgRename(u, k, title, only) ==
  IF Visible(u, k) /\ conv[k].title \in only
  THEN conv' = [conv EXCEPT ![k].title = title] /\ recent' = Touch(recent, k)
  ELSE UNCHANGED <<conv, recent>>

MemRename(u, k, title, only) ==
  IF VisibleTo(u, k) /\ mem[k].title \in only
  THEN mem' = [mem EXCEPT ![k].title = title] /\ memRecent' = Touch(memRecent, k)
  ELSE UNCHANGED <<mem, memRecent>>

\* The API refuses a blank title before it calls.
Rename(u, k, title) ==
  /\ PgRename(u, k, title, {"New chat", "named"})
  /\ MemRename(u, k, title, {"New chat", "named"})
  /\ Answer(PgVisible(u, k), EnsureVisible(u, k))
  /\ UNCHANGED <<message, commits>>

\* No row: the conversation is looked up to tell a kept title from a missing one.
PgRenamed(u, k) ==
  IF Visible(u, k) /\ conv[k].title # "New chat" THEN "kept" ELSE PgVisible(u, k)
MemRenamed(u, k) ==
  IF VisibleTo(u, k) /\ mem[k].title # "New chat" THEN "kept" ELSE EnsureVisible(u, k)

RenameIfDefault(u, k, title) ==
  /\ PgRename(u, k, title, {"New chat"})
  /\ MemRename(u, k, title, {"New chat"})
  /\ Answer(PgRenamed(u, k), MemRenamed(u, k))
  /\ UNCHANGED <<message, commits>>

\* delete_conversation: the messages stay; only Postgres touches updated_at.
PgDelete(u, k) ==
  IF Visible(u, k)
  THEN conv' = [conv EXCEPT ![k].deleted = TRUE] /\ recent' = Touch(recent, k)
  ELSE UNCHANGED <<conv, recent>>

MemDelete(u, k) ==
  mem' = IF VisibleTo(u, k) THEN [mem EXCEPT ![k].deleted = TRUE] ELSE mem

Delete(u, k) ==
  /\ PgDelete(u, k) /\ MemDelete(u, k)
  /\ Answer(PgVisible(u, k), EnsureVisible(u, k))
  /\ UNCHANGED <<message, memRecent, commits>>

\* assert_parent_tail: the row with the greatest ordinal, and the last message
PgTail(k) == IF Of(k) = {} THEN NoParent
             ELSE (CHOOSE m \in Of(k) : \A n \in Of(k) : n.ordinal <= m.ordinal).id
MemTail(k) == IF mem[k].messages = <<>> THEN NoParent ELSE Last(mem[k].messages)

AssertParentTail(u, k, parent) ==
  /\ Answer(IF Visible(u, k) /\ PgTail(k) # parent THEN "stale" ELSE PgVisible(u, k),
            IF VisibleTo(u, k) /\ MemTail(k) # parent THEN "stale" ELSE EnsureVisible(u, k))
  /\ UNCHANGED <<conv, message, recent, mem, memRecent, commits>>

\* record_turn_failed: the double keeps no turns (chat_turn is in ChatTurn).
RecordTurnFailed(u, k) ==
  /\ Answer(PgVisible(u, k), EnsureVisible(u, k))
  /\ UNCHANGED <<conv, message, recent, mem, memRecent, commits>>

------------------------------------------------------------------------------
\* commit_pg_turn: the rows after the parent are deleted, the turn's two rows
\* take the next ordinals (moving a row that has the id already).
HasParent(k, parent) == parent = NoParent \/ \E m \in Of(k) : m.id = parent
Ordinal(k, parent) == IF parent = NoParent THEN 0
                      ELSE (CHOOSE m \in Of(k) : m.id = parent).ordinal
\* Mutant: the first row after the parent is spared.
UpToNext(k, ordinal) == {m \in message : m.conv = k => m.ordinal <= ordinal + 1}
UpTo(k, ordinal) == {m \in message : m.conv = k => m.ordinal <= ordinal}
Upsert(rows, row) == {m \in rows : m.id # row.id} \cup {row}

PgCommit(u, k, t, parent) ==
  IF Visible(u, k) /\ HasParent(k, parent)
  THEN LET at == Ordinal(k, parent)
           user == [conv |-> k, id |-> UserMessage(t), ordinal |-> at + 1]
           assistant == [conv |-> k, id |-> AssistantMessage(t), ordinal |-> at + 2]
       IN /\ message' = Upsert(Upsert(UpTo(k, at), user), assistant)
          /\ conv' = [conv EXCEPT ![k].next = at + 3]
          /\ recent' = Touch(recent, k)
  ELSE UNCHANGED <<conv, message, recent>>

\* commit_turn_with_metadata of the double: truncate and push.
MemHasParent(k, parent) == parent = NoParent \/ Contains(mem[k].messages, parent)
Retained(k, parent) == IF parent = NoParent THEN 0
                       ELSE CHOOSE i \in DOMAIN mem[k].messages : mem[k].messages[i] = parent

MemCommit(u, k, t, parent) ==
  IF VisibleTo(u, k) /\ MemHasParent(k, parent)
  THEN LET kept == SubSeq(mem[k].messages, 1, Retained(k, parent))
           all == kept \o <<UserMessage(t), AssistantMessage(t)>>
       IN /\ mem' = [mem EXCEPT ![k].messages = all, ![k].next = Len(all) + 1]
          /\ memRecent' = Touch(memRecent, k)
  ELSE UNCHANGED <<mem, memRecent>>

\* commit_turn and commit_interrupted_turn.  A turn belongs to one conversation,
\* and its user message, where there is one already, follows the parent.
Commit(u, k, t, parent) ==
  /\ commits < MaxCommits
  /\ commits' = commits + 1
  /\ parent # UserMessage(t)
  /\ \A m \in message : m.id = UserMessage(t) =>
       m.conv = k /\ (HasParent(k, parent) => m.ordinal > Ordinal(k, parent))
  /\ PgCommit(u, k, t, parent)
  /\ MemCommit(u, k, t, parent)
  /\ Answer(IF Visible(u, k) /\ ~HasParent(k, parent) THEN "stale" ELSE PgVisible(u, k),
            IF VisibleTo(u, k) /\ ~MemHasParent(k, parent) THEN "stale" ELSE EnsureVisible(u, k))

RepoNext ==
  \E u \in Users, k \in Convs :
    \/ \E title \in {"New chat", "named"} :
         Create(u, k, title) \/ Rename(u, k, title) \/ RenameIfDefault(u, k, title)
    \/ Get(u, k) \/ Delete(u, k)
    \/ \E parent \in MessageIds :
         \/ AssertParentTail(u, k, parent)
         \/ \E t \in Turns : Commit(u, k, t, parent)
    \/ RecordTurnFailed(u, k)

RepoSpec == RepoInit /\ [][RepoNext]_repoVars

------------------------------------------------------------------------------
\* What the service tests see through the double is what production does: after
\* any calls, both list the same conversations in the same order with the same
\* titles and the same messages, give the next message the same ordinal, and
\* answer alike, but for a conversation that is deleted or another user's, which
\* the double forbids and Postgres does not find.
RepositoriesAgree ==
  /\ \A u \in Users : Listed(u) = MemListed(u)
  /\ \A k \in Convs : /\ conv[k].title = mem[k].title /\ conv[k].next = mem[k].next
                      /\ Messages(k) = mem[k].messages
  /\ answer.pg = answer.mem \/ answer = [pg |-> "not found", mem |-> "forbidden"]
=============================================================================
