---------------------------- MODULE Conversation ----------------------------
(***************************************************************************)
(* Conversation sessions in Redis (ConversationStore) and the requests of  *)
(* ConversationService that read and write them: chat, reset, rename,      *)
(* delete and the list of a user's sessions.                               *)
(*                                                                         *)
(* A request is a coroutine; requests interleave at every Redis call, and  *)
(* may end at each of them with an exception or a cancellation (the voice  *)
(* endpoint gives chat a timeout).  Redis runs a pipeline as one           *)
(* transaction.  A session is kept under two keys, its messages and its    *)
(* metadata, and named by the index of its user; each of the three expires *)
(* by itself, between any two calls.  Time is counted in lapses.           *)
(*                                                                         *)
(* Left out: the texts, the session's name, the index of all sessions (no  *)
(* user's request reads it), what the capabilities and the model answer,   *)
(* and requests without a user.                                            *)
(***************************************************************************)
EXTENDS Integers, FiniteSets, Sequences, SequencesExt

CONSTANTS
  Requests,        \* requests, each served once
  Users,
  NoUser,          \* metadata without a user_id
  Sessions,        \* session identifiers (uuid4, never drawn twice)
  MaxMessages,     \* MAX_MESSAGES
  Lifetime,        \* MESSAGES_TTL_SECONDS, in lapses
  MaxLapses        \* bound: lapses

ASSUME ConversationAssumption ==
  /\ NoUser \notin Users
  /\ Sessions # {}
  /\ MaxMessages \in Nat \ {0}
  /\ Lifetime \in Nat \ {0}
  /\ MaxLapses \in Nat

VARIABLES
  (* Redis *)
  messages,        \* conv:<s>:messages, <<>> when the key is absent
  owner,           \* user_id in conv:<s>:meta
  count,           \* message_count in conv:<s>:meta
  userIndex,       \* conversation:sessions:user:<u>
  messagesLife,    \* lapses until each key expires, 0: absent
  metaLife,
  indexLife,
  (* the requests *)
  at,              \* the Redis call a request is about to make (see below)
  op,              \* what it does
  user,            \* for whom
  sess,            \* on which session
  role,            \* chat: the message being appended
  seenMessages,    \* what it has read
  seenOwner,
  seenCount,
  todo,            \* list: sessions of the index not yet looked at
  (* history *)
  creator,         \* who started each session, NoUser: not started
  confirmed,       \* messages whose append returned
  removed,         \* messages taken away by the window, a reset or a delete
  expired,         \* messages taken away by expiry
  overlapped,      \* requests that ran while another one did
  interrupted,     \* requests that had found their session, and not written
                   \* it yet, when a key of it expired or was deleted
  lapses

redisVars == <<messages, owner, count, userIndex, messagesLife, metaLife, indexLife>>
asked     == <<op, user, sess>>
seen      == <<role, seenMessages, seenOwner, seenCount, todo>>
history   == <<creator, confirmed, removed, expired, overlapped, interrupted, lapses>>
vars == <<redisVars, at, asked, seen, history>>

Ops   == {"chat", "reset", "rename", "delete", "list"}
Roles == {"user", "assistant"}
Message == Requests \X Roles

Exists(s) == metaLife[s] > 0

\* Mutant: any session that exists will do.
OwnedByAnyone(s, u) == Exists(s)

Owned(s, u) == Exists(s) /\ owner[s] = u

Contents(s) == ToSet(messages[s])
Stored      == UNION {Contents(s) : s \in Sessions}

(***************************************************************************)
(*   idle   not begun            own    get_owned_session of the service   *)
(*   find   get_session, or get_owned_session, of the store                *)
(*   read   GET of the messages  meta   GET of the metadata                *)
(*   write  the transaction or SET that ends the operation                 *)
(*   think  chat: capabilities, context, model                             *)
(*   ids    list: SMEMBERS       check  get_owned_session    drop  SREM    *)
(*   done   ended                                                          *)
(***************************************************************************)
Underway(r) == at[r] \notin {"idle", "done"}

\* Requests between finding s and writing it.
Amid(s) == {r \in Requests : at[r] \in {"read", "meta", "write"} /\ sess[r] = s}

Goto(r, stage) == at' = [at EXCEPT ![r] = stage]

Finish(r) == Goto(r, "done")

Init ==
  /\ messages = [s \in Sessions |-> <<>>]
  /\ owner = [s \in Sessions |-> NoUser]
  /\ count = [s \in Sessions |-> 0]
  /\ userIndex = [u \in Users |-> {}]
  /\ messagesLife = [s \in Sessions |-> 0]
  /\ metaLife = [s \in Sessions |-> 0]
  /\ indexLife = [u \in Users |-> 0]
  /\ at = [r \in Requests |-> "idle"]
  /\ op = [r \in Requests |-> "list"]
  /\ user = [r \in Requests |-> NoUser]
  /\ sess = [r \in Requests |-> CHOOSE s \in Sessions : TRUE]
  /\ role = [r \in Requests |-> "user"]
  /\ seenMessages = [r \in Requests |-> <<>>]
  /\ seenOwner = [r \in Requests |-> NoUser]
  /\ seenCount = [r \in Requests |-> 0]
  /\ todo = [r \in Requests |-> {}]
  /\ creator = [s \in Sessions |-> NoUser]
  /\ confirmed = {}
  /\ removed = {}
  /\ expired = {}
  /\ overlapped = {}
  /\ interrupted = {}
  /\ lapses = 0
-----------------------------------------------------------------------------
(* start_session: index and metadata in one transaction.                   *)
StartSession(s, u) ==
  /\ creator[s] = NoUser
  /\ creator' = [creator EXCEPT ![s] = u]
  /\ owner' = [owner EXCEPT ![s] = u]
  /\ metaLife' = [metaLife EXCEPT ![s] = Lifetime]
  /\ userIndex' = [userIndex EXCEPT ![u] = @ \union {s}]
  /\ indexLife' = [indexLife EXCEPT ![u] = Lifetime]
  /\ UNCHANGED <<messages, count, messagesLife, at, asked, seen,
                 confirmed, removed, expired, overlapped, interrupted, lapses>>

(* A request comes in.                                                     *)
Begin(r, o, u, s) ==
  /\ at[r] = "idle"
  /\ creator[s] # NoUser
  /\ op' = [op EXCEPT ![r] = o]
  /\ user' = [user EXCEPT ![r] = u]
  /\ sess' = [sess EXCEPT ![r] = s]
  /\ Goto(r, IF o = "list" THEN "ids" ELSE "own")
  /\ LET others == {q \in Requests : Underway(q)}
     IN  overlapped' = overlapped \union others
                         \union (IF others = {} THEN {} ELSE {r})
  /\ UNCHANGED <<redisVars, seen, creator, confirmed, removed, expired, interrupted, lapses>>

(* The service asks whether the session is the user's.                     *)
CheckOwner(r) ==
  /\ at[r] = "own"
  /\ \/ Owned(sess[r], user[r]) /\ Goto(r, "find")
     \/ ~Owned(sess[r], user[r]) /\ Finish(r)
  /\ UNCHANGED <<redisVars, asked, seen, history>>

(* The store looks the session up again, reset with its owner; delete      *)
(* keeps the owner for the index.                                          *)
Find(r) ==
  /\ at[r] = "find"
  /\ LET found == IF op[r] = "reset" THEN Owned(sess[r], user[r]) ELSE Exists(sess[r])
     IN  \/ /\ found
            /\ Goto(r, CASE op[r] = "chat" -> "read"
                         [] op[r] = "delete" -> "write"
                         [] OTHER -> "meta")
            /\ seenOwner' = [seenOwner EXCEPT ![r] = owner[sess[r]]]
         \/ ~found /\ Finish(r) /\ UNCHANGED seenOwner
  /\ UNCHANGED <<redisVars, asked, role, seenMessages, seenCount, todo, history>>

ReadMessages(r) ==
  /\ at[r] = "read"
  /\ seenMessages' = [seenMessages EXCEPT ![r] = messages[sess[r]]]
  /\ Goto(r, "meta")
  /\ UNCHANGED <<redisVars, asked, role, seenOwner, seenCount, todo, history>>

(* GET of the metadata.  rename gives up when they are gone by now; append *)
(* and reset go on with an empty record.                                   *)
ReadMeta(r) ==
  /\ at[r] = "meta"
  /\ IF op[r] = "rename" /\ ~Exists(sess[r])
       THEN Finish(r) /\ UNCHANGED <<seenOwner, seenCount>>
       ELSE /\ Goto(r, "write")
            /\ seenOwner' = [seenOwner EXCEPT ![r] = owner[sess[r]]]
            /\ seenCount' = [seenCount EXCEPT ![r] = count[sess[r]]]
  /\ UNCHANGED <<redisVars, asked, role, seenMessages, todo, history>>
-----------------------------------------------------------------------------
(***************************************************************************)
(* The writes.                                                             *)
(***************************************************************************)
PutMeta(s, u, n) ==
  /\ owner' = [owner EXCEPT ![s] = u]
  /\ count' = [count EXCEPT ![s] = n]
  /\ metaLife' = [metaLife EXCEPT ![s] = Lifetime]

PutMessages(s, list) ==
  /\ messages' = [messages EXCEPT ![s] = list]
  /\ messagesLife' = [messagesLife EXCEPT ![s] = IF list = <<>> THEN 0 ELSE Lifetime]

\* Mutant: the window is cut before the message is appended.
WindowTooWide(list) ==
  IF Len(list) > MaxMessages + 1
    THEN SubSeq(list, Len(list) - MaxMessages, Len(list)) ELSE list

\* The last MaxMessages of a list.
Window(list) ==
  IF Len(list) > MaxMessages THEN SubSeq(list, Len(list) - MaxMessages + 1, Len(list))
                             ELSE list

\* Mutant: the index keeps its old expiry.
WriteAppendOnly(r) ==
  LET s == sess[r]
      list == Append(seenMessages[r], <<r, role[r]>>)
      kept == Window(list)
      u == seenOwner[r]
  IN  /\ op[r] = "chat"
      /\ PutMessages(s, kept)
      /\ PutMeta(s, u, Len(kept))
      /\ userIndex' = [v \in Users |-> IF v = u THEN userIndex[v] \union {s} ELSE userIndex[v]]
      /\ removed' = removed \union (ToSet(list) \ ToSet(kept))
      /\ UNCHANGED <<indexLife, interrupted>>

(* append_message: the list that was read and the new message, and the     *)
(* metadata that were read; a session without an owner joins no index.     *)
WriteAppend(r) ==
  LET s == sess[r]
      list == Append(seenMessages[r], <<r, role[r]>>)
      kept == Window(list)
      u == seenOwner[r]
  IN  /\ op[r] = "chat"
      /\ PutMessages(s, kept)
      /\ PutMeta(s, u, Len(kept))
      /\ IF u \in Users
           THEN /\ userIndex' = [userIndex EXCEPT ![u] = @ \union {s}]
                /\ indexLife' = [indexLife EXCEPT ![u] = Lifetime]
           ELSE UNCHANGED <<userIndex, indexLife>>
      /\ removed' = removed \union (ToSet(list) \ ToSet(kept))
      /\ UNCHANGED interrupted

\* Mutant: reset sets the count to zero and keeps the messages.
WriteResetCount(r) ==
  /\ op[r] = "reset"
  /\ PutMeta(sess[r], seenOwner[r], 0)
  /\ removed' = removed \union Contents(sess[r])
  /\ UNCHANGED <<messages, messagesLife, userIndex, indexLife, interrupted>>

WriteReset(r) ==
  /\ op[r] = "reset"
  /\ PutMessages(sess[r], <<>>)
  /\ PutMeta(sess[r], seenOwner[r], 0)
  /\ removed' = removed \union Contents(sess[r])
  /\ UNCHANGED <<userIndex, indexLife, interrupted>>

WriteRename(r) ==
  /\ op[r] = "rename"
  /\ PutMeta(sess[r], seenOwner[r], seenCount[r])
  /\ UNCHANGED <<messages, messagesLife, userIndex, indexLife, removed, interrupted>>

\* What a deleted or expired key leaves behind: nothing.
DropMeta(s) ==
  /\ owner' = [owner EXCEPT ![s] = NoUser]
  /\ count' = [count EXCEPT ![s] = 0]
  /\ metaLife' = [metaLife EXCEPT ![s] = 0]

\* Mutant: the messages are forgotten.
WriteDeleteMeta(r) ==
  LET u == seenOwner[r]
  IN  /\ op[r] = "delete"
      /\ DropMeta(sess[r])
      /\ userIndex' = [v \in Users |->
                         IF v = u THEN userIndex[v] \ {sess[r]} ELSE userIndex[v]]
      /\ interrupted' = interrupted \union (Amid(sess[r]) \ {r})
      /\ UNCHANGED <<messages, messagesLife, indexLife, removed>>

WriteDelete(r) ==
  LET u == seenOwner[r]
  IN  /\ op[r] = "delete"
      /\ PutMessages(sess[r], <<>>)
      /\ DropMeta(sess[r])
      /\ userIndex' = [v \in Users |->
                         IF v = u THEN userIndex[v] \ {sess[r]} ELSE userIndex[v]]
      /\ removed' = removed \union Contents(sess[r])
      /\ interrupted' = interrupted \union (Amid(sess[r]) \ {r})
      /\ UNCHANGED indexLife

Write(r) == WriteAppend(r) \/ WriteReset(r) \/ WriteRename(r) \/ WriteDelete(r)

(* The write returns: an append is confirmed, and chat goes on, after the  *)
(* user's message with the answer, after the answer with its return.       *)
WriteReturns(r) ==
  /\ at[r] = "write"
  /\ Write(r)
  /\ IF op[r] = "chat"
       THEN /\ confirmed' = confirmed \union {<<r, role[r]>>}
            /\ IF role[r] = "user" THEN Goto(r, "think")
                                   ELSE Finish(r)
       ELSE Finish(r) /\ UNCHANGED confirmed
  /\ UNCHANGED <<asked, seen, creator, expired, overlapped, lapses>>

(* The write raises though Redis carried it out.                           *)
WriteFails(r) ==
  /\ at[r] = "write"
  /\ Write(r)
  /\ Finish(r)
  /\ UNCHANGED <<asked, seen, creator, confirmed, expired, overlapped, lapses>>

\* Mutant: the answer is appended under the role of the question.
AnswerAsUser(r) ==
  /\ at[r] = "think"
  /\ Goto(r, "find")
  /\ UNCHANGED <<redisVars, asked, seen, history>>

(* A capability or the model has an answer, which is appended.             *)
Answer(r) ==
  /\ at[r] = "think"
  /\ role' = [role EXCEPT ![r] = "assistant"]
  /\ Goto(r, "find")
  /\ UNCHANGED <<redisVars, asked, seenMessages, seenOwner, seenCount, todo, history>>

(* The model fails: the fallback reply is returned and not stored.         *)
FallBack(r) ==
  /\ at[r] = "think"
  /\ Finish(r)
  /\ UNCHANGED <<redisVars, asked, seen, history>>

(* A call raises, or the request is cancelled, without effect on Redis.    *)
Fail(r) ==
  /\ Underway(r)
  /\ Finish(r)
  /\ UNCHANGED <<redisVars, asked, seen, history>>
-----------------------------------------------------------------------------
(***************************************************************************)
(* list_sessions_for_user, which drops stale entries of the index.         *)
(***************************************************************************)
ReadIndex(r) ==
  /\ at[r] = "ids"
  /\ todo' = [todo EXCEPT ![r] = userIndex[user[r]]]
  /\ IF userIndex[user[r]] = {} THEN Finish(r)
                                ELSE Goto(r, "check")
  /\ UNCHANGED <<redisVars, asked, role, seenMessages, seenOwner, seenCount, history>>

CheckListed(r) ==
  /\ at[r] = "check"
  /\ \E s \in todo[r] :
       /\ sess' = [sess EXCEPT ![r] = s]
       /\ todo' = [todo EXCEPT ![r] = @ \ {s}]
       /\ CASE ~Owned(s, user[r]) -> Goto(r, "drop")
            [] Owned(s, user[r]) /\ todo[r] # {s} -> UNCHANGED at
            [] Owned(s, user[r]) /\ todo[r] = {s} -> Finish(r)
  /\ UNCHANGED <<redisVars, op, user, role, seenMessages, seenOwner, seenCount, history>>

DropListed(r) ==
  /\ at[r] = "drop"
  /\ userIndex' = [userIndex EXCEPT ![user[r]] = @ \ {sess[r]}]
  /\ IF todo[r] = {} THEN Finish(r)
                     ELSE Goto(r, "check")
  /\ UNCHANGED <<messages, owner, count, messagesLife, metaLife, indexLife,
                 asked, seen, history>>

(* A lapse: keys come nearer to their end and expire, also in the middle   *)
(* of a request.                                                           *)
Lapse ==
  /\ lapses < MaxLapses /\ lapses' = lapses + 1
  /\ messagesLife' = [s \in Sessions |-> IF messagesLife[s] > 0 THEN messagesLife[s] - 1 ELSE 0]
  /\ metaLife' = [s \in Sessions |-> IF metaLife[s] > 0 THEN metaLife[s] - 1 ELSE 0]
  /\ indexLife' = [u \in Users |-> IF indexLife[u] > 0 THEN indexLife[u] - 1 ELSE 0]
  /\ messages' = [s \in Sessions |-> IF messagesLife'[s] = 0 THEN <<>> ELSE messages[s]]
  /\ owner' = [s \in Sessions |-> IF metaLife'[s] = 0 THEN NoUser ELSE owner[s]]
  /\ count' = [s \in Sessions |-> IF metaLife'[s] = 0 THEN 0 ELSE count[s]]
  /\ userIndex' = [u \in Users |-> IF indexLife'[u] = 0 THEN {} ELSE userIndex[u]]
  /\ expired' = expired \union UNION {Contents(s) : s \in {t \in Sessions : messagesLife'[t] = 0}}
  /\ interrupted' = interrupted \union
       UNION {Amid(s) : s \in {t \in Sessions : messagesLife[t] = 1 \/ metaLife[t] = 1}}
  /\ UNCHANGED <<at, asked, seen, creator, confirmed, removed, overlapped>>
-----------------------------------------------------------------------------
Proceed(r) ==
  \/ CheckOwner(r) \/ Find(r) \/ ReadMessages(r) \/ ReadMeta(r)
  \/ WriteReturns(r) \/ WriteFails(r) \/ Answer(r) \/ FallBack(r) \/ Fail(r)
  \/ ReadIndex(r) \/ CheckListed(r) \/ DropListed(r)

Next ==
  \/ \E s \in Sessions, u \in Users : StartSession(s, u)
  \/ \E r \in Requests, o \in Ops, u \in Users, s \in Sessions : Begin(r, o, u, s)
  \/ \E r \in Requests : Proceed(r)
  \/ Lapse

Spec == Init /\ [][Next]_vars
-----------------------------------------------------------------------------
(***************************************************************************)
(* Properties.                                                             *)
(***************************************************************************)
Stages == {"idle", "own", "find", "read", "meta", "write", "think",
           "ids", "check", "drop", "done"}

(* Types; the history is never longer than its window.                     *)
TypeOK ==
  /\ messages \in [Sessions -> Seq(Message)]
  /\ \A s \in Sessions : Len(messages[s]) <= MaxMessages
  /\ owner \in [Sessions -> Users \union {NoUser}]
  /\ count \in [Sessions -> 0..MaxMessages]
  /\ userIndex \in [Users -> SUBSET Sessions]
  /\ messagesLife \in [Sessions -> 0..Lifetime]
  /\ metaLife \in [Sessions -> 0..Lifetime]
  /\ indexLife \in [Users -> 0..Lifetime]
  /\ at \in [Requests -> Stages]
  /\ op \in [Requests -> Ops]
  /\ user \in [Requests -> Users \union {NoUser}]
  /\ sess \in [Requests -> Sessions]
  /\ role \in [Requests -> Roles]
  /\ seenMessages \in [Requests -> Seq(Message)]
  /\ seenOwner \in [Requests -> Users \union {NoUser}]
  /\ seenCount \in [Requests -> 0..MaxMessages]
  /\ todo \in [Requests -> SUBSET Sessions]
  /\ creator \in [Sessions -> Users \union {NoUser}]
  /\ confirmed \subseteq Message
  /\ removed \subseteq Message
  /\ expired \subseteq Message
  /\ overlapped \subseteq Requests
  /\ interrupted \subseteq Requests

(* A chat or a reset was amid the session when a key of it went away: it   *)
(* goes on with an empty record and writes metadata that name no owner.    *)
Estranged(s) == \E r \in interrupted : op[r] \in {"chat", "reset"} /\ sess[r] = s

(* No interleaving of appends, renames, resets, deletes and expiry leaves  *)
(* messages without metadata.  Metadata that name no owner, under which    *)
(* nobody may read or delete the messages until they expire, come about    *)
(* in one way only: a chat or a reset that was amid the session when its   *)
(* keys were deleted or expired.                                           *)
NoOrphans ==
  \A s \in Sessions :
    /\ messagesLife[s] <= metaLife[s]
    /\ Exists(s) /\ owner[s] # creator[s] => Estranged(s)

(* A session is only ever its creator's: what it holds was said in the     *)
(* creator's requests, and its metadata and index name nobody else.        *)
OneOwner ==
  \A s \in Sessions :
    /\ owner[s] \in {creator[s], NoUser}
    /\ \A u \in Users : s \in userIndex[u] => creator[s] = u
    /\ \A m \in Contents(s) : user[m[1]] = creator[s] /\ sess[m[1]] = s

(* No message is twice in a history, and no answer before its question,    *)
(* whatever was written in between.                                        *)
QuestionFirst ==
  \A s \in Sessions :
    \A i, j \in DOMAIN messages[s] :
      /\ messages[s][i] = messages[s][j] => i = j
      /\ messages[s][i][1] = messages[s][j][1] /\ messages[s][i][2] = "user" => i <= j

Lost == {m \in confirmed : m \notin Stored \union removed \union expired}

(* A chat was amid the session when a key of it went away: it writes back  *)
(* what it had read.                                                       *)
Restored(s) == \E r \in interrupted : op[r] = "chat" /\ sess[r] = s

(* Only overlapping requests lose a confirmed message that neither the     *)
(* window, a reset, a delete nor expiry took.  One request at a time       *)
(* brings nothing back that was removed, and what had expired only when it *)
(* expired between a chat's read and its write.                            *)
SerialIsExact ==
  /\ \A m \in Lost : m[1] \in overlapped
  /\ overlapped = {} =>
       /\ Stored \intersect removed = {}
       /\ \A m \in Stored \intersect expired : Restored(sess[m[1]])

(* With one request at a time, a session with messages is in the list of   *)
(* its user, however the three keys expired; the exception is a session    *)
(* whose keys expired amid a chat or a reset of it.                        *)
Listed ==
  overlapped = {} =>
    \A s \in Sessions :
      messages[s] # <<>> =>
        \/ owner[s] = creator[s] /\ s \in userIndex[creator[s]]
        \/ Estranged(s)

(* What is confirmed is in the history until it is removed: "falha de      *)
(* storage e explicita" (line 54).  Two chats at once break it.            *)
ConfirmedIsStored == Lost = {}
-----------------------------------------------------------------------------
(***************************************************************************)
(* What the properties above rest on, an invariant of every step.          *)
(***************************************************************************)
(* Messages that are, or were, anywhere.                                   *)
Ever == Stored \union removed \union expired \union confirmed
          \union UNION {ToSet(seenMessages[r]) : r \in Requests}

(* What a request has established by the stage it is at.                   *)
Staged(r) ==
  /\ at[r] # "idle" => user[r] \in Users
  /\ at[r] \in {"idle", "think"} => role[r] = "user"
  /\ at[r] \in {"own", "find", "read", "meta", "write", "think"} => op[r] # "list"
  /\ at[r] \in {"read", "think"} => op[r] = "chat"
  /\ at[r] \in {"ids", "check", "drop"} => op[r] = "list"
  /\ at[r] \in {"find", "read", "meta", "write", "think"} => user[r] = creator[sess[r]]
  /\ at[r] = "write" => seenOwner[r] \in {user[r], NoUser}
  /\ at[r] \in {"check", "drop"} => \A s \in todo[r] : creator[s] = user[r]
  /\ at[r] = "drop" => creator[sess[r]] = user[r]

(* What a request has yet to append is nowhere.                            *)
Unsaid(r) ==
  at[r] # "done" =>
    /\ at[r] # "think" => <<r, role[r]>> \notin Ever
    /\ role[r] = "user" => <<r, "assistant">> \notin Ever

(* Every message was said by a chat in a session of its user.              *)
Said == \A m \in Ever : op[m[1]] = "chat" /\ user[m[1]] = creator[sess[m[1]]]

(* A chat that has read the history and not yet written it back.           *)
Holding(r) == at[r] \in {"meta", "write"} /\ op[r] = "chat"

Of(s, list) == \A m \in ToSet(list) : sess[m[1]] = s

InOrder(list) ==
  \A i, j \in DOMAIN list :
    /\ list[i] = list[j] => i = j
    /\ list[i][1] = list[j][1] /\ list[i][2] = "user" => i <= j

(* A session is its creator's, and told in order.                          *)
Belongs(s) ==
  /\ owner[s] \in {creator[s], NoUser}
  /\ \A u \in Users : s \in userIndex[u] => creator[s] = u
  /\ Of(s, messages[s]) /\ InOrder(messages[s])
  /\ messages[s] = <<>> <=> messagesLife[s] = 0

(* So is what a request has read of it.                                    *)
Proper(r) ==
  /\ Staged(r) /\ Unsaid(r)
  /\ InOrder(seenMessages[r])
  /\ Holding(r) => Of(sess[r], seenMessages[r])

\* A session can be found for as long as it has messages.
Outlived == \A s \in Sessions : messagesLife[s] <= metaLife[s]

SessionsInv ==
  /\ TypeOK /\ Outlived /\ Said
  /\ \A s \in Sessions : Belongs(s)
  /\ \A r \in Requests : Proper(r)

(* A request that will write an ownerless record was interrupted, or found *)
(* such a record.                                                          *)
Deprived(r) ==
  /\ at[r] \in {"read", "meta"} /\ ~Exists(sess[r]) => r \in interrupted
  /\ at[r] = "write" /\ seenOwner[r] # user[r] => Estranged(sess[r])
  /\ r \in interrupted => at[r] # "idle" /\ op[r] # "list"
  /\ at[r] = "meta" => op[r] # "delete"

EstrangedInv ==
  /\ \A s \in Sessions : Exists(s) /\ owner[s] # creator[s] => Estranged(s)
  /\ \A r \in Requests : Deprived(r)

(* Requests that are under way together have overlapped.                   *)
Together == \A q, r \in Requests : q # r /\ Underway(q) /\ Underway(r) => r \in overlapped

(* What a chat holds and what the history is meanwhile differ by messages  *)
(* that were removed, expired, or whose request overlapped another.        *)
Accounted(m) == m \in removed \union expired \/ m[1] \in overlapped

Differ(r) ==
  Holding(r) =>
    \A m \in Message : (m \in ToSet(seenMessages[r]) <=> m \in Contents(sess[r])) \/ Accounted(m)

LossInv ==
  /\ Together
  /\ \A r \in Requests : Differ(r)
  /\ \A m \in Lost : m[1] \in overlapped

(* One request at a time: what a chat holds was not removed, and expired   *)
(* only while it was held; list drops nothing that is the user's.          *)
Alone(r) ==
  /\ Holding(r) =>
       /\ ToSet(seenMessages[r]) \intersect removed = {}
       /\ ToSet(seenMessages[r]) \intersect expired # {} => Restored(sess[r])
  /\ at[r] = "drop" => ~Owned(sess[r], user[r])

SerialInv ==
  overlapped = {} =>
    /\ \A r \in Requests : Alone(r)
    /\ \A s \in Sessions :
         messages[s] # <<>> => messagesLife[s] <= indexLife[creator[s]] \/ Estranged(s)

ConversationInv == SessionsInv /\ EstrangedInv /\ LossInv /\ SerialInv /\ SerialIsExact /\ Listed
=============================================================================
