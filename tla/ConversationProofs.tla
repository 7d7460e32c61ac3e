-------------------------- MODULE ConversationProofs --------------------------
(***************************************************************************)
(* What holds of the conversations for any requests, users and sessions,   *)
(* any window and any lifetime: types first, then whose a session is and   *)
(* in which order it is told, then what is lost and when.                  *)
(***************************************************************************)
EXTENDS Conversation, SequenceTheorems, TLAPS

(***************************************************************************)
(* Histories.                                                              *)
(***************************************************************************)
(* A window keeps the end of a list, and never less than one message.      *)
LEMMA Windowed ==
  ASSUME ConversationAssumption, NEW S, NEW list \in Seq(S), list # <<>>
  PROVE  /\ Window(list) \in Seq(S) /\ Window(list) # <<>>
         /\ Len(Window(list)) \in 1..MaxMessages
         /\ \E d \in Nat :
              /\ Len(list) = Len(Window(list)) + d
              /\ \A i \in 1..Len(Window(list)) : Window(list)[i] = list[i + d]
<1>1. /\ Len(list) \in Nat \ {0} /\ DOMAIN list = 1..Len(list)
      /\ MaxMessages \in Nat \ {0}
      /\ Len(list) <= MaxMessages \/ Len(list) > MaxMessages
  BY SMTT(60), EmptySeq, LenProperties DEF ConversationAssumption
<1>2. CASE Len(list) <= MaxMessages
  <2>1. Window(list) = list
    BY <1>1, <1>2 DEF Window
  <2>2. Len(list) = Len(list) + 0 /\ \A i \in 1..Len(list) : list[i] = list[i + 0]
    BY <1>1
  <2>3. 0 \in Nat /\ Len(list) \in 1..MaxMessages
    BY <1>1, <1>2
  <2>4. QED
    BY <2>1, <2>2, <2>3
<1>3. CASE Len(list) > MaxMessages
  <2>. DEFINE d == Len(list) - MaxMessages
              kept == SubSeq(list, d + 1, Len(list))
  <2>1. Window(list) = kept
    BY <1>1, <1>3 DEF Window
  <2>2. d \in Nat /\ d >= 1 /\ d + 1 \in 1..Len(list)
    BY <1>1, <1>3
  <2>3. /\ kept \in Seq(S) /\ Len(kept) = MaxMessages
        /\ \A i \in 1..Len(kept) : kept[i] = list[i + d]
    <3>. HIDE DEF d
    <3>1. /\ kept \in Seq(S)
          /\ Len(kept) = Len(list) - (d + 1) + 1
          /\ \A i \in 1..(Len(list) - (d + 1) + 1) : kept[i] = list[d + 1 + i - 1]
      BY <1>1, <2>2, SubSeqProperties
    <3>2. Len(list) - (d + 1) + 1 = MaxMessages
      BY <1>1 DEF d
    <3>3. \A i \in 1..Len(kept) : kept[i] = list[i + d]
      BY <1>1, <2>2, <3>1
    <3>4. QED
      BY <3>1, <3>2, <3>3
  <2>. HIDE DEF d, kept
  <2>4. kept # <<>> /\ Len(list) = Len(kept) + d
    BY <1>1, <2>3 DEF d
  <2>5. QED
    BY <1>1, <2>1, <2>2, <2>3, <2>4
<1>4. QED
  BY <1>1, <1>2, <1>3

(* A message is appended to what was read, and the window cut.             *)
LEMMA Appended ==
  ASSUME ConversationAssumption, NEW S, NEW seen0 \in Seq(S), NEW m \in S
  PROVE  LET list == Append(seen0, m)
             kept == Window(list)
         IN  /\ kept \in Seq(S) /\ kept # <<>> /\ Len(kept) \in 1..MaxMessages
             /\ ToSet(list) = ToSet(seen0) \union {m}
             /\ ToSet(kept) \subseteq ToSet(list)
             /\ m \in ToSet(kept)
<1>. DEFINE list == Append(seen0, m)
            kept == Window(list)
<1>1. /\ list \in Seq(S) /\ list # <<>> /\ Len(list) = Len(seen0) + 1
      /\ \A i \in 1..Len(seen0) : list[i] = seen0[i]
      /\ list[Len(seen0) + 1] = m
  BY AppendProperties
<1>2. /\ Len(seen0) \in Nat /\ DOMAIN seen0 = 1..Len(seen0)
      /\ DOMAIN list = 1..Len(list)
  BY <1>1, LenProperties
<1>. HIDE DEF list
<1>3. ToSet(list) = ToSet(seen0) \union {m}
  BY <1>1, <1>2 DEF ToSet
<1>4. /\ kept \in Seq(S) /\ kept # <<>> /\ Len(kept) \in 1..MaxMessages
  BY <1>1, Windowed
<1>5. PICK d \in Nat : /\ Len(list) = Len(kept) + d
                       /\ \A i \in 1..Len(kept) : kept[i] = list[i + d]
  BY <1>1, Windowed
<1>. HIDE DEF kept
<1>6. Len(kept) \in Nat /\ DOMAIN kept = 1..Len(kept)
  BY <1>4, LenProperties
<1>7. \A i \in 1..Len(kept) : i + d \in 1..Len(list)
  BY <1>2, <1>5, <1>6
<1>8. ToSet(kept) \subseteq ToSet(list)
  BY <1>2, <1>5, <1>6, <1>7 DEF ToSet
<1>9. Len(kept) \in DOMAIN kept /\ kept[Len(kept)] = m
  BY <1>1, <1>2, <1>4, <1>5, <1>6
<1>10. m \in ToSet(kept)
  BY <1>9 DEF ToSet
<1>11. QED
  BY <1>3, <1>4, <1>8, <1>10 DEF list, kept

(* A history in order stays so when a message is appended that was not in  *)
(* it, a question before its answer.                                       *)
LEMMA OrderKept ==
  ASSUME ConversationAssumption,
         NEW seen0 \in Seq(Message), InOrder(seen0),
         NEW r \in Requests, NEW x \in Roles,
         <<r, x>> \notin ToSet(seen0),
         x = "user" => <<r, "assistant">> \notin ToSet(seen0)
  PROVE  InOrder(Window(Append(seen0, <<r, x>>)))
<1>. DEFINE m == <<r, x>>
            list == Append(seen0, m)
            kept == Window(list)
            n == Len(seen0)
<1>1. m \in Message /\ m[1] = r /\ m[2] = x
  BY DEF Message
<1>2. /\ list \in Seq(Message) /\ list # <<>> /\ Len(list) = n + 1
      /\ \A i \in 1..n : list[i] = seen0[i]
      /\ list[n + 1] = m
  BY <1>1, AppendProperties
<1>3. n \in Nat /\ DOMAIN seen0 = 1..n /\ DOMAIN list = 1..(n + 1)
  BY <1>2, LenProperties
<1>4. \A i \in 1..n : seen0[i] # m /\ (x = "user" => seen0[i] # <<r, "assistant">>)
  BY <1>3 DEF ToSet
<1>5. \A i \in 1..n : seen0[i] \in Message
  BY <1>3, ElementOfSeq
<1>6. \A i \in 1..n : x = "user" => seen0[i][1] # r
  <2>1. SUFFICES ASSUME NEW i \in 1..n, x = "user", seen0[i][1] = r
                 PROVE  FALSE
    OBVIOUS
  <2>2. seen0[i] = <<r, seen0[i][2]>> /\ seen0[i][2] \in Roles
    BY <1>5, <2>1 DEF Message
  <2>3. QED
    BY <1>1, <1>4, <2>1, <2>2 DEF Roles
<1>. HIDE DEF list, m, n
<1>7. InOrder(list)
  <2>1. SUFFICES ASSUME NEW i \in 1..(n + 1), NEW j \in 1..(n + 1)
                 PROVE  /\ list[i] = list[j] => i = j
                        /\ list[i][1] = list[j][1] /\ list[i][2] = "user" => i <= j
    BY <1>3 DEF InOrder
  <2>2. CASE i \in 1..n /\ j \in 1..n
    BY <1>2, <1>3, <2>2 DEF InOrder
  <2>3. CASE i = n + 1 /\ j = n + 1
    BY <1>3, <2>3
  <2>4. CASE i = n + 1 /\ j \in 1..n
    BY <1>1, <1>2, <1>3, <1>4, <1>6, <2>4
  <2>5. CASE i \in 1..n /\ j = n + 1
    BY <1>1, <1>2, <1>3, <1>4, <2>5
  <2>6. QED
    BY <1>3, <2>2, <2>3, <2>4, <2>5
<1>8. PICK d \in Nat : /\ Len(list) = Len(kept) + d
                       /\ \A i \in 1..Len(kept) : kept[i] = list[i + d]
  BY <1>2, Windowed
<1>9. Len(kept) \in Nat /\ DOMAIN kept = 1..Len(kept)
  BY <1>2, Windowed, LenProperties
<1>. HIDE DEF kept
<1>10. \A i \in 1..Len(kept) : i + d \in 1..(n + 1)
  BY <1>2, <1>3, <1>8, <1>9
<1>11. InOrder(kept)
  <2>1. SUFFICES ASSUME NEW i \in 1..Len(kept), NEW j \in 1..Len(kept)
                 PROVE  /\ kept[i] = kept[j] => i = j
                        /\ kept[i][1] = kept[j][1] /\ kept[i][2] = "user" => i <= j
    BY <1>9 DEF InOrder
  <2>2. /\ list[i + d] = list[j + d] => i + d = j + d
        /\ list[i + d][1] = list[j + d][1] /\ list[i + d][2] = "user" => i + d <= j + d
    BY <1>3, <1>7, <1>10 DEF InOrder
  <2>3. QED
    BY <1>8, <1>9, <2>2
<1>12. QED
  BY <1>11 DEF kept, list, m
-----------------------------------------------------------------------------
(***************************************************************************)
(* Types.                                                                  *)
(***************************************************************************)
(* What Redis holds, and what is gone from it.                             *)
RedisOK ==
  /\ messages \in [Sessions -> Seq(Message)]
  /\ \A s \in Sessions : Len(messages[s]) <= MaxMessages
  /\ owner \in [Sessions -> Users \union {NoUser}]
  /\ count \in [Sessions -> 0..MaxMessages]
  /\ userIndex \in [Users -> SUBSET Sessions]
  /\ messagesLife \in [Sessions -> 0..Lifetime]
  /\ metaLife \in [Sessions -> 0..Lifetime]
  /\ indexLife \in [Users -> 0..Lifetime]
  /\ removed \subseteq Message
  /\ expired \subseteq Message

(* What the requests hold, and what is known of them.                      *)
RequestsOK ==
  /\ at \in [Requests -> Stages]
  /\ op \in [Requests -> Ops]
  /\ user \in [Requests -> Users \union {NoUser}]
  /\ sess \in [Requests -> Sessions]
  /\ role \in [Requests -> Roles]
  /\ seenMessages \in [Requests -> Seq(Message)]
  /\ seenOwner \in [Requests -> Users \union {NoUser}]
  /\ seenCount \in [Requests -> 0..MaxMessages]
  /\ todo \in [Requests -> SUBSET Sessions]
  /\ creator \in [Sessions -> Users \union {NoUser}]
  /\ confirmed \subseteq Message
  /\ overlapped \subseteq Requests
  /\ interrupted \subseteq Requests

LEMMA TypeParts == TypeOK <=> RedisOK /\ RequestsOK
BY DEF TypeOK, RedisOK, RequestsOK

LEMMA ContentsOK ==
  ASSUME RedisOK, NEW s \in Sessions
  PROVE  Contents(s) \subseteq Message
<1>1. messages[s] \in Seq(Message)
  BY DEF RedisOK
<1>2. \A i \in DOMAIN messages[s] : messages[s][i] \in Message
  BY <1>1, ElementOfSeq, LenProperties
<1>3. QED
  BY <1>2 DEF Contents, ToSet

LEMMA SeenOK ==
  ASSUME RequestsOK, NEW r \in Requests
  PROVE  ToSet(seenMessages[r]) \subseteq Message
<1>1. seenMessages[r] \in Seq(Message)
  BY DEF RequestsOK
<1>2. \A i \in DOMAIN seenMessages[r] : seenMessages[r][i] \in Message
  BY <1>1, ElementOfSeq, LenProperties
<1>3. QED
  BY <1>2 DEF ToSet

(* What an append writes.                                                  *)
Longer(r) == Append(seenMessages[r], <<r, role[r]>>)

LEMMA LongerOK ==
  ASSUME ConversationAssumption, RequestsOK, NEW r \in Requests
  PROVE  /\ Window(Longer(r)) \in Seq(Message) /\ Window(Longer(r)) # <<>>
         /\ Len(Window(Longer(r))) \in 1..MaxMessages
         /\ ToSet(Longer(r)) = ToSet(seenMessages[r]) \union {<<r, role[r]>>}
         /\ ToSet(Window(Longer(r))) \subseteq ToSet(Longer(r))
         /\ <<r, role[r]>> \in ToSet(Window(Longer(r)))
         /\ <<r, role[r]>> \in Message
<1>1. seenMessages[r] \in Seq(Message) /\ <<r, role[r]>> \in Message
  BY DEF RequestsOK, Message
<1>2. LET list == Append(seenMessages[r], <<r, role[r]>>)
          kept == Window(list)
      IN  /\ kept \in Seq(Message) /\ kept # <<>> /\ Len(kept) \in 1..MaxMessages
          /\ ToSet(list) = ToSet(seenMessages[r]) \union {<<r, role[r]>>}
          /\ ToSet(kept) \subseteq ToSet(list)
          /\ <<r, role[r]>> \in ToSet(kept)
  <2>. HIDE DEF Message
  <2>1. QED
    BY <1>1, Appended, Zenon
<1>3. QED
  BY <1>1, <1>2 DEF Longer

LEMMA EmptyOK == <<>> \in Seq(Message) /\ Len(<<>>) = 0 /\ ToSet(<<>>) = {}
BY EmptySeq DEF ToSet

LEMMA WriteRedis ==
  ASSUME ConversationAssumption, RedisOK, RequestsOK, NEW r \in Requests, Write(r),
         expired' = expired
  PROVE  RedisOK'
<1>. DEFINE kept == Window(Longer(r))
<1>1. sess[r] \in Sessions /\ Contents(sess[r]) \subseteq Message
  BY ContentsOK DEF RequestsOK
<1>2. MaxMessages \in Nat \ {0} /\ Lifetime \in Nat \ {0}
  BY DEF ConversationAssumption
<1>3. CASE WriteAppend(r)
  <2>1. /\ kept \in Seq(Message) /\ kept # <<>> /\ Len(kept) \in 1..MaxMessages
        /\ ToSet(Longer(r)) \subseteq Message
    BY LongerOK, SeenOK
  <2>2. /\ messages' = [messages EXCEPT ![sess[r]] = kept]
        /\ messagesLife' = [messagesLife EXCEPT ![sess[r]] = Lifetime]
        /\ owner' = [owner EXCEPT ![sess[r]] = seenOwner[r]]
        /\ count' = [count EXCEPT ![sess[r]] = Len(kept)]
        /\ metaLife' = [metaLife EXCEPT ![sess[r]] = Lifetime]
        /\ removed' = removed \union (ToSet(Longer(r)) \ ToSet(kept))
    BY <1>3, <2>1 DEF WriteAppend, PutMessages, PutMeta, Longer
  <2>3. /\ userIndex' \in [Users -> SUBSET Sessions]
        /\ indexLife' \in [Users -> 0..Lifetime]
    <3>1. CASE seenOwner[r] \in Users
      <4>1. /\ userIndex' = [userIndex EXCEPT ![seenOwner[r]] = @ \union {sess[r]}]
            /\ indexLife' = [indexLife EXCEPT ![seenOwner[r]] = Lifetime]
        BY <1>3, <3>1 DEF WriteAppend
      <4>2. QED
        BY SMTT(60), <1>1, <1>2, <3>1, <4>1 DEF RedisOK
    <3>2. CASE seenOwner[r] \notin Users
      BY <1>3, <3>2 DEF WriteAppend, RedisOK
    <3>3. QED
      BY <3>1, <3>2
  <2>. HIDE DEF kept
  <2>4. QED
    BY SMTT(60), <1>1, <1>2, <2>1, <2>2, <2>3 DEF RedisOK, RequestsOK
<1>4. CASE WriteReset(r)
  BY SMTT(60), <1>1, <1>2, <1>4, EmptyOK DEF WriteReset, PutMessages, PutMeta, RedisOK, RequestsOK
<1>5. CASE WriteRename(r)
  BY SMTT(60), <1>1, <1>2, <1>5 DEF WriteRename, PutMeta, RedisOK, RequestsOK
<1>6. CASE WriteDelete(r)
  BY SMTT(60), <1>1, <1>2, <1>6, EmptyOK
  DEF WriteDelete, PutMessages, DropMeta, RedisOK, RequestsOK
<1>7. QED
  BY <1>3, <1>4, <1>5, <1>6 DEF Write

(* A delete interrupts the requests amid its session, another write none.  *)
LEMMA WriteInterrupts ==
  ASSUME NEW r \in Requests, Write(r)
  PROVE  \/ interrupted' = interrupted /\ op[r] # "delete"
         \/ interrupted' = interrupted \union (Amid(sess[r]) \ {r}) /\ op[r] = "delete"
BY DEF Write, WriteAppend, WriteReset, WriteRename, WriteDelete

LEMMA LapseRedis ==
  ASSUME ConversationAssumption, RedisOK, Lapse
  PROVE  RedisOK'
<1>1. MaxMessages \in Nat \ {0} /\ Lifetime \in Nat \ {0}
  BY DEF ConversationAssumption
<1>2. /\ messagesLife' \in [Sessions -> 0..Lifetime]
      /\ metaLife' \in [Sessions -> 0..Lifetime]
      /\ indexLife' \in [Users -> 0..Lifetime]
  BY SMTT(60), <1>1 DEF Lapse, RedisOK
<1>3. /\ messages' \in [Sessions -> Seq(Message)]
      /\ \A s \in Sessions : Len(messages'[s]) <= MaxMessages
  BY <1>1, EmptyOK DEF Lapse, RedisOK
<1>4. /\ owner' \in [Sessions -> Users \union {NoUser}]
      /\ count' \in [Sessions -> 0..MaxMessages]
      /\ userIndex' \in [Users -> SUBSET Sessions]
  BY <1>1 DEF Lapse, RedisOK
<1>5. removed' \subseteq Message /\ expired' \subseteq Message
  <2>1. \A s \in Sessions : Contents(s) \subseteq Message
    BY ContentsOK
  <2>2. /\ removed' = removed /\ removed \subseteq Message /\ expired \subseteq Message
        /\ expired' = expired \union UNION {Contents(s) : s \in {t \in Sessions : messagesLife'[t] = 0}}
    BY DEF Lapse, RedisOK
  <2>. HIDE DEF Contents, Message
  <2>3. QED
    BY <2>1, <2>2
<1>6. QED
  BY <1>2, <1>3, <1>4, <1>5 DEF RedisOK

LEMMA InitTypes == ConversationAssumption /\ Init => TypeOK
<1>. SUFFICES ASSUME ConversationAssumption, Init PROVE TypeOK
  OBVIOUS
<1>1. (CHOOSE s \in Sessions : TRUE) \in Sessions
  BY DEF ConversationAssumption
<1>2. QED
  BY <1>1, EmptyOK
  DEF Init, TypeOK, ConversationAssumption, Stages, Ops, Roles

(* A request that has begun has a user.                                    *)
Begun == \A r \in Requests : at[r] # "idle" => user[r] \in Users

LEMMA BegunKept ==
  ASSUME RequestsOK, Begun, [Next]_vars
  PROVE  Begun'
<1>. USE DEF Goto, Finish, Begun, RequestsOK
<1>1. ASSUME NEW s \in Sessions, NEW u \in Users, StartSession(s, u)
      PROVE  Begun'
  BY <1>1 DEF StartSession, asked
<1>2. ASSUME NEW r \in Requests, NEW o \in Ops, NEW u \in Users, NEW s \in Sessions,
             Begin(r, o, u, s)
      PROVE  Begun'
  BY <1>2 DEF Begin
<1>3. ASSUME NEW r \in Requests, Proceed(r)
      PROVE  Begun'
  <2>1. at[r] # "idle" /\ user' = user /\ \A q \in Requests \ {r} : at'[q] = at[q]
    <3>1. CASE CheckOwner(r) \/ Find(r) \/ ReadMessages(r) \/ ReadMeta(r)
      BY <3>1 DEF CheckOwner, Find, ReadMessages, ReadMeta, asked
    <3>2. CASE WriteReturns(r) \/ WriteFails(r) \/ Answer(r) \/ FallBack(r) \/ Fail(r)
      BY <3>2 DEF WriteReturns, WriteFails, Answer, FallBack, Fail, asked, Underway
    <3>3. CASE ReadIndex(r) \/ DropListed(r)
      BY <3>3 DEF ReadIndex, DropListed, asked
    <3>4. CASE CheckListed(r)
      BY ZenonT(60), <3>4 DEF CheckListed
    <3>5. QED
      BY <1>3, <3>1, <3>2, <3>3, <3>4 DEF Proceed
  <2>2. QED
    BY <2>1
<1>4. CASE Lapse
  BY <1>4 DEF Lapse, asked
<1>5. CASE UNCHANGED vars
  BY <1>5 DEF vars, asked
<1>6. QED
  BY <1>1, <1>2, <1>3, <1>4, <1>5 DEF Next

LEMMA TypesKept ==
  ASSUME ConversationAssumption, TypeOK, Begun, [Next]_vars
  PROVE  TypeOK'
<1>. USE DEF Goto, Finish
<1>1. RedisOK /\ RequestsOK /\ MaxMessages \in Nat \ {0} /\ Lifetime \in Nat \ {0}
  BY TypeParts DEF ConversationAssumption
<1>2. ASSUME NEW s \in Sessions, NEW u \in Users, StartSession(s, u)
      PROVE  RedisOK' /\ RequestsOK'
  BY SMTT(60), <1>1, <1>2 DEF StartSession, RedisOK, RequestsOK, asked, seen
<1>3. ASSUME NEW r \in Requests, NEW o \in Ops, NEW u \in Users, NEW s \in Sessions,
             Begin(r, o, u, s)
      PROVE  RedisOK' /\ RequestsOK'
  BY <1>1, <1>3 DEF Begin, RedisOK, RequestsOK, redisVars, seen, Underway, Stages
<1>4. ASSUME NEW r \in Requests, Proceed(r)
      PROVE  RedisOK' /\ RequestsOK'
  <2>1. CASE CheckOwner(r) \/ FallBack(r) \/ Fail(r)
    BY <1>1, <2>1 DEF CheckOwner, FallBack, Fail, RedisOK, RequestsOK, redisVars, asked, seen,
                      history, Stages
  <2>2. CASE Find(r)
    <3>1. at' \in [Requests -> Stages]
      BY <1>1, <2>2 DEF Find, RequestsOK, Stages
    <3>2. seenOwner' \in [Requests -> Users \union {NoUser}]
      BY <1>1, <2>2 DEF Find, RedisOK, RequestsOK
    <3>3. QED
      BY <1>1, <2>2, <3>1, <3>2 DEF Find, RedisOK, RequestsOK, redisVars, asked, history
  <2>3. CASE ReadMessages(r)
    BY <1>1, <2>3 DEF ReadMessages, RedisOK, RequestsOK, redisVars, asked, history, Stages
  <2>4. CASE ReadMeta(r)
    <3>1. \/ /\ at' = [at EXCEPT ![r] = "done"]
             /\ UNCHANGED <<seenOwner, seenCount>>
          \/ /\ at' = [at EXCEPT ![r] = "write"]
             /\ seenOwner' = [seenOwner EXCEPT ![r] = owner[sess[r]]]
             /\ seenCount' = [seenCount EXCEPT ![r] = count[sess[r]]]
      BY <2>4, Zenon DEF ReadMeta
    <3>2. /\ at' \in [Requests -> Stages]
          /\ seenOwner' \in [Requests -> Users \union {NoUser}]
          /\ seenCount' \in [Requests -> 0..MaxMessages]
      BY ZenonT(60), <1>1, <3>1 DEF RedisOK, RequestsOK, Stages
    <3>3. QED
      BY <1>1, <2>4, <3>2 DEF ReadMeta, RedisOK, RequestsOK, redisVars, asked, history
  <2>5. CASE WriteReturns(r) \/ WriteFails(r)
    <3>1. RedisOK'
      BY <1>1, <2>5, WriteRedis DEF WriteReturns, WriteFails
    <3>2. <<r, role[r]>> \in Message
      BY <1>1 DEF RequestsOK, Message
    <3>3. interrupted' \subseteq Requests
      BY <1>1, <2>5, WriteInterrupts DEF WriteReturns, WriteFails, RequestsOK, Amid
    <3>4. RequestsOK'
      BY <1>1, <2>5, <3>2, <3>3 DEF WriteReturns, WriteFails, RequestsOK, asked, seen, Stages
    <3>5. QED
      BY <3>1, <3>4
  <2>6. CASE Answer(r)
    BY <1>1, <2>6 DEF Answer, RedisOK, RequestsOK, redisVars, asked, history, Stages, Roles
  <2>7. CASE ReadIndex(r)
    <3>1. todo' \in [Requests -> SUBSET Sessions]
      BY <1>1, <2>7 DEF Begun, ReadIndex, RedisOK, RequestsOK
    <3>2. QED
      BY <1>1, <2>7, <3>1 DEF ReadIndex, RedisOK, RequestsOK, redisVars, asked, history, Stages
  <2>8. CASE CheckListed(r)
    <3>1. PICK s \in todo[r] :
            /\ sess' = [sess EXCEPT ![r] = s]
            /\ todo' = [todo EXCEPT ![r] = @ \ {s}]
            /\ CASE ~Owned(s, user[r]) -> at' = [at EXCEPT ![r] = "drop"]
                 [] Owned(s, user[r]) /\ todo[r] # {s} -> UNCHANGED at
                 [] Owned(s, user[r]) /\ todo[r] = {s} -> at' = [at EXCEPT ![r] = "done"]
      BY <2>8 DEF CheckListed
    <3>2. at' \in [Requests -> Stages]
      BY <1>1, <3>1 DEF RequestsOK, Stages
    <3>3. s \in Sessions
      BY <1>1, <3>1 DEF RequestsOK
    <3>4. sess' \in [Requests -> Sessions] /\ todo' \in [Requests -> SUBSET Sessions]
      BY <1>1, <3>1, <3>3 DEF RequestsOK
    <3>5. QED
      BY <1>1, <2>8, <3>2, <3>4 DEF CheckListed, RedisOK, RequestsOK, redisVars, history
  <2>9. CASE DropListed(r)
    BY <1>1, <2>9 DEF DropListed, RedisOK, RequestsOK, asked, seen, history, Stages
  <2>10. QED
    BY <1>4, <2>1, <2>2, <2>3, <2>4, <2>5, <2>6, <2>7, <2>8, <2>9 DEF Proceed
<1>5. ASSUME Lapse
      PROVE  RedisOK' /\ RequestsOK'
  <2>1. interrupted' \subseteq Requests
    BY <1>1, <1>5 DEF Lapse, Amid, RequestsOK
  <2>2. QED
    BY <1>1, <1>5, <2>1, LapseRedis DEF Lapse, RequestsOK, asked, seen
<1>6. ASSUME UNCHANGED vars
      PROVE  RedisOK' /\ RequestsOK'
  BY <1>1, <1>6 DEF vars, redisVars, asked, seen, history, RedisOK, RequestsOK
<1>7. RedisOK' /\ RequestsOK'
  BY <1>2, <1>3, <1>4, <1>5, <1>6 DEF Next
<1>8. QED
  BY <1>7 DEF TypeOK, RedisOK, RequestsOK

(* The variables keep their types, and no history outgrows its window, for *)
(* any requests and any window.                                            *)
THEOREM TypeCorrect == Spec => []TypeOK
<1>1. Init => TypeOK /\ Begun
  BY InitTypes, ConversationAssumption DEF Init, Begun
<1>2. TypeOK /\ Begun /\ [Next]_vars => (TypeOK /\ Begun)'
  BY TypesKept, BegunKept, TypeParts, ConversationAssumption
<1>3. QED
  BY <1>1, <1>2, PTL DEF Spec
-----------------------------------------------------------------------------
(***************************************************************************)
(* What the steps of a request do, one lemma for what each part can see.   *)
(***************************************************************************)
(* A request moves itself only, and keeps what it was asked: only a list   *)
(* goes from session to session.                                           *)
LEMMA Framed ==
  ASSUME RequestsOK, NEW r \in Requests, Proceed(r)
  PROVE  /\ op' = op /\ user' = user /\ creator' = creator /\ overlapped' = overlapped
         /\ at[r] \notin {"idle", "done"} /\ at'[r] # "idle"
         /\ \A q \in Requests \ {r} :
              /\ at'[q] = at[q] /\ sess'[q] = sess[q] /\ role'[q] = role[q] /\ todo'[q] = todo[q]
              /\ seenMessages'[q] = seenMessages[q] /\ seenOwner'[q] = seenOwner[q]
         /\ sess'[r] = sess[r] \/ at[r] = "check"
<1>. USE DEF Goto, Finish
<1>1. CASE CheckOwner(r) \/ FallBack(r) \/ Fail(r)
  BY <1>1 DEF CheckOwner, FallBack, Fail, Underway, asked, seen, history, RequestsOK
<1>2. CASE Find(r)
  <2>1. at[r] = "find" /\ at'[r] # "idle" /\ \A q \in Requests \ {r} : at'[q] = at[q]
    BY <1>2 DEF Find, RequestsOK
  <2>2. QED
    BY <1>2, <2>1 DEF Find, asked, history, RequestsOK
<1>3. CASE ReadMessages(r)
  BY <1>3 DEF ReadMessages, asked, history, RequestsOK
<1>4. CASE ReadMeta(r)
  <2>1. at[r] = "meta" /\ at'[r] # "idle" /\ \A q \in Requests \ {r} : at'[q] = at[q]
    BY <1>4 DEF ReadMeta, RequestsOK
  <2>2. \A q \in Requests \ {r} : seenOwner'[q] = seenOwner[q]
    BY <1>4 DEF ReadMeta, RequestsOK
  <2>3. QED
    BY <1>4, <2>1, <2>2 DEF ReadMeta, asked, history, RequestsOK
<1>5. CASE WriteReturns(r) \/ WriteFails(r)
  <2>1. at[r] = "write" /\ at'[r] # "idle" /\ \A q \in Requests \ {r} : at'[q] = at[q]
    BY <1>5 DEF WriteReturns, WriteFails, RequestsOK
  <2>2. QED
    BY <1>5, <2>1 DEF WriteReturns, WriteFails, asked, seen, RequestsOK
<1>6. CASE Answer(r)
  BY <1>6 DEF Answer, asked, history, RequestsOK
<1>7. CASE ReadIndex(r)
  <2>1. at[r] = "ids" /\ at'[r] # "idle" /\ \A q \in Requests \ {r} : at'[q] = at[q]
    BY <1>7 DEF ReadIndex, RequestsOK
  <2>2. QED
    BY <1>7, <2>1 DEF ReadIndex, asked, history, RequestsOK
<1>8. CASE CheckListed(r)
  <2>1. at[r] = "check" /\ at'[r] # "idle" /\ \A q \in Requests \ {r} : at'[q] = at[q]
    BY ZenonT(60), <1>8 DEF CheckListed, RequestsOK
  <2>2. QED
    BY <1>8, <2>1 DEF CheckListed, history, RequestsOK
<1>9. CASE DropListed(r)
  <2>1. at[r] = "drop" /\ at'[r] # "idle" /\ \A q \in Requests \ {r} : at'[q] = at[q]
    BY <1>9 DEF DropListed, RequestsOK
  <2>2. QED
    BY <1>9, <2>1 DEF DropListed, asked, seen, history, RequestsOK
<1>10. QED
  BY <1>1, <1>2, <1>3, <1>4, <1>5, <1>6, <1>7, <1>8, <1>9 DEF Proceed

Writes(r) == WriteReturns(r) \/ WriteFails(r)

(* Without a write Redis stays as it is, but for an entry of an index.     *)
LEMMA Quiet ==
  ASSUME RedisOK, RequestsOK, Begun, NEW r \in Requests, Proceed(r), ~Writes(r)
  PROVE  /\ UNCHANGED <<messages, owner, messagesLife, metaLife, indexLife>>
         /\ UNCHANGED <<removed, confirmed, expired, interrupted>>
         /\ \A u \in Users :
              userIndex'[u] \in {userIndex[u], userIndex[u] \ {sess[r]}}
         /\ userIndex' = userIndex
              \/ (at[r] = "drop" /\ userIndex' = [userIndex EXCEPT ![user[r]] = @ \ {sess[r]}])
         /\ seenMessages'[r] \in {seenMessages[r], messages[sess[r]]}
         /\ at[r] = "read" \/ seenMessages'[r] = seenMessages[r]
         /\ at[r] = "think" \/ role'[r] = role[r]
<1>1. CASE CheckOwner(r) \/ FallBack(r) \/ Fail(r)
  BY <1>1 DEF CheckOwner, FallBack, Fail, redisVars, seen, history
<1>2. CASE Find(r)
  BY <1>2 DEF Find, redisVars, history
<1>3. CASE ReadMessages(r)
  BY <1>3 DEF ReadMessages, redisVars, history, RequestsOK
<1>4. CASE ReadMeta(r)
  BY <1>4 DEF ReadMeta, redisVars, history
<1>5. CASE Answer(r)
  BY <1>5 DEF Answer, redisVars, history
<1>6. CASE ReadIndex(r)
  BY <1>6 DEF ReadIndex, redisVars, history
<1>7. CASE CheckListed(r)
  BY <1>7 DEF CheckListed, redisVars, history
<1>8. CASE DropListed(r)
  <2>1. userIndex' = [userIndex EXCEPT ![user[r]] = @ \ {sess[r]}] /\ at[r] = "drop"
    BY <1>8 DEF DropListed
  <2>2. \A u \in Users : userIndex'[u] \in {userIndex[u], userIndex[u] \ {sess[r]}}
    BY <2>1 DEF RedisOK
  <2>3. QED
    BY <1>8, <2>1, <2>2 DEF DropListed, history, seen
<1>9. QED
  BY <1>1, <1>2, <1>3, <1>4, <1>5, <1>6, <1>7, <1>8 DEF Proceed, Writes

(* What a write leaves in the history: what was there, nothing, or what    *)
(* was read and the new message.                                           *)
Untouched(r) == op[r] = "rename" /\ UNCHANGED <<messages, messagesLife, removed>>

Emptied(r) ==
  /\ op[r] \in {"reset", "delete"}
  /\ messages' = [messages EXCEPT ![sess[r]] = <<>>]
  /\ messagesLife' = [messagesLife EXCEPT ![sess[r]] = 0]
  /\ removed' = removed \union Contents(sess[r])

Lengthened(r) ==
  /\ op[r] = "chat"
  /\ messages' = [messages EXCEPT ![sess[r]] = Window(Longer(r))]
  /\ messagesLife' = [messagesLife EXCEPT ![sess[r]] = Lifetime]
  /\ removed' = removed \union (ToSet(Longer(r)) \ ToSet(Window(Longer(r))))

LEMMA Written ==
  ASSUME ConversationAssumption, RequestsOK, NEW r \in Requests, Write(r)
  PROVE  Untouched(r) \/ Emptied(r) \/ Lengthened(r)
<1>1. CASE WriteAppend(r)
  <2>1. Window(Longer(r)) # <<>>
    BY LongerOK
  <2>2. QED
    BY <1>1, <2>1 DEF WriteAppend, PutMessages, Longer, Lengthened
<1>2. CASE WriteReset(r) \/ WriteDelete(r)
  BY <1>2 DEF WriteReset, WriteDelete, PutMessages, Emptied
<1>3. CASE WriteRename(r)
  BY <1>3 DEF WriteRename, Untouched
<1>4. QED
  BY <1>1, <1>2, <1>3 DEF Write

(* Whom it leaves the metadata and the index to.                           *)
LEMMA WrittenFor ==
  ASSUME RedisOK, RequestsOK, NEW r \in Requests, Write(r)
  PROVE  /\ \A s \in Sessions \ {sess[r]} :
              owner'[s] = owner[s] /\ metaLife'[s] = metaLife[s]
         /\ \/ /\ owner'[sess[r]] = NoUser /\ metaLife'[sess[r]] = 0
               /\ Emptied(r) /\ op[r] = "delete"
            \/ owner'[sess[r]] = seenOwner[r] /\ metaLife'[sess[r]] = Lifetime
         /\ \A u \in Users : \A s \in userIndex'[u] :
              s \in userIndex[u] \/ (s = sess[r] /\ u = seenOwner[r])
<1>1. sess[r] \in Sessions
  BY DEF RequestsOK
<1>2. CASE WriteAppend(r)
  <2>1. CASE seenOwner[r] \in Users
    BY <1>1, <1>2, <2>1 DEF WriteAppend, PutMeta, RedisOK
  <2>2. CASE seenOwner[r] \notin Users
    BY <1>1, <1>2, <2>2 DEF WriteAppend, PutMeta, RedisOK
  <2>3. QED
    BY <2>1, <2>2
<1>3. CASE WriteReset(r)
  BY <1>1, <1>3 DEF WriteReset, PutMeta, RedisOK
<1>4. CASE WriteRename(r)
  BY <1>1, <1>4 DEF WriteRename, PutMeta, RedisOK
<1>5. CASE WriteDelete(r)
  <2>1. Emptied(r) /\ op[r] = "delete"
    BY <1>5 DEF WriteDelete, PutMessages, Emptied
  <2>2. QED
    BY <1>1, <1>5, <2>1 DEF WriteDelete, DropMeta, RedisOK
<1>6. QED
  BY <1>2, <1>3, <1>4, <1>5 DEF Write
-----------------------------------------------------------------------------
(***************************************************************************)
(* Messages.                                                               *)
(***************************************************************************)
LEMMA EverOK ==
  ASSUME RedisOK, RequestsOK
  PROVE  \A m \in Ever : m \in Message /\ m[1] \in Requests /\ m[2] \in Roles /\ m = <<m[1], m[2]>>
<1>1. /\ \A s \in Sessions : Contents(s) \subseteq Message
      /\ \A r \in Requests : ToSet(seenMessages[r]) \subseteq Message
  BY ContentsOK, SeenOK
<1>2. removed \subseteq Message /\ expired \subseteq Message /\ confirmed \subseteq Message
  BY DEF RedisOK, RequestsOK
<1>3. Ever \subseteq Message
  BY <1>1, <1>2 DEF Ever, Stored
<1>4. QED
  BY <1>3 DEF Message

LEMMA EverHas ==
  /\ \A s \in Sessions : Contents(s) \subseteq Ever
  /\ \A r \in Requests : ToSet(seenMessages[r]) \subseteq Ever
  /\ removed \subseteq Ever /\ expired \subseteq Ever /\ confirmed \subseteq Ever
BY DEF Ever, Stored

(* Where no new message is written, none comes to be.                      *)
LEMMA NoNews ==
  ASSUME removed' \subseteq Ever, expired' \subseteq Ever, confirmed' \subseteq Ever,
         \A s \in Sessions : Contents(s)' \subseteq Ever,
         \A r \in Requests : ToSet(seenMessages'[r]) \subseteq Ever
  PROVE  Ever' \subseteq Ever
BY DEF Ever, Stored

LEMMA QuietSays ==
  ASSUME RedisOK, RequestsOK, Begun, NEW r \in Requests, Proceed(r), ~Writes(r)
  PROVE  Ever' \subseteq Ever
<1>1. removed' \subseteq Ever /\ expired' \subseteq Ever /\ confirmed' \subseteq Ever
  BY Quiet, EverHas
<1>2. \A s \in Sessions : Contents(s)' \subseteq Ever
  BY Quiet, EverHas DEF Contents
<1>3. sess[r] \in Sessions
  BY DEF RequestsOK
<1>4. \A q \in Requests : ToSet(seenMessages'[q]) \subseteq Ever
  BY <1>3, Quiet, Framed, EverHas DEF Contents
<1>5. QED
  BY <1>1, <1>2, <1>4, NoNews

(* A write says its own message or none.                                   *)
LEMMA WriteSays ==
  ASSUME ConversationAssumption, RedisOK, RequestsOK, NEW r \in Requests, Proceed(r), Writes(r)
  PROVE  /\ \A m \in Ever' : m \in Ever \/ (m = <<r, role[r]>> /\ op[r] = "chat")
         /\ \A q \in Requests : seenMessages'[q] = seenMessages[q]
<1>1. Write(r) /\ seenMessages' = seenMessages /\ sess[r] \in Sessions /\ expired' = expired
      /\ (confirmed' = confirmed \/ (op[r] = "chat" /\ confirmed' = confirmed \union {<<r, role[r]>>}))
  BY DEF Writes, WriteReturns, WriteFails, seen, RequestsOK
<1>. DEFINE New == {m \in {<<r, role[r]>>} : op[r] = "chat"}
<1>2. confirmed' \subseteq Ever \union New
  BY <1>1, EverHas
<1>3. \A q \in Requests : ToSet(seenMessages'[q]) \subseteq Ever
  BY <1>1, EverHas
<1>4. ToSet(Longer(r)) = ToSet(seenMessages[r]) \union {<<r, role[r]>>}
      /\ ToSet(Window(Longer(r))) \subseteq ToSet(Longer(r))
  BY LongerOK
<1>5. removed' \subseteq Ever \union New
  <2>1. CASE Untouched(r)
    BY <2>1, EverHas DEF Untouched
  <2>2. CASE Emptied(r)
    BY <1>1, <2>2, EverHas DEF Emptied
  <2>3. CASE Lengthened(r)
    BY <1>4, <2>3, EverHas DEF Lengthened
  <2>4. QED
    BY <1>1, <2>1, <2>2, <2>3, Written
<1>6. ASSUME NEW s \in Sessions
      PROVE  Contents(s)' \subseteq Ever \union New
  <2>1. CASE Untouched(r)
    BY <2>1, EverHas DEF Untouched, Contents
  <2>2. CASE Emptied(r)
    <3>1. messages'[s] \in {messages[s], <<>>}
      BY <2>2 DEF Emptied, RedisOK
    <3>2. QED
      BY <3>1, EverHas, EmptyOK DEF Contents
  <2>3. CASE Lengthened(r)
    <3>1. messages'[s] \in {messages[s], Window(Longer(r))} /\ op[r] = "chat"
      BY <2>3 DEF Lengthened, RedisOK
    <3>2. QED
      BY <1>4, <3>1, EverHas DEF Contents
  <2>4. QED
    BY <1>1, <2>1, <2>2, <2>3, Written
<1>7. Ever' \subseteq Ever \union New
  BY <1>1, <1>2, <1>3, <1>5, <1>6, EverHas DEF Ever, Stored
<1>8. QED
  BY <1>1, <1>7

LEMMA LapseSays ==
  ASSUME RedisOK, RequestsOK, Lapse
  PROVE  Ever' \subseteq Ever
<1>1. removed' \subseteq Ever /\ expired' \subseteq Ever /\ confirmed' \subseteq Ever
  BY EverHas DEF Lapse
<1>2. \A s \in Sessions : messages'[s] \in {messages[s], <<>>}
  BY DEF Lapse
<1>3. \A s \in Sessions : Contents(s)' \subseteq Ever
  BY <1>2, EverHas, EmptyOK DEF Contents
<1>4. \A q \in Requests : ToSet(seenMessages'[q]) \subseteq Ever
  BY EverHas DEF Lapse, seen
<1>5. QED
  BY <1>1, <1>3, <1>4, NoNews
-----------------------------------------------------------------------------
(***************************************************************************)
(* Whose a session is, and in which order it is told.                      *)
(***************************************************************************)
LEMMA SessionsFacts ==
  ASSUME SessionsInv
  PROVE  /\ RedisOK /\ RequestsOK /\ Begun
         /\ \A m \in Ever :
              /\ m \in Message /\ m[1] \in Requests /\ m = <<m[1], m[2]>> /\ m[2] \in Roles
              /\ at[m[1]] # "idle" /\ user[m[1]] \in Users
              /\ op[m[1]] = "chat" /\ user[m[1]] = creator[sess[m[1]]]
<1>1. RedisOK /\ RequestsOK /\ Begun
  BY TypeParts DEF SessionsInv, Proper, Staged, Begun
<1>2. ASSUME NEW m \in Ever
      PROVE  /\ m \in Message /\ m[1] \in Requests /\ m = <<m[1], m[2]>> /\ m[2] \in Roles
             /\ at[m[1]] # "idle"
  <2>1. m \in Message /\ m[1] \in Requests /\ m[2] \in Roles /\ m = <<m[1], m[2]>>
    BY <1>1, EverOK
  <2>2. at[m[1]] = "idle" => <<m[1], "user">> \notin Ever /\ <<m[1], "assistant">> \notin Ever
    BY <2>1 DEF SessionsInv, Proper, Staged, Unsaid
  <2>3. QED
    BY <2>1, <2>2 DEF Roles
<1>3. QED
  BY <1>1, <1>2 DEF SessionsInv, Said, Begun

LEMMA InitSessions == ConversationAssumption /\ Init => SessionsInv
<1>. SUFFICES ASSUME ConversationAssumption, Init PROVE SessionsInv
  OBVIOUS
<1>1. TypeOK /\ Outlived
  BY InitTypes DEF Init, Outlived
<1>2. Ever = {}
  BY EmptyOK DEF Init, Ever, Stored, Contents
<1>3. InOrder(<<>>) /\ \A s : Of(s, <<>>)
  BY EmptyOK DEF InOrder, Of, ToSet
<1>4. \A s \in Sessions : Belongs(s)
  BY <1>3 DEF Init, Belongs
<1>5. \A r \in Requests : Proper(r)
  BY <1>2, <1>3 DEF Init, Proper, Staged, Unsaid, Holding
<1>6. QED
  BY <1>1, <1>2, <1>4, <1>5 DEF SessionsInv, Said

LEMMA StartKeeps ==
  ASSUME SessionsInv, NEW s \in Sessions, NEW u \in Users, StartSession(s, u), TypeOK',
         ConversationAssumption
  PROVE  SessionsInv'
<1>1. RedisOK /\ RequestsOK /\ u # NoUser /\ u \in Users
  BY SessionsFacts DEF ConversationAssumption
<1>2. /\ creator[s] = NoUser /\ creator' = [creator EXCEPT ![s] = u]
      /\ owner' = [owner EXCEPT ![s] = u]
      /\ metaLife' = [metaLife EXCEPT ![s] = Lifetime]
      /\ userIndex' = [userIndex EXCEPT ![u] = @ \union {s}]
      /\ UNCHANGED <<messages, messagesLife, at, asked, seen, confirmed, removed, expired>>
  BY DEF StartSession
<1>3. Ever' = Ever
  BY <1>2 DEF Ever, Stored, Contents, seen
<1>4. \A t \in Sessions : Belongs(t)'
  <2>1. ASSUME NEW t \in Sessions, t # s
        PROVE  Belongs(t)'
    BY SMTT(60), <1>1, <1>2, <2>1 DEF SessionsInv, Belongs, Of, InOrder, RedisOK, RequestsOK, asked
  <2>2. Belongs(s)'
    <3>1. owner'[s] = creator'[s] /\ \A v \in Users : s \in userIndex'[v] => creator'[s] = v
      BY <1>1, <1>2, ConversationAssumption DEF SessionsInv, Belongs, RedisOK, RequestsOK
    <3>2. Of(s, messages[s])' /\ InOrder(messages[s])' /\ (messages[s] = <<>> <=> messagesLife[s] = 0)'
      BY <1>2 DEF SessionsInv, Belongs, Of, InOrder, asked
    <3>3. QED
      BY <3>1, <3>2 DEF Belongs
  <2>3. QED
    BY <2>1, <2>2
<1>5. ASSUME NEW r \in Requests
      PROVE  Proper(r)'
  <2>1. Staged(r)'
    BY <1>1, <1>2, ConversationAssumption
    DEF SessionsInv, Proper, Staged, RequestsOK, asked, seen
  <2>2. Unsaid(r)' /\ InOrder(seenMessages[r])' /\ (Holding(r) => Of(sess[r], seenMessages[r]))'
    BY <1>2, <1>3 DEF SessionsInv, Proper, Unsaid, InOrder, Holding, Of, asked, seen
  <2>3. QED
    BY <2>1, <2>2 DEF Proper
<1>6. Said'
  BY <1>1, <1>2, <1>3, SessionsFacts, ConversationAssumption
  DEF Said, RequestsOK, asked
<1>7. Outlived'
  BY <1>1, <1>2 DEF SessionsInv, Outlived, RedisOK, ConversationAssumption
<1>8. QED
  BY <1>4, <1>5, <1>6, <1>7 DEF SessionsInv

LEMMA BeginKeeps ==
  ASSUME SessionsInv, NEW r \in Requests, NEW o \in Ops, NEW u \in Users, NEW s \in Sessions,
         Begin(r, o, u, s), TypeOK'
  PROVE  SessionsInv'
<1>1. RedisOK /\ RequestsOK
  BY SessionsFacts
<1>2. /\ at[r] = "idle" /\ at'[r] \in {"ids", "own"} /\ (at'[r] = "ids" <=> op'[r] = "list")
      /\ user'[r] = u
      /\ \A q \in Requests \ {r} :
           at'[q] = at[q] /\ op'[q] = op[q] /\ user'[q] = user[q] /\ sess'[q] = sess[q]
      /\ UNCHANGED <<redisVars, seen, creator, confirmed, removed, expired>>
  BY <1>1 DEF Begin, Goto, RequestsOK
<1>3. Ever' = Ever
  BY <1>2 DEF Ever, Stored, Contents, seen, redisVars
<1>4. \A m \in Ever : m[1] \in Requests \ {r}
  BY <1>2, SessionsFacts
<1>5. Said'
  BY <1>2, <1>3, <1>4, SessionsFacts DEF Said
<1>6. ASSUME NEW t \in Sessions
      PROVE  Belongs(t)'
  <2>1. Of(t, messages[t])'
    BY <1>2, <1>4, EverHas DEF SessionsInv, Belongs, Of, Contents, redisVars
  <2>2. QED
    BY <1>2, <2>1 DEF SessionsInv, Belongs, InOrder, redisVars
<1>7. ASSUME NEW q \in Requests
      PROVE  Proper(q)'
  <2>1. CASE q = r
    <3>1. Unsaid(r)'
      BY <1>2, <1>3 DEF SessionsInv, Proper, Unsaid, seen
    <3>2. QED
      BY <1>2, <2>1, <3>1 DEF SessionsInv, Proper, Staged, InOrder, Holding, seen
  <2>2. CASE q # r
    <3>1. Of(sess[q], seenMessages[q]) => Of(sess[q], seenMessages[q])'
      BY <1>2, <1>4, <2>2, EverHas DEF Of, seen
    <3>2. Staged(q)' /\ Unsaid(q)'
      BY <1>2, <1>3, <2>2 DEF SessionsInv, Proper, Staged, Unsaid, seen
    <3>3. QED
      BY <1>2, <2>2, <3>1, <3>2 DEF SessionsInv, Proper, InOrder, Holding, seen
  <2>3. QED
    BY <2>1, <2>2
<1>8. Outlived'
  BY <1>2 DEF SessionsInv, Outlived, redisVars
<1>9. QED
  BY <1>5, <1>6, <1>7, <1>8 DEF SessionsInv

LEMMA LapseKeeps ==
  ASSUME SessionsInv, Lapse, TypeOK'
  PROVE  SessionsInv'
<1>1. RedisOK /\ RequestsOK
  BY SessionsFacts
<1>2. UNCHANGED <<at, asked, seen, creator, confirmed>>
  BY DEF Lapse
<1>3. Ever' \subseteq Ever
  BY <1>1, LapseSays
<1>4. Said'
  BY <1>2, <1>3 DEF SessionsInv, Said, asked
<1>6. ASSUME NEW s \in Sessions
      PROVE  Belongs(s)'
  <2>1. /\ \/ messagesLife'[s] = 0 /\ messages'[s] = <<>>
           \/ messagesLife'[s] # 0 /\ messagesLife[s] # 0 /\ messages'[s] = messages[s]
        /\ owner'[s] \in {owner[s], NoUser}
        /\ \A u \in Users : userIndex'[u] \subseteq userIndex[u]
    <3>1. \/ messagesLife'[s] = 0 /\ messages'[s] = <<>>
          \/ messagesLife'[s] # 0 /\ messages'[s] = messages[s]
      BY DEF Lapse
    <3>2. messagesLife'[s] # 0 => messagesLife[s] # 0
      BY <1>1 DEF Lapse, RedisOK
    <3>3. owner'[s] \in {owner[s], NoUser} /\ \A u \in Users : userIndex'[u] \subseteq userIndex[u]
      BY DEF Lapse
    <3>4. QED
      BY <3>1, <3>2, <3>3
  <2>2. Of(s, messages[s])' /\ InOrder(messages[s])'
    <3>1. CASE messages'[s] = <<>>
      BY <3>1, EmptyOK DEF Of, InOrder, ToSet
    <3>2. CASE messages'[s] = messages[s]
      BY <1>2, <3>2 DEF SessionsInv, Belongs, Of, InOrder, asked
    <3>3. QED
      BY <2>1, <3>1, <3>2
  <2>3. QED
    BY <1>2, <2>1, <2>2 DEF SessionsInv, Belongs
<1>7. ASSUME NEW r \in Requests
      PROVE  Proper(r)'
  <2>1. Staged(r)' /\ Unsaid(r)'
    BY <1>2, <1>3 DEF SessionsInv, Proper, Staged, Unsaid, asked, seen
  <2>2. QED
    BY <1>2, <2>1 DEF SessionsInv, Proper, InOrder, Holding, Of, asked, seen
<1>8. Outlived'
  BY <1>1 DEF Lapse, SessionsInv, Outlived, RedisOK
<1>9. QED
  BY <1>4, <1>6, <1>7, <1>8 DEF SessionsInv

LEMMA SessionsStutter ==
  ASSUME SessionsInv, UNCHANGED vars
  PROVE  SessionsInv'
<1>1. UNCHANGED <<redisVars, at, asked, seen, history>>
  BY DEF vars
<1>2. TypeOK' /\ Outlived'
  BY <1>1 DEF redisVars, asked, seen, history, SessionsInv, TypeOK, Outlived
<1>3. Ever' = Ever
  BY <1>1 DEF redisVars, seen, history, Ever, Stored, Contents
<1>4. Said'
  BY <1>1, <1>3 DEF asked, history, SessionsInv, Said
<1>5. \A s \in Sessions : Belongs(s)'
  BY <1>1 DEF redisVars, asked, history, SessionsInv, Belongs, Of, InOrder
<1>6. \A r \in Requests : Staged(r)' /\ Unsaid(r)'
  BY ZenonT(60), <1>1, <1>3 DEF asked, seen, history, SessionsInv, Proper, Staged, Unsaid
<1>7. \A r \in Requests : Proper(r)'
  BY <1>1, <1>6 DEF asked, seen, history, SessionsInv, Proper, InOrder, Holding, Of
<1>8. QED
  BY <1>2, <1>4, <1>5, <1>7 DEF SessionsInv

(* A request reaches each stage with what that stage relies on.            *)
LEMMA StagesKept ==
  ASSUME ConversationAssumption, SessionsInv, NEW r \in Requests, Proceed(r)
  PROVE  Staged(r)'
<1>. USE DEF Goto, Finish
<1>1. /\ RedisOK /\ RequestsOK /\ user[r] \in Users /\ NoUser \notin Users
      /\ sess[r] \in Sessions /\ Staged(r)
      /\ owner[sess[r]] \in {creator[sess[r]], NoUser}
      /\ creator' = creator /\ op' = op /\ user' = user /\ at'[r] # "idle"
      /\ DOMAIN at = Requests /\ DOMAIN role = Requests /\ DOMAIN seenOwner = Requests
      /\ DOMAIN todo = Requests /\ DOMAIN sess = Requests
  BY SessionsFacts, Framed
  DEF ConversationAssumption, SessionsInv, Proper, Belongs, RequestsOK, Begun
<1>2. CASE CheckOwner(r)
  <2>1. at'[r] \in {"find", "done"} /\ (at'[r] = "find" => user[r] = creator[sess[r]])
    BY <1>1, <1>2 DEF CheckOwner, Owned
  <2>2. QED
    BY <1>1, <1>2, <2>1 DEF CheckOwner, Staged, asked, seen
<1>3. CASE Find(r)
  <2>1. CASE at'[r] = "done"
    BY <1>1, <1>3, <2>1 DEF Staged
  <2>2. CASE at'[r] # "done"
    <3>1. /\ at'[r] \in {"read", "write", "meta"}
          /\ at'[r] = "read" => op[r] = "chat"
          /\ seenOwner'[r] = owner[sess[r]] /\ role' = role /\ sess' = sess
      BY <1>1, <1>3, <2>2 DEF Find, asked
    <3>2. at[r] = "find"
      BY <1>3 DEF Find
    <3>3. QED
      BY <1>1, <3>1, <3>2 DEF Staged
  <2>3. QED
    BY <2>1, <2>2
<1>4. CASE ReadMessages(r)
  BY <1>1, <1>4 DEF ReadMessages, Staged, asked
<1>5. CASE ReadMeta(r)
  <2>1. \/ at'[r] = "done"
        \/ at'[r] = "write" /\ seenOwner'[r] = owner[sess[r]]
    BY <1>1, <1>5 DEF ReadMeta
  <2>2. QED
    BY <1>1, <1>5, <2>1 DEF ReadMeta, Staged, asked
<1>6. CASE Writes(r)
  <2>1. /\ at[r] = "write" /\ role' = role /\ sess' = sess
        /\ \/ at'[r] = "done"
           \/ at'[r] = "think" /\ role[r] = "user" /\ op[r] = "chat"
    BY <1>1, <1>6 DEF Writes, WriteReturns, WriteFails, asked, seen
  <2>2. QED
    BY <1>1, <2>1 DEF Staged
<1>7. CASE Answer(r)
  BY <1>1, <1>7 DEF Answer, Staged, asked
<1>8. CASE FallBack(r) \/ Fail(r)
  BY <1>1, <1>8 DEF FallBack, Fail, Staged, asked, seen
<1>9. CASE ReadIndex(r)
  <2>1. /\ at[r] = "ids" /\ at'[r] \in {"done", "check"} /\ todo'[r] = userIndex[user[r]]
    BY <1>1, <1>9 DEF ReadIndex
  <2>2. \A s \in userIndex[user[r]] : creator[s] = user[r]
    BY <1>1 DEF SessionsInv, Belongs, RedisOK
  <2>3. QED
    BY <1>1, <2>1, <2>2 DEF Staged
<1>10. CASE CheckListed(r)
  <2>1. PICK s \in todo[r] :
          /\ at[r] = "check" /\ sess'[r] = s /\ todo'[r] = todo[r] \ {s}
          /\ at'[r] \in {"drop", "check", "done"}
    BY <1>1, <1>10 DEF CheckListed
  <2>2. QED
    BY <1>1, <2>1 DEF Staged
<1>11. CASE DropListed(r)
  <2>1. at[r] = "drop" /\ at'[r] \in {"check", "done"} /\ todo' = todo
    BY <1>1, <1>11 DEF DropListed, seen
  <2>2. QED
    BY <1>1, <2>1 DEF Staged
<1>12. QED
  BY <1>2, <1>3, <1>4, <1>5, <1>6, <1>7, <1>8, <1>9, <1>10, <1>11 DEF Proceed, Writes

(* What it has yet to say remains unsaid.                                  *)
LEMMA UnsaidKept ==
  ASSUME ConversationAssumption, SessionsInv, NEW r \in Requests, Proceed(r)
  PROVE  Unsaid(r)'
<1>. USE DEF Goto, Finish
<1>1. /\ RedisOK /\ RequestsOK /\ Begun /\ Unsaid(r) /\ Staged(r)
      /\ DOMAIN at = Requests /\ DOMAIN role = Requests
      /\ role[r] \in Roles /\ at[r] \notin {"idle", "done"}
  BY SessionsFacts, Framed DEF SessionsInv, Proper, RequestsOK
<1>2. CASE Writes(r)
  <2>1. /\ at[r] = "write" /\ role' = role
        /\ \/ at'[r] = "done"
           \/ at'[r] = "think" /\ role[r] = "user"
    BY <1>1, <1>2 DEF Writes, WriteReturns, WriteFails, seen
  <2>2. \A m \in Ever' : m \in Ever \/ m = <<r, role[r]>>
    BY <1>1, <1>2, WriteSays
  <2>3. QED
    BY <1>1, <2>1, <2>2 DEF Unsaid
<1>3. CASE ~Writes(r) /\ at[r] # "think"
  <2>1. Ever' \subseteq Ever /\ role'[r] = role[r]
    BY <1>1, <1>3, QuietSays, Quiet
  <2>2. QED
    BY <1>1, <1>3, <2>1 DEF Unsaid
<1>4. CASE ~Writes(r) /\ at[r] = "think"
  <2>1. Ever' \subseteq Ever
    BY <1>1, <1>4, QuietSays
  <2>2. Answer(r) \/ FallBack(r) \/ Fail(r)
    BY <1>4 DEF Proceed, Writes, CheckOwner, Find, ReadMessages, ReadMeta, ReadIndex,
                CheckListed, DropListed
  <2>3. at'[r] = "done" \/ role'[r] = "assistant"
    BY <1>1, <2>2 DEF Answer, FallBack, Fail
  <2>4. role[r] = "user" /\ <<r, "assistant">> \notin Ever
    BY <1>1, <1>4 DEF Unsaid, Staged
  <2>5. QED
    BY <2>1, <2>3, <2>4 DEF Unsaid
<1>5. QED
  BY <1>2, <1>3, <1>4

LEMMA ProceedKeeps ==
  ASSUME ConversationAssumption, SessionsInv, NEW r \in Requests, Proceed(r), TypeOK'
  PROVE  SessionsInv'
<1>1. /\ RedisOK /\ RequestsOK /\ Begun /\ sess[r] \in Sessions /\ role[r] \in Roles
      /\ op' = op /\ user' = user /\ creator' = creator
      /\ Staged(r) /\ Unsaid(r)
  BY SessionsFacts, Framed DEF SessionsInv, Proper, RequestsOK
<1>2. \A m \in Ever : sess'[m[1]] = sess[m[1]]
  BY <1>1, SessionsFacts, Framed DEF Staged
<1>3. \A m \in Ever' : m \in Ever
                        \/ (Writes(r) /\ m = <<r, role[r]>> /\ op[r] = "chat")
  BY <1>1, WriteSays, QuietSays
<1>4. Writes(r) => Write(r) /\ at[r] = "write" /\ sess' = sess /\ seenMessages' = seenMessages
  BY DEF Writes, WriteReturns, WriteFails, asked, seen
<1>5. Said'
  BY <1>1, <1>2, <1>3, <1>4 DEF SessionsInv, Said, Staged
<1>6. ASSUME NEW s \in Sessions
      PROVE  Belongs(s)'
  <2>1. owner'[s] \in {creator[s], NoUser}
        /\ \A u \in Users : s \in userIndex'[u] => creator[s] = u
    <3>1. CASE Writes(r)
      <4>1. seenOwner[r] \in {creator[sess[r]], NoUser}
        BY <1>1, <1>4, <3>1 DEF Staged
      <4>2. QED
        BY <1>1, <1>4, <3>1, <4>1, WrittenFor, ConversationAssumption DEF SessionsInv, Belongs
    <3>2. CASE ~Writes(r)
      BY <1>1, <3>2, Quiet DEF SessionsInv, Belongs
    <3>3. QED
      BY <3>1, <3>2
  <2>2. \/ messages'[s] = messages[s] /\ messagesLife'[s] = messagesLife[s]
        \/ messages'[s] = <<>> /\ messagesLife'[s] = 0
        \/ /\ Writes(r) /\ op[r] = "chat" /\ s = sess[r]
           /\ messages'[s] = Window(Longer(r)) /\ messagesLife'[s] = Lifetime
    <3>1. CASE Writes(r)
      BY ZenonT(60), <1>1, <1>4, <3>1, Written DEF Untouched, Emptied, Lengthened, RedisOK
    <3>2. CASE ~Writes(r)
      BY <1>1, <3>2, Quiet
    <3>3. QED
      BY <3>1, <3>2
  <2>3. Of(s, messages[s])' /\ InOrder(messages[s])' /\ (messages[s] = <<>> <=> messagesLife[s] = 0)'
    <3>1. CASE messages'[s] = messages[s] /\ messagesLife'[s] = messagesLife[s]
      BY <1>2, <3>1, EverHas DEF SessionsInv, Belongs, Of, InOrder, Contents
    <3>2. CASE messages'[s] = <<>> /\ messagesLife'[s] = 0
      BY <3>2, EmptyOK DEF Of, InOrder, ToSet
    <3>3. CASE /\ Writes(r) /\ op[r] = "chat" /\ s = sess[r]
               /\ messages'[s] = Window(Longer(r)) /\ messagesLife'[s] = Lifetime
      <4>1. Holding(r)
        BY <1>4, <3>3 DEF Holding
      <4>2. InOrder(seenMessages[r]) /\ Of(s, seenMessages[r])
        BY <3>3, <4>1 DEF SessionsInv, Proper
      <4>3. /\ <<r, role[r]>> \notin ToSet(seenMessages[r])
            /\ role[r] = "user" => <<r, "assistant">> \notin ToSet(seenMessages[r])
        BY <1>1, <1>4, <3>3, EverHas DEF Unsaid
      <4>4. InOrder(Window(Longer(r)))
        BY <1>1, <4>2, <4>3, OrderKept DEF Longer, RequestsOK
      <4>5. \A m \in ToSet(Window(Longer(r))) : m \in ToSet(seenMessages[r]) \/ m = <<r, role[r]>>
        BY <1>1, LongerOK
      <4>6. Of(s, messages[s])'
        BY <1>4, <3>3, <4>2, <4>5 DEF Of
      <4>7. Window(Longer(r)) # <<>> /\ Lifetime # 0
        BY <1>1, LongerOK DEF ConversationAssumption
      <4>8. QED
        BY <3>3, <4>4, <4>6, <4>7 DEF InOrder
    <3>4. QED
      BY <2>2, <3>1, <3>2, <3>3
  <2>4. QED
    BY <1>1, <2>1, <2>3 DEF Belongs
<1>7. ASSUME NEW q \in Requests
      PROVE  Proper(q)'
  <2>1. CASE q = r
    <3>1. Staged(r)' /\ Unsaid(r)'
      BY StagesKept, UnsaidKept
    <3>2. InOrder(seenMessages[r])'
      <4>1. seenMessages'[r] \in {seenMessages[r], messages[sess[r]]}
        BY <1>1, <1>4, Quiet
      <4>2. QED
        BY <1>1, <4>1 DEF SessionsInv, Proper, Belongs, InOrder
    <3>3. (Holding(r) => Of(sess[r], seenMessages[r]))'
      <4>1. SUFFICES ASSUME Holding(r)' PROVE Of(sess[r], seenMessages[r])'
        OBVIOUS
      <4>2. op[r] = "chat" /\ at'[r] \in {"meta", "write"}
        BY <1>1, <4>1 DEF Holding
      <4>3. at[r] \in {"read", "meta"}
        BY <1>1, <4>2 DEF Proceed, CheckOwner, Find, ReadMessages, ReadMeta, WriteReturns,
             WriteFails, Answer, FallBack, Fail, ReadIndex, CheckListed, DropListed, Goto, Finish,
             Staged, RequestsOK
      <4>4. CASE at[r] = "read"
        <5>1. seenMessages'[r] = messages[sess[r]] /\ sess' = sess
          BY <1>1, <4>2, <4>4 DEF Proceed, CheckOwner, Find, ReadMessages, ReadMeta, WriteReturns,
               WriteFails, Answer, FallBack, Fail, ReadIndex, CheckListed, DropListed, Goto, Finish,
               RequestsOK, asked
        <5>2. QED
          BY <1>1, <5>1 DEF SessionsInv, Belongs, Of
      <4>5. CASE at[r] = "meta"
        <5>1. Holding(r) /\ seenMessages'[r] = seenMessages[r] /\ sess'[r] = sess[r]
          BY <1>1, <1>4, <4>2, <4>5, Quiet, Framed DEF Holding
        <5>2. QED
          BY <1>2, <5>1, EverHas DEF SessionsInv, Proper, Of
      <4>6. QED
        BY <4>3, <4>4, <4>5
    <3>4. QED
      BY <2>1, <3>1, <3>2, <3>3 DEF Proper
  <2>2. CASE q # r
    <3>1. /\ at'[q] = at[q] /\ sess'[q] = sess[q] /\ role'[q] = role[q] /\ todo'[q] = todo[q]
          /\ seenMessages'[q] = seenMessages[q] /\ seenOwner'[q] = seenOwner[q]
      BY <1>1, <2>2, Framed
    <3>2. \A x : <<q, x>> \in Ever' => <<q, x>> \in Ever
      BY <1>3, <2>2
    <3>3. Staged(q)'
      BY <1>1, <3>1 DEF SessionsInv, Proper, Staged
    <3>4. Unsaid(q)'
      BY <3>1, <3>2 DEF SessionsInv, Proper, Unsaid
    <3>5. (Holding(q) => Of(sess[q], seenMessages[q]))'
      BY <1>1, <1>2, <3>1, EverHas DEF SessionsInv, Proper, Holding, Of
    <3>6. QED
      BY <3>1, <3>3, <3>4, <3>5 DEF SessionsInv, Proper, InOrder
  <2>3. QED
    BY <2>1, <2>2
<1>8. Outlived'
  <2>1. CASE Writes(r)
    <3>1. \A s \in Sessions \ {sess[r]} : messagesLife'[s] = messagesLife[s] /\ metaLife'[s] = metaLife[s]
      <4>1. \A s \in Sessions \ {sess[r]} : metaLife'[s] = metaLife[s]
        BY <1>1, <1>4, <2>1, WrittenFor
      <4>2. Untouched(r) \/ Emptied(r) \/ Lengthened(r)
        BY <1>1, <1>4, <2>1, Written
      <4>3. \A s \in Sessions \ {sess[r]} : messagesLife'[s] = messagesLife[s]
        BY <1>1, <4>2 DEF Untouched, Emptied, Lengthened, RedisOK
      <4>4. QED
        BY <4>1, <4>3
    <3>2. messagesLife'[sess[r]] <= metaLife'[sess[r]]
      <4>1. \/ metaLife'[sess[r]] = Lifetime
            \/ metaLife'[sess[r]] = 0 /\ messagesLife'[sess[r]] = 0
        BY <1>1, <1>4, <2>1, WrittenFor DEF Emptied, RedisOK
      <4>2. messagesLife'[sess[r]] \in 0..Lifetime
        BY <1>1 DEF TypeOK
      <4>3. QED
        BY <4>1, <4>2 DEF ConversationAssumption
    <3>3. QED
      BY <3>1, <3>2 DEF SessionsInv, Outlived
  <2>2. CASE ~Writes(r)
    <3>1. messagesLife' = messagesLife /\ metaLife' = metaLife
      BY <2>2 DEF Proceed, Writes, CheckOwner, Find, ReadMessages, ReadMeta, Answer, FallBack,
                  Fail, ReadIndex, CheckListed, DropListed, redisVars
    <3>2. QED
      BY <3>1 DEF SessionsInv, Outlived
  <2>3. QED
    BY <2>1, <2>2
<1>9. QED
  BY <1>5, <1>6, <1>7, <1>8 DEF SessionsInv

LEMMA SessionsKept ==
  ASSUME ConversationAssumption, SessionsInv, [Next]_vars
  PROVE  SessionsInv'
<1>1. TypeOK'
  BY TypesKept, SessionsFacts DEF SessionsInv
<1>2. QED
  BY <1>1, StartKeeps, BeginKeeps, ProceedKeeps, LapseKeeps, SessionsStutter DEF Next

LEMMA SessionsAlways == Spec => []SessionsInv
<1>1. Init => SessionsInv
  BY InitSessions, ConversationAssumption
<1>2. SessionsInv /\ [Next]_vars => SessionsInv'
  BY SessionsKept, ConversationAssumption
<1>3. QED
  BY <1>1, <1>2, PTL DEF Spec

(* A session names and holds nobody but its creator and what was said in   *)
(* the creator's requests for it, for any number of users and requests.    *)
THEOREM SessionsHaveOneOwner == Spec => []OneOwner
<1>1. ASSUME SessionsInv
      PROVE  OneOwner
  <2>1. ASSUME NEW s \in Sessions, NEW m \in Contents(s)
        PROVE  user[m[1]] = creator[s] /\ sess[m[1]] = s
    <3>1. sess[m[1]] = s
      BY <1>1 DEF SessionsInv, Belongs, Of, Contents
    <3>2. QED
      BY <1>1, <3>1, EverHas DEF SessionsInv, Said
  <2>2. QED
    BY <1>1, <2>1 DEF SessionsInv, Belongs, OneOwner
<1>2. QED
  BY <1>1, SessionsAlways, PTL

(* No message is in a history twice, and no answer before its question,    *)
(* whatever was written back over what.                                    *)
THEOREM QuestionsComeFirst == Spec => []QuestionFirst
<1>1. SessionsInv => QuestionFirst
  BY DEF SessionsInv, Belongs, InOrder, QuestionFirst
<1>2. QED
  BY <1>1, SessionsAlways, PTL
-----------------------------------------------------------------------------
(***************************************************************************)
(* Metadata that name no owner, and how they come about.                   *)
(***************************************************************************)
(* Who was interrupted stays so, and on its session.                       *)
LEMMA StillInterrupted ==
  ASSUME SessionsInv, EstrangedInv, [Next]_vars
  PROVE  /\ interrupted \subseteq interrupted'
         /\ \A q \in interrupted : q \in Requests /\ op'[q] = op[q] /\ sess'[q] = sess[q]
<1>1. RedisOK /\ RequestsOK /\ Begun
  BY SessionsFacts
<1>2. \A q \in interrupted : /\ q \in Requests /\ at[q] # "idle" /\ op[q] # "list"
                             /\ at[q] # "check"
  BY <1>1 DEF EstrangedInv, Deprived, SessionsInv, Proper, Staged, RequestsOK
<1>3. ASSUME NEW s \in Sessions, NEW u \in Users, StartSession(s, u)
      PROVE  /\ interrupted \subseteq interrupted'
             /\ \A q \in interrupted : op'[q] = op[q] /\ sess'[q] = sess[q]
  BY <1>3 DEF StartSession, asked
<1>4. ASSUME NEW r \in Requests, NEW o \in Ops, NEW u \in Users, NEW s \in Sessions,
             Begin(r, o, u, s)
      PROVE  /\ interrupted \subseteq interrupted'
             /\ \A q \in interrupted : op'[q] = op[q] /\ sess'[q] = sess[q]
  <2>1. /\ at[r] = "idle" /\ interrupted' = interrupted
        /\ \A q \in Requests \ {r} : op'[q] = op[q] /\ sess'[q] = sess[q]
    BY <1>1, <1>4 DEF Begin, RequestsOK
  <2>2. QED
    BY <1>2, <2>1
<1>5. ASSUME NEW r \in Requests, Proceed(r)
      PROVE  /\ interrupted \subseteq interrupted'
             /\ \A q \in interrupted : op'[q] = op[q] /\ sess'[q] = sess[q]
  <2>1. interrupted \subseteq interrupted'
    <3>1. CASE Writes(r)
      BY <3>1, WriteInterrupts DEF Writes, WriteReturns, WriteFails
    <3>2. CASE ~Writes(r)
      BY <1>1, <1>5, <3>2, Quiet
    <3>3. QED
      BY <3>1, <3>2
  <2>2. \A q \in interrupted : op'[q] = op[q] /\ sess'[q] = sess[q]
    BY <1>1, <1>2, <1>5, Framed
  <2>3. QED
    BY <2>1, <2>2
<1>6. ASSUME Lapse
      PROVE  /\ interrupted \subseteq interrupted'
             /\ \A q \in interrupted : op'[q] = op[q] /\ sess'[q] = sess[q]
  BY <1>6 DEF Lapse, asked
<1>7. ASSUME UNCHANGED vars
      PROVE  /\ interrupted \subseteq interrupted'
             /\ \A q \in interrupted : op'[q] = op[q] /\ sess'[q] = sess[q]
  BY <1>7 DEF vars, history, asked
<1>8. QED
  BY <1>2, <1>3, <1>4, <1>5, <1>6, <1>7 DEF Next

LEMMA StillEstranged ==
  ASSUME SessionsInv, EstrangedInv, [Next]_vars, NEW s
  PROVE  (Estranged(s) => Estranged(s)') /\ (Restored(s) => Restored(s)')
BY StillInterrupted DEF Estranged, Restored

OwnerInv(s) == Exists(s) /\ owner[s] # creator[s] => Estranged(s)

LEMMA EstrangedStart ==
  ASSUME ConversationAssumption, SessionsInv, EstrangedInv,
         NEW s \in Sessions, NEW u \in Users, StartSession(s, u)
  PROVE  EstrangedInv'
<1>1. /\ RequestsOK /\ RedisOK /\ Lifetime > 0
      /\ creator' = [creator EXCEPT ![s] = u] /\ owner' = [owner EXCEPT ![s] = u]
      /\ metaLife' = [metaLife EXCEPT ![s] = Lifetime]
      /\ UNCHANGED <<at, op, user, sess, seenOwner, interrupted>>
  BY SessionsFacts DEF StartSession, asked, seen, ConversationAssumption
<1>2. \A t \in Sessions : Estranged(t) => Estranged(t)'
  BY StillEstranged DEF Next
<1>3. ASSUME NEW t \in Sessions
      PROVE  OwnerInv(t)'
  <2>1. CASE t = s
    BY <1>1, <2>1 DEF OwnerInv, RedisOK, RequestsOK
  <2>2. CASE t # s
    BY <1>1, <1>2, <2>2 DEF OwnerInv, EstrangedInv, Exists, RedisOK, RequestsOK
  <2>3. QED
    BY <2>1, <2>2
<1>4. ASSUME NEW q \in Requests
      PROVE  Deprived(q)'
  <2>1. Exists(sess[q]) => Exists(sess[q])'
    BY <1>1 DEF Exists, RedisOK, RequestsOK
  <2>2. QED
    BY <1>1, <1>2, <2>1 DEF EstrangedInv, Deprived, RequestsOK
<1>5. QED
  BY <1>3, <1>4 DEF EstrangedInv, OwnerInv

LEMMA EstrangedBegin ==
  ASSUME SessionsInv, EstrangedInv, NEW r \in Requests, NEW o \in Ops, NEW u \in Users,
         NEW s \in Sessions, Begin(r, o, u, s)
  PROVE  EstrangedInv'
<1>1. /\ RequestsOK /\ at[r] = "idle" /\ at'[r] \in {"own", "ids"} /\ r \notin interrupted
      /\ \A q \in Requests \ {r} :
           at'[q] = at[q] /\ op'[q] = op[q] /\ user'[q] = user[q] /\ sess'[q] = sess[q]
      /\ UNCHANGED <<owner, metaLife, seenOwner, creator, interrupted>>
  BY SessionsFacts DEF Begin, Goto, RequestsOK, redisVars, seen, EstrangedInv, Deprived
<1>2. \A t \in Sessions : Estranged(t) => Estranged(t)'
  BY StillEstranged DEF Next
<1>3. \A t \in Sessions : OwnerInv(t)'
  BY <1>1, <1>2 DEF EstrangedInv, OwnerInv, Exists
<1>4. ASSUME NEW q \in Requests
      PROVE  Deprived(q)'
  <2>1. CASE q = r
    BY <1>1, <2>1 DEF Deprived
  <2>2. CASE q # r
    BY <1>1, <1>2, <2>2 DEF EstrangedInv, Deprived, Exists, RequestsOK
  <2>3. QED
    BY <2>1, <2>2
<1>5. QED
  BY <1>3, <1>4 DEF EstrangedInv, OwnerInv

LEMMA EstrangedLapse ==
  ASSUME ConversationAssumption, SessionsInv, EstrangedInv, Lapse
  PROVE  EstrangedInv'
<1>1. /\ RedisOK /\ RequestsOK
      /\ UNCHANGED <<at, op, user, sess, seenOwner, creator>>
      /\ interrupted' = interrupted \union
           UNION {Amid(s) : s \in {t \in Sessions : messagesLife[t] = 1 \/ metaLife[t] = 1}}
      /\ owner' = [s \in Sessions |-> IF metaLife'[s] = 0 THEN NoUser ELSE owner[s]]
      /\ metaLife' = [s \in Sessions |-> IF metaLife[s] > 0 THEN metaLife[s] - 1 ELSE 0]
      /\ Lifetime \in Nat
  BY SessionsFacts DEF Lapse, asked, seen, ConversationAssumption
<1>2. \A t \in Sessions : Estranged(t) => Estranged(t)'
  BY StillEstranged DEF Next
<1>3. ASSUME NEW s \in Sessions
      PROVE  OwnerInv(s)'
  <2>1. metaLife[s] \in 0..Lifetime
    BY <1>1 DEF RedisOK
  <2>2. Exists(s)' => Exists(s) /\ owner'[s] = owner[s]
    BY <1>1, <2>1 DEF Exists
  <2>3. QED
    BY <1>1, <1>2, <2>2 DEF EstrangedInv, OwnerInv
<1>4. ASSUME NEW q \in Requests
      PROVE  Deprived(q)'
  <2>1. sess[q] \in Sessions /\ metaLife[sess[q]] \in 0..Lifetime
    BY <1>1 DEF RedisOK, RequestsOK
  <2>2. Exists(sess[q]) /\ ~Exists(sess[q])' => metaLife[sess[q]] = 1
    BY <1>1, <2>1 DEF Exists
  <2>3. at[q] \in {"read", "meta"} /\ metaLife[sess[q]] = 1 => q \in interrupted'
    BY <1>1, <2>1 DEF Amid
  <2>4. q \in interrupted' => q \in interrupted \/ at[q] \in {"read", "meta", "write"}
    BY <1>1 DEF Amid
  <2>5. at[q] \in {"read", "meta", "write"} => op[q] # "list"
    BY DEF SessionsInv, Proper, Staged
  <2>6. Deprived(q) /\ interrupted \subseteq interrupted'
    BY <1>1 DEF EstrangedInv
  <2>7. (at[q] \in {"read", "meta"} /\ ~Exists(sess[q]) => q \in interrupted)'
    BY <1>1, <2>2, <2>3, <2>6 DEF Deprived
  <2>8. (q \in interrupted => at[q] # "idle" /\ op[q] # "list")'
    BY <1>1, <2>4, <2>5, <2>6 DEF Deprived
  <2>9. QED
    BY <1>1, <1>2, <2>1, <2>6, <2>7, <2>8 DEF Deprived
<1>5. QED
  BY <1>3, <1>4 DEF EstrangedInv, OwnerInv

(* What a request that does not write comes to know of the owner.          *)
LEMMA LearnsOwner ==
  ASSUME SessionsInv, EstrangedInv, NEW r \in Requests, Proceed(r), ~Writes(r)
  PROVE  /\ at'[r] \in {"read", "meta"} => sess'[r] = sess[r] /\ (Exists(sess[r]) \/ r \in interrupted)
         /\ at'[r] = "write" => /\ sess'[r] = sess[r] /\ seenOwner'[r] = owner[sess[r]]
                                /\ \/ Exists(sess[r])
                                   \/ r \in interrupted /\ op[r] \in {"chat", "reset"}
         /\ at'[r] = "meta" => op[r] # "delete"
<1>. USE DEF Goto, Finish
<1>1. RequestsOK /\ Staged(r) /\ Deprived(r) /\ op[r] \in Ops
  BY SessionsFacts DEF SessionsInv, Proper, EstrangedInv, RequestsOK
<1>2. CASE at'[r] \notin {"read", "meta", "write"}
  BY <1>2
<1>3. CASE at'[r] \in {"read", "meta", "write"}
  <2>1. Find(r) \/ ReadMessages(r) \/ ReadMeta(r)
    BY <1>1, <1>3 DEF Proceed, Writes, CheckOwner, Answer, FallBack, Fail, ReadIndex, CheckListed,
                      DropListed, RequestsOK
  <2>2. CASE Find(r)
    <3>1. /\ Exists(sess[r]) /\ sess' = sess /\ seenOwner'[r] = owner[sess[r]]
          /\ at'[r] = "meta" => op[r] # "delete"
      BY <1>1, <1>3, <2>2 DEF Find, RequestsOK, asked, Owned
    <3>2. QED
      BY <3>1
  <2>3. CASE ReadMessages(r)
    BY <1>1, <2>3 DEF ReadMessages, RequestsOK, asked, Staged, Deprived
  <2>4. CASE ReadMeta(r)
    <3>1. /\ at[r] = "meta" /\ at'[r] = "write" /\ sess' = sess /\ seenOwner'[r] = owner[sess[r]]
          /\ op[r] = "rename" => Exists(sess[r])
      BY <1>1, <1>3, <2>4 DEF ReadMeta, RequestsOK, asked
    <3>2. op[r] \in {"chat", "reset", "rename"}
      BY <1>1, <3>1 DEF Staged, Deprived, Ops
    <3>3. QED
      BY <1>1, <3>1, <3>2 DEF Deprived
  <2>5. QED
    BY <2>1, <2>2, <2>3, <2>4
<1>4. QED
  BY <1>2, <1>3

LEMMA EstrangedProceed ==
  ASSUME ConversationAssumption, SessionsInv, EstrangedInv, NEW r \in Requests, Proceed(r)
  PROVE  EstrangedInv'
<1>1. /\ RedisOK /\ RequestsOK /\ Begun /\ Staged(r) /\ Deprived(r) /\ sess[r] \in Sessions
      /\ op' = op /\ user' = user /\ creator' = creator
      /\ at[r] \notin {"idle", "done"} /\ at'[r] # "idle"
      /\ \A q \in Requests \ {r} : /\ at'[q] = at[q] /\ sess'[q] = sess[q]
                                   /\ seenOwner'[q] = seenOwner[q]
  BY SessionsFacts, Framed DEF SessionsInv, Proper, EstrangedInv, RequestsOK
<1>2. /\ \A t \in Sessions : Estranged(t) => Estranged(t)'
      /\ interrupted \subseteq interrupted'
  BY StillEstranged, StillInterrupted DEF Next
<1>3. CASE ~Writes(r)
  <2>1. UNCHANGED <<owner, metaLife, interrupted>>
    BY <1>1, <1>3, Quiet
  <2>2. \A t \in Sessions : OwnerInv(t)'
    BY <1>1, <1>2, <2>1 DEF EstrangedInv, OwnerInv, Exists
  <2>3. ASSUME NEW q \in Requests, q # r
        PROVE  Deprived(q)'
    BY <1>1, <1>2, <2>1, <2>3 DEF EstrangedInv, Deprived, Exists, RequestsOK
  <2>4. Deprived(r)'
    <3>1. at'[r] \in {"read", "meta"} /\ ~Exists(sess[r])' => r \in interrupted'
      BY <1>3, <2>1, LearnsOwner DEF Exists
    <3>2. ASSUME at'[r] = "write", seenOwner'[r] # user[r]
          PROVE  Estranged(sess[r])'
      <4>1. /\ sess'[r] = sess[r] /\ seenOwner'[r] = owner[sess[r]]
            /\ Exists(sess[r]) \/ (r \in interrupted /\ op[r] \in {"chat", "reset"})
        BY <1>3, <3>2, LearnsOwner
      <4>2. user[r] = creator[sess[r]]
        <5>1. at[r] \in {"find", "read", "meta"}
          BY <1>1, <1>3, <3>2 DEF Proceed, Writes, CheckOwner, Find, ReadMessages, ReadMeta, Answer,
               FallBack, Fail, ReadIndex, CheckListed, DropListed, Goto, Finish, RequestsOK, Staged
        <5>2. QED
          BY <1>1, <5>1 DEF Staged
      <4>3. Estranged(sess[r])
        BY <1>1, <3>2, <4>1, <4>2 DEF EstrangedInv, Estranged
      <4>4. QED
        BY <1>1, <1>2, <4>1, <4>3 DEF Estranged
    <3>3. QED
      BY <1>1, <1>3, <2>1, <3>1, <3>2, LearnsOwner DEF Deprived
  <2>5. QED
    BY <2>2, <2>3, <2>4 DEF EstrangedInv, OwnerInv
<1>4. CASE Writes(r)
  <2>1. Write(r) /\ at[r] = "write" /\ at'[r] \in {"think", "done"} /\ sess' = sess
    BY <1>1, <1>4 DEF Writes, WriteReturns, WriteFails, asked, Goto, Finish, RequestsOK
  <2>2. \/ interrupted' = interrupted
        \/ interrupted' = interrupted \union (Amid(sess[r]) \ {r}) /\ op[r] = "delete"
    BY <2>1, WriteInterrupts
  <2>3. /\ \A s \in Sessions \ {sess[r]} : owner'[s] = owner[s] /\ metaLife'[s] = metaLife[s]
        /\ \/ metaLife'[sess[r]] = 0 /\ op[r] = "delete"
           \/ owner'[sess[r]] = seenOwner[r] /\ metaLife'[sess[r]] = Lifetime
    BY <1>1, <2>1, WrittenFor
  <2>4. ASSUME NEW s \in Sessions
        PROVE  OwnerInv(s)'
    <3>1. CASE s = sess[r]
      <4>1. SUFFICES ASSUME Exists(s)', owner'[s] # creator[s] PROVE Estranged(s)'
        BY <1>1 DEF OwnerInv
      <4>2. owner'[s] = seenOwner[r] /\ user[r] = creator[s]
        BY <1>1, <2>1, <2>3, <3>1, <4>1 DEF Exists, Staged
      <4>3. Estranged(s)
        BY <1>1, <2>1, <3>1, <4>1, <4>2 DEF Deprived
      <4>4. QED
        BY <1>2, <4>3
    <3>2. CASE s # sess[r]
      BY <1>1, <1>2, <2>3, <3>2 DEF EstrangedInv, OwnerInv, Exists
    <3>3. QED
      BY <3>1, <3>2
  <2>5. ASSUME NEW q \in Requests, q # r
        PROVE  Deprived(q)'
    <3>1. Deprived(q) /\ Staged(q) /\ sess[q] \in Sessions
      BY <1>1 DEF EstrangedInv, SessionsInv, Proper, RequestsOK
    <3>2. ASSUME at[q] \in {"read", "meta"}, ~Exists(sess[q])'
          PROVE  q \in interrupted'
      <4>1. CASE ~Exists(sess[q])
        BY <1>2, <3>1, <3>2, <4>1 DEF Deprived
      <4>2. CASE Exists(sess[q])
        <5>1. metaLife'[sess[q]] # metaLife[sess[q]] /\ ~(metaLife'[sess[q]] > 0)
          BY <2>1, <3>2, <4>2 DEF Exists
        <5>2. sess[q] = sess[r] /\ op[r] = "delete"
          BY <1>1, <2>3, <3>1, <5>1 DEF ConversationAssumption
        <5>3. interrupted' = interrupted \union (Amid(sess[r]) \ {r})
          BY <2>1, <5>2, WriteInterrupts
        <5>4. QED
          BY <2>5, <3>2, <5>2, <5>3 DEF Amid
      <4>3. QED
        BY <4>1, <4>2
    <3>3. q \in interrupted' => at[q] # "idle" /\ op[q] # "list"
      BY <2>2, <3>1 DEF Deprived, Staged, Amid
    <3>4. QED
      BY <1>1, <1>2, <2>5, <3>1, <3>2, <3>3, <2>1 DEF Deprived, Exists
  <2>6. Deprived(r)'
    <3>1. r \in interrupted' => r \in interrupted
      BY <2>2
    <3>2. QED
      BY <1>1, <2>1, <3>1 DEF Deprived, Staged
  <2>7. QED
    BY <2>4, <2>5, <2>6 DEF EstrangedInv, OwnerInv
<1>5. QED
  BY <1>3, <1>4

LEMMA EstrangedStutter ==
  ASSUME EstrangedInv, UNCHANGED vars
  PROVE  EstrangedInv'
<1>1. UNCHANGED <<owner, metaLife, at, op, user, sess, seenOwner, creator, interrupted>>
  BY DEF vars, redisVars, asked, seen, history
<1>2. QED
  BY <1>1 DEF EstrangedInv, Deprived, Estranged, Exists

LEMMA EstrangedKept ==
  ASSUME ConversationAssumption, SessionsInv, EstrangedInv, [Next]_vars
  PROVE  EstrangedInv'
BY EstrangedStart, EstrangedBegin, EstrangedLapse, EstrangedProceed, EstrangedStutter DEF Next

LEMMA InitEstranged == ConversationAssumption /\ Init => EstrangedInv
BY DEF Init, EstrangedInv, Deprived, Exists

(* Messages never outlive their metadata, whatever appends, renames,       *)
(* resets, deletes and expiries run into one another; and where the        *)
(* metadata name no owner, so that nobody may read or delete what is under *)
(* them, a chat or a reset was amid the session when a key of it went.     *)
THEOREM NothingIsOrphaned == Spec => []NoOrphans
<1>1. Init => SessionsInv /\ EstrangedInv
  BY InitSessions, InitEstranged, ConversationAssumption
<1>2. SessionsInv /\ EstrangedInv /\ [Next]_vars => (SessionsInv /\ EstrangedInv)'
  BY SessionsKept, EstrangedKept, ConversationAssumption
<1>3. SessionsInv /\ EstrangedInv => NoOrphans
  BY DEF SessionsInv, Outlived, EstrangedInv, NoOrphans
<1>4. QED
  BY <1>1, <1>2, <1>3, PTL DEF Spec
-----------------------------------------------------------------------------
(***************************************************************************)
(* What is lost, and when.                                                 *)
(***************************************************************************)
LEMMA TogetherKept ==
  ASSUME RequestsOK, Together, [Next]_vars
  PROVE  Together'
<1>1. ASSUME NEW s \in Sessions, NEW u \in Users, StartSession(s, u)
      PROVE  Together'
  BY <1>1 DEF StartSession, Together, Underway
<1>2. ASSUME NEW r \in Requests, NEW o \in Ops, NEW u \in Users, NEW s \in Sessions,
             Begin(r, o, u, s)
      PROVE  Together'
  <2>1. /\ \A q \in Requests \ {r} : at'[q] = at[q]
        /\ \A q \in Requests : q \in overlapped => q \in overlapped'
        /\ \A q \in Requests : Underway(q) => q \in overlapped' /\ r \in overlapped'
    BY <1>2 DEF Begin, Goto, RequestsOK
  <2>2. QED
    BY <2>1 DEF Together, Underway
<1>3. ASSUME NEW r \in Requests, Proceed(r)
      PROVE  Together'
  BY <1>3, Framed DEF Together, Underway
<1>4. CASE Lapse
  BY <1>4 DEF Lapse, Together, Underway
<1>5. CASE UNCHANGED vars
  BY <1>5 DEF vars, history, Together, Underway
<1>6. QED
  BY <1>1, <1>2, <1>3, <1>4, <1>5 DEF Next

(* A chat comes to hold a history by reading it.                           *)
LEMMA ComesToHold ==
  ASSUME SessionsInv, NEW r \in Requests, Proceed(r), Holding(r)'
  PROVE  /\ ~Writes(r) /\ sess' = sess /\ messages' = messages
         /\ UNCHANGED <<removed, expired, interrupted>>
         /\ \/ at[r] = "read" /\ seenMessages'[r] = messages[sess[r]]
            \/ Holding(r) /\ seenMessages'[r] = seenMessages[r]
<1>. USE DEF Goto, Finish
<1>1. RequestsOK /\ Staged(r) /\ op' = op
  BY SessionsFacts, Framed DEF SessionsInv, Proper
<1>2. op[r] = "chat" /\ at'[r] \in {"meta", "write"}
  BY <1>1 DEF Holding
<1>3. ReadMessages(r) \/ ReadMeta(r)
  BY <1>1, <1>2 DEF Proceed, CheckOwner, Find, WriteReturns,
       WriteFails, Answer, FallBack, Fail, ReadIndex, CheckListed, DropListed,
       Staged, RequestsOK
<1>4. CASE ReadMessages(r)
  BY <1>1, <1>2, <1>4 DEF ReadMessages, Writes, WriteReturns, WriteFails, RequestsOK, asked,
                          redisVars, history
<1>5. CASE ReadMeta(r)
  BY <1>1, <1>2, <1>5 DEF ReadMeta, Writes, WriteReturns, WriteFails, Holding, asked,
                          redisVars, history
<1>6. QED
  BY <1>3, <1>4, <1>5

LEMMA DifferKept ==
  ASSUME ConversationAssumption, SessionsInv, Together, \A q \in Requests : Differ(q),
         [Next]_vars
  PROVE  \A q \in Requests : Differ(q)'
<1>1. RedisOK /\ RequestsOK /\ Begun
  BY SessionsFacts
<1>2. ASSUME NEW s \in Sessions, NEW u \in Users, StartSession(s, u)
      PROVE  \A q \in Requests : Differ(q)'
  BY <1>2 DEF StartSession, Differ, Holding, Accounted, Contents, asked, seen
<1>3. ASSUME NEW r \in Requests, NEW o \in Ops, NEW u \in Users, NEW s \in Sessions,
             Begin(r, o, u, s)
      PROVE  \A q \in Requests : Differ(q)'
  <2>1. /\ at'[r] \in {"own", "ids"}
        /\ \A q \in Requests \ {r} : at'[q] = at[q] /\ op'[q] = op[q] /\ sess'[q] = sess[q]
        /\ UNCHANGED <<messages, seenMessages, removed, expired>> /\ overlapped \subseteq overlapped'
    BY <1>1, <1>3 DEF Begin, Goto, RequestsOK, redisVars, seen
  <2>2. QED
    BY <2>1 DEF Differ, Holding, Accounted, Contents
<1>4. ASSUME NEW r \in Requests, Proceed(r), NEW q \in Requests, Holding(q)',
             NEW m \in Message
      PROVE  (m \in ToSet(seenMessages'[q]) <=> m \in Contents(sess[q])') \/ Accounted(m)'
  <2>1. CASE q = r
    <3>1. Holding(r)'
      BY <1>4, <2>1
    <3>2. /\ sess' = sess /\ messages' = messages /\ overlapped' = overlapped
          /\ removed' = removed /\ expired' = expired
          /\ \/ seenMessages'[r] = messages[sess[r]]
             \/ Holding(r) /\ seenMessages'[r] = seenMessages[r]
      BY <1>1, <1>4, <3>1, ComesToHold, Framed
    <3>3. QED
      BY <2>1, <3>2 DEF Differ, Contents, Accounted
  <2>2. CASE q # r
    <3>1. /\ Holding(q) /\ sess'[q] = sess[q] /\ seenMessages'[q] = seenMessages[q]
          /\ overlapped' = overlapped /\ r \in overlapped /\ sess[q] \in Sessions
          /\ expired' = expired
      <4>1. expired' = expired
        BY <1>1, <1>4, Quiet DEF Writes, WriteReturns, WriteFails
      <4>2. QED
        BY <1>1, <1>4, <2>2, <4>1, Framed DEF Holding, Together, Underway, RequestsOK
    <3>2. (m \in ToSet(seenMessages[q]) <=> m \in Contents(sess[q])) \/ Accounted(m)
      BY <3>1 DEF Differ
    <3>3. CASE messages'[sess[q]] = messages[sess[q]] /\ removed \subseteq removed'
      BY <3>1, <3>2, <3>3 DEF Contents, Accounted
    <3>4. CASE Writes(r) /\ Emptied(r) /\ sess[r] = sess[q]
      <4>1. Contents(sess[q])' = {} /\ removed' = removed \union Contents(sess[q])
        BY <1>1, <3>1, <3>4, EmptyOK DEF Emptied, Contents, RedisOK
      <4>2. QED
        BY <3>1, <3>2, <4>1 DEF Accounted
    <3>5. CASE Writes(r) /\ Lengthened(r) /\ sess[r] = sess[q]
      <4>1. Holding(r)
        BY <3>5 DEF Holding, Writes, WriteReturns, WriteFails, Lengthened
      <4>2. (m \in ToSet(seenMessages[r]) <=> m \in Contents(sess[q])) \/ Accounted(m)
        BY <3>5, <4>1 DEF Differ
      <4>3. /\ Contents(sess[q])' = ToSet(Window(Longer(r)))
            /\ removed' = removed \union (ToSet(Longer(r)) \ ToSet(Window(Longer(r))))
        BY <1>1, <3>1, <3>5 DEF Lengthened, Contents, RedisOK
      <4>4. CASE m = <<r, role[r]>>
        BY <3>1, <4>4 DEF Accounted
      <4>5. CASE m # <<r, role[r]>>
        <5>1. m \in ToSet(Longer(r)) <=> m \in ToSet(seenMessages[r])
          BY <1>1, <4>5, LongerOK
        <5>2. m \in removed' \/ (m \in ToSet(Longer(r)) <=> m \in Contents(sess[q])')
          BY <1>1, <4>3, LongerOK
        <5>3. QED
          BY <3>1, <3>2, <4>2, <4>3, <5>1, <5>2 DEF Accounted
      <4>6. QED
        BY <4>4, <4>5
    <3>6. CASE ~Writes(r)
      BY <1>1, <1>4, <3>3, <3>6, Quiet
    <3>7. CASE Writes(r)
      <4>1. Write(r)
        BY <3>7 DEF Writes, WriteReturns, WriteFails
      <4>2. CASE Untouched(r)
        BY <3>3, <4>2 DEF Untouched
      <4>3. CASE Emptied(r) \/ Lengthened(r)
        <5>1. CASE sess[r] = sess[q]
          BY <3>4, <3>5, <3>7, <4>3, <5>1
        <5>2. CASE sess[r] # sess[q]
          BY <1>1, <3>1, <3>3, <4>3, <5>2 DEF Emptied, Lengthened, RedisOK
        <5>3. QED
          BY <5>1, <5>2
      <4>4. QED
        BY <1>1, <4>1, <4>2, <4>3, Written
    <3>8. QED
      BY <3>6, <3>7
  <2>3. QED
    BY <2>1, <2>2
<1>5. ASSUME Lapse, NEW q \in Requests, Holding(q), NEW m \in Message
      PROVE  (m \in ToSet(seenMessages[q]) <=> m \in ToSet(messages'[sess[q]])) \/ Accounted(m)'
  <2>1. /\ expired' = expired \union UNION {Contents(s) : s \in {t \in Sessions : messagesLife'[t] = 0}}
        /\ messages' = [s \in Sessions |-> IF messagesLife'[s] = 0 THEN <<>> ELSE messages[s]]
        /\ removed' = removed /\ overlapped' = overlapped
    BY <1>5 DEF Lapse
  <2>2. (m \in ToSet(seenMessages[q]) <=> m \in Contents(sess[q])) \/ Accounted(m)
    BY <1>5 DEF Differ
  <2>3. sess[q] \in Sessions
    BY <1>1 DEF RequestsOK
  <2>4. m \in Contents(sess[q]) => m \in ToSet(messages'[sess[q]]) \/ m \in expired'
    BY <2>1, <2>3 DEF Contents
  <2>5. m \in ToSet(messages'[sess[q]]) => m \in Contents(sess[q])
    BY <2>1, <2>3, EmptyOK DEF Contents
  <2>6. QED
    BY <2>1, <2>2, <2>4, <2>5 DEF Accounted
<1>6. CASE UNCHANGED vars
  BY <1>6 DEF vars, redisVars, asked, seen, history, Differ, Holding, Accounted, Contents
<1>7. ASSUME NEW r \in Requests, Proceed(r)
      PROVE  \A q \in Requests : Differ(q)'
  BY <1>4, <1>7 DEF Differ
<1>8. ASSUME Lapse
      PROVE  \A q \in Requests : Differ(q)'
  BY <1>5, <1>8 DEF Differ, Holding, Contents, Lapse, asked, seen
<1>9. QED
  BY <1>2, <1>3, <1>6, <1>7, <1>8 DEF Next

(* What was confirmed and is gone was removed, expired, or overlapped.     *)
Explained == \A m \in Lost : m[1] \in overlapped

LEMMA ExplainedKept ==
  ASSUME ConversationAssumption, SessionsInv, \A q \in Requests : Differ(q), Explained,
         [Next]_vars
  PROVE  Explained'
<1>1. RedisOK /\ RequestsOK /\ Begun
  BY SessionsFacts
<1>2. SUFFICES ASSUME NEW m \in confirmed', m \notin Stored', m \notin removed', m \notin expired'
               PROVE  m[1] \in overlapped'
  BY DEF Explained, Lost
<1>3. ASSUME m \in confirmed, removed \subseteq removed', expired \subseteq expired',
             overlapped \subseteq overlapped',
             ASSUME NEW s \in Sessions, m \in Contents(s)
             PROVE  m \in Contents(s)' \/ m \in removed' \union expired' \/ m[1] \in overlapped'
      PROVE  m[1] \in overlapped'
  <2>1. CASE m \in Lost
    BY <1>3, <2>1 DEF Explained
  <2>2. CASE m \notin Lost
    <3>1. PICK s \in Sessions : m \in Contents(s)
      BY <1>2, <1>3, <2>2 DEF Lost, Stored
    <3>2. m \notin Contents(s)'
      BY <1>2 DEF Stored
    <3>3. QED
      BY <1>2, <1>3, <3>1, <3>2
  <2>3. QED
    BY <2>1, <2>2
<1>4. ASSUME UNCHANGED <<messages, removed, expired, confirmed>>, overlapped \subseteq overlapped'
      PROVE  m[1] \in overlapped'
  BY <1>2, <1>3, <1>4 DEF Contents
<1>5. ASSUME NEW s \in Sessions, NEW u \in Users, StartSession(s, u)
      PROVE  m[1] \in overlapped'
  BY <1>4, <1>5 DEF StartSession
<1>6. ASSUME NEW r \in Requests, NEW o \in Ops, NEW u \in Users, NEW s \in Sessions,
             Begin(r, o, u, s)
      PROVE  m[1] \in overlapped'
  <2>1. UNCHANGED <<messages, removed, expired, confirmed>> /\ overlapped \subseteq overlapped'
    BY <1>6 DEF Begin, redisVars
  <2>2. QED
    BY <1>4, <2>1
<1>7. ASSUME NEW r \in Requests, Proceed(r)
      PROVE  m[1] \in overlapped'
  <2>1. CASE ~Writes(r)
    BY <1>1, <1>4, <1>7, <2>1, Quiet, Framed
  <2>2. CASE Writes(r)
    <3>1. /\ Write(r) /\ sess[r] \in Sessions /\ overlapped' = overlapped /\ expired' = expired
          /\ m \in confirmed \/ (m = <<r, role[r]>> /\ op[r] = "chat")
          /\ op[r] = "chat" => Holding(r)
      BY <1>1, <1>2, <2>2 DEF Writes, WriteReturns, WriteFails, RequestsOK, Holding
    <3>2. CASE Untouched(r)
      BY <1>2, <1>3, <3>1, <3>2 DEF Untouched, Contents
    <3>3. CASE Emptied(r)
      <4>1. ASSUME NEW s \in Sessions, m \in Contents(s)
            PROVE  m \in Contents(s)' \/ m \in removed'
        BY <1>1, <3>3, <4>1 DEF Emptied, Contents, RedisOK
      <4>2. QED
        BY <1>3, <3>1, <3>3, <4>1 DEF Emptied
    <3>4. CASE Lengthened(r)
      <4>1. /\ messages'[sess[r]] = Window(Longer(r))
            /\ removed' = removed \union (ToSet(Longer(r)) \ ToSet(Window(Longer(r))))
            /\ \A s \in Sessions \ {sess[r]} : messages'[s] = messages[s]
        BY <1>1, <3>1, <3>4 DEF Lengthened, RedisOK
      <4>2. m # <<r, role[r]>>
        <5>1. \A s \in Sessions : m \notin ToSet(messages'[s])
          BY <1>2 DEF Stored, Contents
        <5>2. m \notin ToSet(Window(Longer(r)))
          BY <3>1, <4>1, <5>1
        <5>3. QED
          BY <1>1, <5>2, LongerOK
      <4>3. ASSUME NEW s \in Sessions, m \in Contents(s)
            PROVE  m \in Contents(s)' \/ m \in removed' \union expired' \/ m[1] \in overlapped'
        <5>1. CASE s # sess[r]
          BY <4>1, <4>3, <5>1 DEF Contents
        <5>2. CASE s = sess[r]
          <6>1. m \in Message
            BY <1>1, <4>3, ContentsOK
          <6>2. m \in ToSet(seenMessages[r]) \/ Accounted(m)
            BY <3>1, <3>4, <4>3, <5>2, <6>1 DEF Differ, Lengthened
          <6>3. m \in ToSet(seenMessages[r]) => m \in ToSet(Longer(r))
            BY <1>1, LongerOK
          <6>4. QED
            BY <3>1, <4>1, <5>2, <6>2, <6>3 DEF Accounted, Contents
        <5>3. QED
          BY <5>1, <5>2
      <4>4. QED
        BY <1>3, <3>1, <4>1, <4>2, <4>3
    <3>5. QED
      BY <1>1, <3>1, <3>2, <3>3, <3>4, Written
  <2>3. QED
    BY <2>1, <2>2
<1>8. ASSUME Lapse
      PROVE  m[1] \in overlapped'
  <2>1. /\ expired' = expired \union UNION {Contents(s) : s \in {t \in Sessions : messagesLife'[t] = 0}}
        /\ \A s \in Sessions : messagesLife'[s] = 0 \/ messages'[s] = messages[s]
        /\ UNCHANGED <<confirmed, removed, overlapped>>
    BY <1>8 DEF Lapse
  <2>2. ASSUME NEW s \in Sessions, m \in Contents(s)
        PROVE  m \in Contents(s)' \/ m \in expired'
    BY <2>1, <2>2 DEF Contents
  <2>3. QED
    BY <1>2, <1>3, <2>1, <2>2
<1>9. CASE UNCHANGED vars
  BY <1>4, <1>9 DEF vars, redisVars, history
<1>10. QED
  BY <1>5, <1>6, <1>7, <1>8, <1>9 DEF Next
-----------------------------------------------------------------------------
(***************************************************************************)
(* One request at a time.                                                  *)
(***************************************************************************)
(* What a write leaves of the index.                                       *)
LEMMA WrittenIndex ==
  ASSUME RedisOK, RequestsOK, NEW r \in Requests, Write(r)
  PROVE  /\ \A u \in Users : /\ indexLife'[u] \in {indexLife[u], Lifetime}
                             /\ userIndex[u] \ {sess[r]} \subseteq userIndex'[u]
         /\ Untouched(r) => userIndex' = userIndex /\ owner'[sess[r]] = seenOwner[r]
         /\ Lengthened(r) => /\ owner'[sess[r]] = seenOwner[r] /\ metaLife'[sess[r]] = Lifetime
                             /\ seenOwner[r] \in Users =>
                                  /\ sess[r] \in userIndex'[seenOwner[r]]
                                  /\ indexLife'[seenOwner[r]] = Lifetime
<1>1. sess[r] \in Sessions
  BY DEF RequestsOK
<1>2. CASE WriteAppend(r)
  <2>1. op[r] = "chat" /\ owner'[sess[r]] = seenOwner[r] /\ metaLife'[sess[r]] = Lifetime
    BY <1>1, <1>2 DEF WriteAppend, PutMeta, RedisOK
  <2>2. CASE seenOwner[r] \in Users
    <3>1. /\ userIndex' = [userIndex EXCEPT ![seenOwner[r]] = @ \union {sess[r]}]
          /\ indexLife' = [indexLife EXCEPT ![seenOwner[r]] = Lifetime]
      BY <1>2, <2>2 DEF WriteAppend
    <3>2. QED
      BY <1>1, <2>1, <2>2, <3>1 DEF RedisOK, Untouched
  <2>3. CASE seenOwner[r] \notin Users
    BY <1>2, <2>1, <2>3 DEF WriteAppend, Untouched
  <2>4. QED
    BY <2>2, <2>3
<1>3. CASE WriteReset(r)
  <2>1. op[r] = "reset" /\ userIndex' = userIndex /\ indexLife' = indexLife
        /\ owner'[sess[r]] = seenOwner[r]
    BY <1>1, <1>3 DEF WriteReset, PutMeta, RedisOK
  <2>2. QED
    BY <2>1 DEF Lengthened
<1>4. CASE WriteRename(r)
  <2>1. op[r] = "rename" /\ userIndex' = userIndex /\ indexLife' = indexLife
        /\ owner'[sess[r]] = seenOwner[r]
    BY <1>1, <1>4 DEF WriteRename, PutMeta, RedisOK
  <2>2. QED
    BY <2>1 DEF Lengthened
<1>5. CASE WriteDelete(r)
  <2>1. /\ op[r] = "delete" /\ indexLife' = indexLife
        /\ \A u \in Users : userIndex[u] \ {sess[r]} \subseteq userIndex'[u]
    BY <1>1, <1>5 DEF WriteDelete, RedisOK
  <2>2. QED
    BY <2>1 DEF Lengthened, Untouched
<1>6. QED
  BY <1>2, <1>3, <1>4, <1>5 DEF Write

LEMMA InhabitedIsOwned ==
  ASSUME SessionsInv, NEW s \in Sessions, messages[s] # <<>>
  PROVE  creator[s] \in Users /\ messagesLife[s] > 0 /\ metaLife[s] > 0
<1>1. RedisOK /\ RequestsOK
  BY SessionsFacts
<1>2. messages[s] \in Seq(Message) /\ messagesLife[s] # 0
  BY <1>1 DEF RedisOK, SessionsInv, Belongs
<1>3. PICK m \in Contents(s) : TRUE
  <2>1. Len(messages[s]) \in Nat \ {0} /\ DOMAIN messages[s] = 1..Len(messages[s])
    BY <1>2, EmptySeq, LenProperties
  <2>2. 1 \in DOMAIN messages[s]
    BY <2>1
  <2>3. QED
    BY <2>2 DEF Contents, ToSet
<1>4. sess[m[1]] = s
  BY <1>3 DEF SessionsInv, Belongs, Of, Contents
<1>5. creator[s] \in Users
  BY <1>3, <1>4, SessionsFacts, EverHas
<1>6. messagesLife[s] \in 0..Lifetime /\ metaLife[s] \in 0..Lifetime /\ messagesLife[s] <= metaLife[s]
  BY <1>1 DEF RedisOK, SessionsInv, Outlived
<1>7. QED
  BY <1>2, <1>5, <1>6, ConversationAssumption DEF ConversationAssumption

(* No message is in two sessions.                                          *)
LEMMA Apart ==
  ASSUME SessionsInv, NEW s \in Sessions, NEW t \in Sessions, NEW m \in Contents(s),
         m \in Contents(t)
  PROVE  s = t
BY DEF SessionsInv, Belongs, Of, Contents

(* The parts of SerialInv, SerialIsExact and Listed, for a session.        *)
GoneIsGone == Stored \intersect removed = {}

Returned(s) == Contents(s) \intersect expired # {} => Restored(s)

Indexed(s) ==
  messages[s] # <<>> =>
    \/ Estranged(s)
    \/ /\ owner[s] = creator[s] /\ s \in userIndex[creator[s]]
       /\ messagesLife[s] <= indexLife[creator[s]]

SerialParts ==
  /\ \A r \in Requests : Alone(r)
  /\ GoneIsGone
  /\ \A s \in Sessions : Returned(s) /\ Indexed(s)

Serial == overlapped = {} => SerialParts

LEMMA SerialMeans ==
  ASSUME SessionsInv
  PROVE  Serial /\ Explained <=> SerialInv /\ SerialIsExact /\ Listed /\ Explained
<1>1. ASSUME NEW s \in Sessions, NEW m \in Contents(s)
      PROVE  sess[m[1]] = s
  BY DEF SessionsInv, Belongs, Of, Contents
<1>2. (\A s \in Sessions : Returned(s)) <=> \A m \in Stored \intersect expired : Restored(sess[m[1]])
  BY <1>1 DEF Returned, Stored
<1>3. QED
  BY <1>2 DEF Serial, SerialParts, SerialInv, SerialIsExact, Listed, Indexed, GoneIsGone, Explained

(* The one request under way.                                              *)
LEMMA AloneKept ==
  ASSUME SessionsInv, SerialParts, NEW r \in Requests, Proceed(r)
  PROVE  Alone(r)'
<1>. USE DEF Goto, Finish
<1>1. /\ RedisOK /\ RequestsOK /\ Begun /\ Alone(r) /\ Staged(r) /\ sess[r] \in Sessions
      /\ user' = user /\ op' = op /\ at[r] \notin {"idle", "done"}
  BY SessionsFacts, Framed DEF SessionsInv, Proper, RequestsOK, SerialParts
<1>2. ASSUME Holding(r)'
      PROVE  /\ ToSet(seenMessages'[r]) \intersect removed' = {}
             /\ ToSet(seenMessages'[r]) \intersect expired' # {} => Restored(sess[r])'
  <2>1. /\ sess' = sess /\ UNCHANGED <<removed, expired, interrupted>>
        /\ \/ seenMessages'[r] = messages[sess[r]]
           \/ Holding(r) /\ seenMessages'[r] = seenMessages[r]
    BY <1>2, ComesToHold
  <2>2. Restored(sess[r]) => Restored(sess[r])'
    BY <1>1, <2>1 DEF Restored
  <2>3. CASE seenMessages'[r] = messages[sess[r]]
    <3>1. ToSet(seenMessages'[r]) = Contents(sess[r])
      BY <2>3 DEF Contents
    <3>2. QED
      BY <1>1, <2>1, <2>2, <3>1 DEF SerialParts, GoneIsGone, Returned, Stored
  <2>4. CASE Holding(r) /\ seenMessages'[r] = seenMessages[r]
    BY <1>1, <2>1, <2>2, <2>4 DEF Alone
  <2>5. QED
    BY <2>1, <2>3, <2>4
<1>3. ASSUME at'[r] = "drop"
      PROVE  ~Owned(sess[r], user[r])'
  <2>1. CheckListed(r)
    BY <1>1, <1>3 DEF Proceed, CheckOwner, Find, ReadMessages, ReadMeta, WriteReturns, WriteFails,
         Answer, FallBack, Fail, ReadIndex, DropListed, RequestsOK
  <2>2. PICK s \in todo[r] :
          /\ sess' = [sess EXCEPT ![r] = s]
          /\ CASE ~Owned(s, user[r]) -> at' = [at EXCEPT ![r] = "drop"]
               [] Owned(s, user[r]) /\ todo[r] # {s} -> UNCHANGED at
               [] Owned(s, user[r]) /\ todo[r] = {s} -> at' = [at EXCEPT ![r] = "done"]
    BY <2>1 DEF CheckListed
  <2>3. sess'[r] = s /\ UNCHANGED <<owner, metaLife>> /\ at[r] = "check"
    BY <1>1, <2>1, <2>2 DEF CheckListed, redisVars, RequestsOK
  <2>4. ~Owned(s, user[r])
    BY <1>1, <1>3, <2>2, <2>3 DEF RequestsOK
  <2>5. QED
    BY <1>1, <2>3, <2>4 DEF Owned, Exists
<1>4. QED
  BY <1>2, <1>3 DEF Alone

LEMMA StartSerial ==
  ASSUME ConversationAssumption, SessionsInv, EstrangedInv, Serial,
         NEW s \in Sessions, NEW u \in Users, StartSession(s, u)
  PROVE  Serial'
<1>1. /\ RedisOK /\ RequestsOK /\ creator[s] = NoUser /\ NoUser \notin Users
      /\ creator' = [creator EXCEPT ![s] = u] /\ owner' = [owner EXCEPT ![s] = u]
      /\ metaLife' = [metaLife EXCEPT ![s] = Lifetime]
      /\ userIndex' = [userIndex EXCEPT ![u] = @ \union {s}]
      /\ indexLife' = [indexLife EXCEPT ![u] = Lifetime]
      /\ UNCHANGED <<messages, messagesLife, at, op, user, sess, seenMessages, seenOwner,
                     removed, expired, overlapped, interrupted>>
  BY SessionsFacts DEF StartSession, asked, seen, ConversationAssumption
<1>2. SUFFICES ASSUME overlapped = {} PROVE SerialParts'
  BY <1>1 DEF Serial
<1>3. SerialParts
  BY <1>2 DEF Serial
<1>4. \A t \in Sessions : (Estranged(t) => Estranged(t)') /\ (Restored(t) => Restored(t)')
  BY StillEstranged DEF Next
<1>5. ASSUME NEW r \in Requests
      PROVE  Alone(r)'
  <2>1. Alone(r) /\ Staged(r) /\ (at[r] # "idle" => user[r] \in Users)
    BY <1>3, SessionsFacts DEF SerialParts, SessionsInv, Proper, Begun
  <2>2. at[r] = "drop" => ~Owned(sess[r], user[r])'
    <3>1. SUFFICES ASSUME at[r] = "drop" PROVE ~Owned(sess[r], user[r])'
      OBVIOUS
    <3>2. sess[r] # s /\ sess[r] \in Sessions
      BY <1>1, <2>1, <3>1 DEF Staged, RequestsOK
    <3>3. owner'[sess[r]] = owner[sess[r]] /\ metaLife'[sess[r]] = metaLife[sess[r]]
      BY <1>1, <3>2 DEF RedisOK
    <3>4. QED
      BY <1>1, <2>1, <3>1, <3>3 DEF Alone, Owned, Exists
  <2>3. QED
    BY <1>1, <1>4, <2>1, <2>2 DEF Alone, Holding, RequestsOK
<1>6. GoneIsGone' /\ \A t \in Sessions : Returned(t)'
  BY <1>1, <1>3, <1>4 DEF SerialParts, GoneIsGone, Returned, Stored, Contents
<1>7. ASSUME NEW t \in Sessions
      PROVE  Indexed(t)'
  <2>1. SUFFICES ASSUME messages[t] # <<>>, ~Estranged(t)
                 PROVE  /\ owner'[t] = creator'[t] /\ t \in userIndex'[creator'[t]]
                        /\ messagesLife'[t] <= indexLife'[creator'[t]]
    BY <1>1, <1>4 DEF Indexed
  <2>2. creator[t] \in Users /\ t # s /\ Indexed(t)
    BY <1>1, <1>3, <2>1, InhabitedIsOwned DEF SerialParts
  <2>3. messagesLife[t] \in 0..Lifetime /\ Lifetime \in Nat
    BY <1>1 DEF RedisOK, ConversationAssumption
  <2>4. QED
    BY <1>1, <2>1, <2>2, <2>3 DEF Indexed, RedisOK, RequestsOK
<1>8. QED
  BY <1>5, <1>6, <1>7 DEF SerialParts

LEMMA BeginSerial ==
  ASSUME SessionsInv, EstrangedInv, Serial, NEW r \in Requests, NEW o \in Ops, NEW u \in Users,
         NEW s \in Sessions, Begin(r, o, u, s)
  PROVE  Serial'
<1>1. /\ RequestsOK /\ at'[r] \in {"own", "ids"} /\ overlapped \subseteq overlapped'
      /\ \A q \in Requests \ {r} :
           at'[q] = at[q] /\ op'[q] = op[q] /\ user'[q] = user[q] /\ sess'[q] = sess[q]
      /\ UNCHANGED <<redisVars, seenMessages, seenOwner, creator, removed, expired, interrupted>>
  BY SessionsFacts DEF Begin, Goto, RequestsOK, seen
<1>2. SUFFICES ASSUME overlapped = {} PROVE SerialParts'
  BY <1>1 DEF Serial
<1>3. SerialParts
  BY <1>2 DEF Serial
<1>4. \A t \in Sessions : (Estranged(t) => Estranged(t)') /\ (Restored(t) => Restored(t)')
  BY StillEstranged DEF Next
<1>5. ASSUME NEW q \in Requests
      PROVE  Alone(q)'
  <2>1. CASE q = r
    BY <1>1, <2>1 DEF Alone, Holding
  <2>2. CASE q # r
    BY <1>1, <1>3, <1>4, <2>2 DEF SerialParts, Alone, Owned, Exists, Holding, redisVars, RequestsOK
  <2>3. QED
    BY <2>1, <2>2
<1>6. GoneIsGone' /\ \A t \in Sessions : Returned(t)' /\ Indexed(t)'
  BY <1>1, <1>3, <1>4 DEF SerialParts, GoneIsGone, Returned, Stored, Contents, Indexed, redisVars
<1>7. QED
  BY <1>5, <1>6 DEF SerialParts

LEMMA LapseSerial ==
  ASSUME ConversationAssumption, SessionsInv, EstrangedInv, Serial, Lapse
  PROVE  Serial'
<1>1. /\ RedisOK /\ RequestsOK /\ Lifetime \in Nat
      /\ UNCHANGED <<at, op, user, sess, seenMessages, creator, removed, overlapped>>
      /\ expired' = expired \union UNION {Contents(s) : s \in {t \in Sessions : messagesLife'[t] = 0}}
      /\ interrupted' = interrupted \union
           UNION {Amid(s) : s \in {t \in Sessions : messagesLife[t] = 1 \/ metaLife[t] = 1}}
      /\ messages' = [s \in Sessions |-> IF messagesLife'[s] = 0 THEN <<>> ELSE messages[s]]
      /\ messagesLife' = [s \in Sessions |-> IF messagesLife[s] > 0 THEN messagesLife[s] - 1 ELSE 0]
  BY SessionsFacts DEF Lapse, asked, seen, ConversationAssumption
<1>2. SUFFICES ASSUME overlapped = {} PROVE SerialParts'
  BY <1>1 DEF Serial
<1>3. SerialParts
  BY <1>2 DEF Serial
<1>4. \A t \in Sessions : (Estranged(t) => Estranged(t)') /\ (Restored(t) => Restored(t)')
  BY StillEstranged DEF Next
<1>5. ASSUME NEW q \in Requests
      PROVE  Alone(q)'
  <2>1. Alone(q) /\ sess[q] \in Sessions
    BY <1>1, <1>3 DEF SerialParts, RequestsOK
  <2>2. ASSUME Holding(q), NEW m \in ToSet(seenMessages[q]), m \in expired'
        PROVE  Restored(sess[q])'
    <3>1. CASE m \in expired
      <4>1. Restored(sess[q])
        BY <2>1, <2>2, <3>1 DEF Alone
      <4>2. QED
        BY <1>1, <4>1 DEF Restored
    <3>2. CASE m \notin expired
      <4>1. PICK t \in Sessions : messagesLife'[t] = 0 /\ m \in Contents(t)
        BY <1>1, <2>2, <3>2
      <4>2. sess[m[1]] = t
        BY <4>1 DEF SessionsInv, Belongs, Of, Contents
      <4>3. sess[m[1]] = sess[q]
        BY <2>2 DEF SessionsInv, Proper, Of
      <4>4. messages[t] # <<>>
        BY <4>1, EmptyOK DEF Contents
      <4>5. messagesLife[t] = 1
        <5>1. messagesLife[t] \in 0..Lifetime /\ messagesLife[t] # 0
          BY <1>1, <4>4 DEF RedisOK, SessionsInv, Belongs
        <5>2. QED
          BY <1>1, <4>1, <5>1
      <4>6. q \in Amid(t)
        BY <2>2, <4>2, <4>3 DEF Amid, Holding
      <4>7. q \in interrupted' /\ op[q] = "chat"
        BY <1>1, <2>2, <4>5, <4>6 DEF Holding
      <4>8. QED
        BY <1>1, <4>7 DEF Restored
    <3>3. QED
      BY <3>1, <3>2
  <2>3. ASSUME at[q] = "drop"
        PROVE  ~Owned(sess[q], user[q])'
    <3>1. metaLife[sess[q]] \in 0..Lifetime
      BY <1>1, <2>1 DEF RedisOK
    <3>2. metaLife'[sess[q]] > 0 => metaLife[sess[q]] > 0 /\ owner'[sess[q]] = owner[sess[q]]
      BY <2>1, <3>1 DEF Lapse
    <3>3. QED
      BY <1>1, <2>1, <2>3, <3>2 DEF Alone, Owned, Exists
  <2>4. QED
    BY <1>1, <2>1, <2>2, <2>3 DEF Alone, Holding
<1>6. ASSUME NEW s \in Sessions, NEW m \in Contents(s)'
      PROVE  messagesLife'[s] # 0 /\ m \in Contents(s)
  BY <1>1, EmptyOK DEF Contents
<1>7. GoneIsGone'
  BY <1>1, <1>3, <1>6 DEF SerialParts, GoneIsGone, Stored
<1>8. ASSUME NEW s \in Sessions, NEW m \in Contents(s)', m \in expired'
      PROVE  Restored(s)'
  <2>1. m \in expired
    <3>1. ASSUME NEW t \in Sessions, messagesLife'[t] = 0, m \in Contents(t)
          PROVE  FALSE
      BY <1>6, <1>8, <3>1, Apart
    <3>2. QED
      BY <1>1, <1>8, <3>1
  <2>2. QED
    BY <1>3, <1>4, <1>6, <1>8, <2>1 DEF SerialParts, Returned
<1>9. ASSUME NEW s \in Sessions
      PROVE  Indexed(s)'
  <2>. DEFINE u == creator[s]
  <2>1. SUFFICES ASSUME messages'[s] # <<>>, ~Estranged(s)
                 PROVE  /\ owner'[s] = creator[s] /\ s \in userIndex'[creator[s]]
                        /\ messagesLife'[s] <= indexLife'[creator[s]]
    BY <1>1, <1>4 DEF Indexed
  <2>2. messages[s] # <<>> /\ messagesLife'[s] # 0
    BY <1>1, <2>1
  <2>3. u \in Users /\ messagesLife[s] > 0 /\ metaLife[s] > 0
    BY <2>2, InhabitedIsOwned
  <2>4. owner[s] = u /\ s \in userIndex[u] /\ messagesLife[s] <= indexLife[u]
    BY <1>3, <2>1, <2>2 DEF SerialParts, Indexed
  <2>5. /\ messagesLife[s] \in 0..Lifetime /\ metaLife[s] \in 0..Lifetime
        /\ indexLife[u] \in 0..Lifetime /\ messagesLife[s] <= metaLife[s]
    BY <1>1, <2>3 DEF RedisOK, SessionsInv, Outlived
  <2>. HIDE DEF u
  <2>6. /\ messagesLife'[s] = messagesLife[s] - 1 /\ metaLife'[s] = metaLife[s] - 1
        /\ indexLife'[u] = indexLife[u] - 1
    BY <1>1, <2>3, <2>4, <2>5 DEF Lapse
  <2>7. metaLife'[s] # 0 /\ indexLife'[u] # 0 /\ messagesLife'[s] <= indexLife'[u]
    BY <1>1, <2>2, <2>3, <2>4, <2>5, <2>6
  <2>8. owner'[s] = owner[s] /\ userIndex'[u] = userIndex[u]
    BY <2>3, <2>7 DEF Lapse
  <2>9. QED
    BY <2>4, <2>7, <2>8 DEF u
<1>10. QED
  BY <1>5, <1>7, <1>8, <1>9 DEF SerialParts, Returned

LEMMA ProceedSerial ==
  ASSUME ConversationAssumption, SessionsInv, EstrangedInv, Together, Serial,
         NEW r \in Requests, Proceed(r)
  PROVE  Serial'
<1>1. /\ RedisOK /\ RequestsOK /\ Begun /\ Staged(r) /\ Unsaid(r) /\ Deprived(r)
      /\ sess[r] \in Sessions /\ overlapped' = overlapped /\ creator' = creator
      /\ op' = op /\ user' = user /\ at[r] \notin {"idle", "done"}
  BY SessionsFacts, Framed DEF SessionsInv, Proper, EstrangedInv, RequestsOK
<1>2. SUFFICES ASSUME overlapped = {} PROVE SerialParts'
  BY <1>1 DEF Serial
<1>3. SerialParts
  BY <1>2 DEF Serial
<1>4. \A q \in Requests : Alone(q)'
  <2>1. ASSUME NEW q \in Requests, q # r
        PROVE  Alone(q)'
    <3>1. at'[q] \in {"idle", "done"}
      BY <1>1, <1>2, <2>1, Framed DEF Together, Underway
    <3>2. QED
      BY <3>1 DEF Alone, Holding
  <2>2. QED
    BY <1>3, <2>1, AloneKept
<1>5. \A t \in Sessions : (Estranged(t) => Estranged(t)') /\ (Restored(t) => Restored(t)')
  BY StillEstranged DEF Next
<1>6. CASE ~Writes(r)
  <2>1. UNCHANGED <<messages, owner, messagesLife, metaLife, indexLife, removed, expired>>
    BY <1>1, <1>6, Quiet
  <2>2. GoneIsGone' /\ \A s \in Sessions : Returned(s)'
    BY <1>3, <1>5, <2>1 DEF SerialParts, GoneIsGone, Returned, Stored, Contents
  <2>3. ASSUME NEW s \in Sessions, messages[s] # <<>>, ~Estranged(s)
        PROVE  s \in userIndex'[creator[s]]
    <3>1. owner[s] = creator[s] /\ s \in userIndex[creator[s]] /\ creator[s] \in Users /\ metaLife[s] > 0
      BY <1>3, <2>3, InhabitedIsOwned DEF SerialParts, Indexed
    <3>2. CASE at[r] = "drop" /\ userIndex' = [userIndex EXCEPT ![user[r]] = @ \ {sess[r]}]
      <4>1. s # sess[r] \/ creator[s] # user[r]
        BY <1>3, <3>1, <3>2 DEF SerialParts, Alone, Owned, Exists
      <4>2. QED
        BY <1>1, <3>1, <3>2, <4>1 DEF RedisOK, Staged
    <3>3. CASE userIndex' = userIndex
      BY <3>1, <3>3
    <3>4. QED
      BY <1>1, <1>6, <3>2, <3>3, Quiet
  <2>4. \A s \in Sessions : Indexed(s)'
    BY <1>1, <1>3, <1>5, <2>1, <2>3 DEF SerialParts, Indexed
  <2>5. QED
    BY <1>4, <2>2, <2>4 DEF SerialParts
<1>7. CASE Writes(r)
  <2>1. /\ Write(r) /\ at[r] = "write" /\ user[r] \in Users /\ user[r] = creator[sess[r]]
        /\ seenOwner[r] = user[r] \/ Estranged(sess[r])
        /\ sess' = sess /\ expired' = expired
    BY <1>1, <1>7 DEF Writes, WriteReturns, WriteFails, Deprived, Staged, Begun, asked
  <2>2. \A s \in Sessions \ {sess[r]} : messages'[s] = messages[s] /\ messagesLife'[s] = messagesLife[s]
    BY ZenonT(60), <1>1, <2>1, Written DEF Untouched, Emptied, Lengthened, RedisOK
  <2>3. ASSUME NEW s \in Sessions, s # sess[r]
        PROVE  Indexed(s)' /\ Returned(s)'
    <3>1. Returned(s)'
      BY <1>3, <1>5, <2>1, <2>2, <2>3 DEF SerialParts, Returned, Contents
    <3>2. SUFFICES ASSUME messages'[s] # <<>>, ~Estranged(s)
                   PROVE  /\ owner'[s] = creator[s] /\ s \in userIndex'[creator[s]]
                          /\ messagesLife'[s] <= indexLife'[creator[s]]
      BY <1>1, <1>5, <3>1 DEF Indexed
    <3>3. messages[s] # <<>>
      BY <2>2, <2>3, <3>2
    <3>4. /\ owner[s] = creator[s] /\ s \in userIndex[creator[s]] /\ creator[s] \in Users
          /\ messagesLife[s] <= indexLife[creator[s]]
          /\ messagesLife[s] \in 0..Lifetime /\ Lifetime \in Nat
      BY <1>1, <1>3, <3>2, <3>3, InhabitedIsOwned DEF SerialParts, Indexed, RedisOK, ConversationAssumption
    <3>5. owner'[s] = owner[s]
      BY <1>1, <2>1, <2>3, WrittenFor
    <3>6. indexLife'[creator[s]] \in {indexLife[creator[s]], Lifetime} /\ s \in userIndex'[creator[s]]
      BY <1>1, <2>1, <2>3, <3>4, WrittenIndex
    <3>7. QED
      BY <2>2, <2>3, <3>4, <3>5, <3>6
  <2>4. CASE Untouched(r)
    <3>1. GoneIsGone'
      BY <1>3, <2>4 DEF SerialParts, GoneIsGone, Stored, Contents, Untouched
    <3>2. ASSUME NEW s \in Sessions, s = sess[r]
          PROVE  Indexed(s)'
      <4>1. SUFFICES ASSUME messages'[s] # <<>>, ~Estranged(s)
                     PROVE  /\ owner'[s] = creator[s] /\ s \in userIndex'[creator[s]]
                            /\ messagesLife'[s] <= indexLife'[creator[s]]
        BY <1>1, <1>5 DEF Indexed
      <4>2. messages[s] # <<>> /\ messagesLife' = messagesLife /\ seenOwner[r] = user[r]
        BY <2>1, <2>4, <3>2, <4>1 DEF Untouched
      <4>3. /\ s \in userIndex[creator[s]] /\ messagesLife[s] <= indexLife[creator[s]]
            /\ messagesLife[s] \in 0..Lifetime /\ Lifetime \in Nat
        BY <1>1, <1>3, <4>1, <4>2 DEF SerialParts, Indexed, RedisOK, ConversationAssumption
      <4>4. /\ userIndex' = userIndex /\ owner'[s] = user[r]
            /\ indexLife'[user[r]] \in {indexLife[user[r]], Lifetime}
        BY <1>1, <2>1, <2>4, <3>2, <4>2, WrittenIndex
      <4>5. QED
        BY <2>1, <3>2, <4>2, <4>3, <4>4
    <3>3. ASSUME NEW s \in Sessions
          PROVE  Returned(s)'
      BY <1>3, <1>5, <2>1, <2>4 DEF SerialParts, Returned, Contents, Untouched
    <3>4. QED
      BY <1>4, <2>3, <3>1, <3>2, <3>3 DEF SerialParts
  <2>5. CASE Emptied(r)
    <3>1. messages'[sess[r]] = <<>> /\ removed' = removed \union Contents(sess[r])
      BY <1>1, <2>5 DEF Emptied, RedisOK
    <3>2. ASSUME NEW s \in Sessions, NEW m \in ToSet(messages'[s])
          PROVE  m \notin removed'
      <4>1. s # sess[r] /\ m \in Contents(s)
        BY <2>2, <3>1, <3>2, EmptyOK DEF Contents
      <4>2. m \notin removed /\ m \notin Contents(sess[r])
        BY <1>1, <1>3, <4>1, Apart DEF SerialParts, GoneIsGone, Stored
      <4>3. QED
        BY <3>1, <4>2
    <3>3. GoneIsGone'
      BY <3>2 DEF GoneIsGone, Stored, Contents
    <3>4. ASSUME NEW s \in Sessions, s = sess[r]
          PROVE  Indexed(s)' /\ Returned(s)'
      BY <3>1, <3>4, EmptyOK DEF Indexed, Returned, Contents
    <3>5. QED
      BY <1>4, <2>3, <3>3, <3>4 DEF SerialParts
  <2>6. CASE Lengthened(r)
    <3>1. /\ messages'[sess[r]] = Window(Longer(r)) /\ messagesLife'[sess[r]] = Lifetime
          /\ removed' = removed \union (ToSet(Longer(r)) \ ToSet(Window(Longer(r))))
      BY <1>1, <2>6 DEF Lengthened, RedisOK
    <3>2. /\ Holding(r) /\ ToSet(seenMessages[r]) \intersect removed = {}
          /\ ToSet(seenMessages[r]) \intersect expired # {} => Restored(sess[r])
      BY <1>3, <2>1, <2>6 DEF Lengthened, SerialParts, Alone, Holding
    <3>3. /\ \A m \in ToSet(Longer(r)) : m \in ToSet(seenMessages[r]) \/ m = <<r, role[r]>>
          /\ ToSet(Window(Longer(r))) \subseteq ToSet(Longer(r))
      BY <1>1, LongerOK
    <3>4. /\ <<r, role[r]>> \notin removed /\ <<r, role[r]>> \notin expired
          /\ \A s \in Sessions : <<r, role[r]>> \notin Contents(s)
      BY <1>1, <2>1, EverHas DEF Unsaid
    <3>5. \A m \in ToSet(seenMessages[r]) : sess[m[1]] = sess[r]
      BY <3>2 DEF SessionsInv, Proper, Of
    <3>6. ASSUME NEW s \in Sessions, NEW m \in ToSet(messages'[s])
          PROVE  m \notin removed'
      <4>1. CASE s # sess[r]
        <5>1. m \in Contents(s) /\ m \notin removed
          BY <1>3, <2>2, <3>6, <4>1 DEF SerialParts, GoneIsGone, Stored, Contents
        <5>2. sess[m[1]] = s
          BY <5>1 DEF SessionsInv, Belongs, Of, Contents
        <5>3. QED
          BY <3>1, <3>3, <3>4, <3>5, <4>1, <5>1, <5>2
      <4>2. CASE s = sess[r]
        BY <3>1, <3>2, <3>3, <3>4, <3>6, <4>2
      <4>3. QED
        BY <4>1, <4>2
    <3>7. GoneIsGone'
      BY <3>6 DEF GoneIsGone, Stored, Contents
    <3>8. ASSUME NEW s \in Sessions, s = sess[r]
          PROVE  Returned(s)'
      <4>1. SUFFICES ASSUME NEW m \in ToSet(messages'[s]), m \in expired PROVE Restored(s)
        BY <1>5, <2>1 DEF Returned, Contents
      <4>2. QED
        BY <3>1, <3>2, <3>3, <3>4, <3>8, <4>1
    <3>9. ASSUME NEW s \in Sessions, s = sess[r]
          PROVE  Indexed(s)'
      <4>1. SUFFICES ASSUME ~Estranged(s)
                     PROVE  /\ owner'[s] = creator[s] /\ s \in userIndex'[creator[s]]
                            /\ messagesLife'[s] <= indexLife'[creator[s]]
        BY <1>1, <1>5 DEF Indexed
      <4>2. /\ owner'[s] = user[r] /\ s \in userIndex'[user[r]]
            /\ indexLife'[user[r]] = Lifetime
        BY <1>1, <2>1, <2>6, <3>9, <4>1, WrittenIndex
      <4>3. QED
        BY <2>1, <3>1, <3>9, <4>2 DEF ConversationAssumption
    <3>10. QED
      BY <1>4, <2>3, <3>7, <3>8, <3>9 DEF SerialParts
  <2>7. QED
    BY <1>1, <2>1, <2>4, <2>5, <2>6, Written
<1>8. QED
  BY <1>6, <1>7

LEMMA SerialKept ==
  ASSUME ConversationAssumption, SessionsInv, EstrangedInv, Together, Serial, [Next]_vars
  PROVE  Serial'
<1>1. CASE UNCHANGED vars
  <2>1. UNCHANGED <<redisVars, at, asked, seen, history>>
    BY <1>1 DEF vars
  <2>2. \A t \in Sessions : (Estranged(t) => Estranged(t)') /\ (Restored(t) => Restored(t)')
    BY StillEstranged
  <2>3. ASSUME SerialParts, NEW r \in Requests
        PROVE  Alone(r)'
    <3>1. Alone(r) /\ sess[r] \in Sessions
      BY <2>3, SessionsFacts DEF SerialParts, RequestsOK
    <3>2. QED
      BY <2>1, <3>1 DEF redisVars, asked, seen, history, Alone, Holding, Owned, Exists, Restored
  <2>4. SerialParts => GoneIsGone' /\ \A s \in Sessions : Returned(s)' /\ Indexed(s)'
    BY <2>1, <2>2 DEF redisVars, history, SerialParts, GoneIsGone, Stored, Contents, Returned, Indexed
  <2>5. overlapped' = overlapped
    BY <2>1 DEF history
  <2>6. QED
    BY <2>3, <2>4, <2>5 DEF Serial, SerialParts
<1>2. QED
  BY <1>1, StartSerial, BeginSerial, ProceedSerial, LapseSerial DEF Next

Inductive == SessionsInv /\ EstrangedInv /\ LossInv /\ Serial

LEMMA InitInductive == ConversationAssumption /\ Init => Inductive
<1>. SUFFICES ASSUME ConversationAssumption, Init PROVE Inductive
  OBVIOUS
<1>1. \A r \in Requests : at[r] = "idle"
  BY DEF Init
<1>2. Together /\ \A r \in Requests : Differ(r) /\ Alone(r)
  BY <1>1 DEF Together, Underway, Differ, Alone, Holding
<1>3. Stored = {} /\ confirmed = {} /\ \A s \in Sessions : messages[s] = <<>> /\ Contents(s) = {}
  BY EmptyOK DEF Init, Stored, Contents
<1>4. Serial
  BY <1>2, <1>3 DEF Serial, SerialParts, GoneIsGone, Returned, Indexed
<1>5. QED
  BY <1>2, <1>3, <1>4, InitSessions, InitEstranged DEF Inductive, LossInv, Lost

LEMMA InductiveKept ==
  ASSUME ConversationAssumption, Inductive, [Next]_vars
  PROVE  Inductive'
<1>1. /\ SessionsInv /\ EstrangedInv /\ Together /\ (\A r \in Requests : Differ(r)) /\ Explained
      /\ Serial /\ RequestsOK
  BY SessionsFacts DEF Inductive, LossInv, Explained
<1>2. /\ SessionsInv' /\ EstrangedInv' /\ Together' /\ (\A r \in Requests : Differ(r)') /\ Explained'
      /\ Serial'
  BY <1>1, SessionsKept, EstrangedKept, TogetherKept, DifferKept, ExplainedKept, SerialKept
<1>3. QED
  BY <1>2 DEF Inductive, LossInv, Explained

LEMMA ConversationAlways == Spec => []ConversationInv
<1>1. Init => Inductive
  BY InitInductive, ConversationAssumption
<1>2. Inductive /\ [Next]_vars => Inductive'
  BY InductiveKept, ConversationAssumption
<1>3. Inductive => ConversationInv
  BY SerialMeans DEF Inductive, LossInv, Explained, ConversationInv
<1>4. QED
  BY <1>1, <1>2, <1>3, PTL DEF Spec

(* A confirmed message that neither the window, a reset, a delete nor      *)
(* expiry took is lost only by overlapping requests.  Served one at a      *)
(* time, a history brings back nothing that was removed, and nothing that  *)
(* had expired, unless a key went while a chat was amid the session: for   *)
(* any window, lifetimes, failures, cancellations and moments of expiry.   *)
THEOREM OneByOneLosesNothing == Spec => []SerialIsExact
<1>1. ConversationInv => SerialIsExact
  BY DEF ConversationInv
<1>2. QED
  BY <1>1, ConversationAlways, PTL

(* Served one at a time, a session that holds messages is its creator's    *)
(* and in the creator's list, whichever of its keys expired and when, but  *)
(* for a session of which a key went while a chat or a reset was amid it.  *)
THEOREM OneByOneIsListed == Spec => []Listed
<1>1. ConversationInv => Listed
  BY DEF ConversationInv
<1>2. QED
  BY <1>1, ConversationAlways, PTL
=============================================================================
