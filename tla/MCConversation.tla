--------------------------- MODULE MCConversation ---------------------------
EXTENDS Conversation, TLC

\* Requests differ in nothing but their name, and so do users.
Symmetry == Permutations(Requests) \union Permutations(Users)

(***************************************************************************)
(* States that differ in nothing that any later step or property looks at  *)
(* are one.                                                                *)
(***************************************************************************)
\* What a request has read and will use: nothing once it has ended.
Held(r) ==
  CASE at[r] \in {"find", "think"}             -> <<role[r]>>
    [] at[r] = "read"                          -> <<role[r]>>
    [] at[r] \in {"check", "drop"}             -> <<todo[r]>>
    [] at[r] = "meta"                          -> <<role[r], seenMessages[r]>>
    [] at[r] = "write" /\ op[r] = "chat"       -> <<role[r], seenMessages[r], seenOwner[r]>>
    [] at[r] = "write" /\ op[r] = "rename"     -> <<seenOwner[r], seenCount[r]>>
    [] at[r] = "write" /\ op[r] \in {"reset", "delete"} -> <<seenOwner[r]>>
    [] OTHER                                   -> <<>>

\* What became of a message matters until its request has overlapped another,
\* or as long as none has.
Telling(S) == IF overlapped = {} THEN S ELSE {m \in S : m[1] \notin overlapped}

\* Requests that have ended, without a message or an interruption to show.
Forgotten ==
  LET held   == UNION {ToSet(seenMessages[r]) : r \in {q \in Requests : Holding(q)}}
      traces == Stored \union held \union Telling(removed \union expired \union confirmed)
  IN  {r \in Requests : at[r] = "done" /\ r \notin interrupted \union {m[1] : m \in traces}}

\* Keys that will outlive the lapses left; NoOrphans compares them as they are.
Ahead(life) == IF life > MaxLapses - lapses THEN MaxLapses - lapses + 1 ELSE life

Lives ==
  <<[s \in Sessions |-> <<Ahead(messagesLife[s]), Ahead(metaLife[s])>>],
    [u \in Users |-> Ahead(indexLife[u])], Outlived>>

View ==
  LET gone == Forgotten
  IN  <<messages, owner, count, userIndex, Lives, at,
        [r \in Requests \ gone |-> <<op[r], user[r], sess[r], Held(r)>>],
        creator, Telling(confirmed), Telling(removed), Telling(expired),
        interrupted, lapses, overlapped \ gone, overlapped = {}>>
=============================================================================
