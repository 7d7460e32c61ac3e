--------------------------- MODULE ServicesProofs ---------------------------
(***************************************************************************)
(* The stored credential, for any authorizations, calls and accounts and   *)
(* any number of rotations; the chunks of a document, for any text and any *)
(* size and overlap; and the composition of the four services, each of     *)
(* which keeps its invariant beside the others.                            *)
(***************************************************************************)
EXTENDS MCServices, SecurityProofs

-----------------------------------------------------------------------------
(***************************************************************************)
(* ChatGPTPlan: the row's lock covers the comparison of a save and the     *)
(* whole of a refresh, and every grant is saved at most once.              *)
(***************************************************************************)
(* No credential, nobody at work.                                          *)
LEMMA PlanInitInv == PlanInit => PlanInv
<1>. SUFFICES ASSUME PlanInit PROVE PlanInv
  OBVIOUS
<1>1. PlanTypeOK
  BY PlanAssumption DEF PlanInit, PlanTypeOK, NoRow, NoToken
<1>2. LockHeld /\ Unused /\ Stored
  BY DEF PlanInit, LockHeld, Unused, Stored
<1>3. CredentialSound
  BY DEF PlanInit, CredentialSound, TokenIsNewest, OneRefreshAtATime, AccountIsKept
<1>4. QED
  BY <1>1, <1>2, <1>3 DEF PlanInv

(* A row that is not empty names its grant; the empty one names none.      *)
LEMMA RowOfGrant ==
  ASSUME PlanTypeOK, Stored
  PROVE  /\ row # NoRow <=> row.grant \in Grants
         /\ row # NoRow => saving[row.grant] = "saved"
         /\ row.fresh => row # NoRow
BY PlanAssumption DEF PlanTypeOK, Stored, NoRow

(* Authorizations keep the types.                                          *)
LEMMA SaveTypes ==
  ASSUME PlanTypeOK, Stored, NEW g \in Grants,
         \/ Connect(g) \/ SaveBegins(g) \/ SaveWrites(g) \/ SaveFails(g)
         \/ ConsentFails(g) \/ IdentityRefused(g)
         \/ \E a \in Accounts : Consent(g, a)
  PROVE  PlanTypeOK'
<1>. USE PlanAssumption DEF PlanTypeOK, saveVars, callVars, seenVars
<1>1. CASE Connect(g)
  BY <1>1, RowOfGrant DEF Connect
<1>2. CASE SaveBegins(g)
  BY <1>2 DEF SaveBegins
<1>3. CASE SaveWrites(g)
  BY <1>3 DEF SaveWrites, Unheld
<1>4. CASE SaveFails(g)
  BY <1>4 DEF SaveFails, Unheld
<1>5. CASE ConsentFails(g) \/ IdentityRefused(g)
  BY <1>5 DEF ConsentFails, IdentityRefused
<1>6. ASSUME NEW a \in Accounts, Consent(g, a) PROVE PlanTypeOK'
  BY <1>6 DEF Consent
<1>7. QED
  BY <1>1, <1>2, <1>3, <1>4, <1>5, <1>6

(* Another newest token, or the end, of one grant.                         *)
LEMMA GrantTypes ==
  ASSUME PlanTypeOK, NEW t \in Grants, NEW n \in 0 .. MaxRotation,
         \/ grant' = grant
         \/ grant' = [grant EXCEPT ![t].newest = n]
         \/ grant' = [grant EXCEPT ![t].alive = FALSE]
  PROVE  grant' \in [Grants -> [account : Accounts \union {"none"}, newest : 0 .. MaxRotation,
                               alive : BOOLEAN]]
<1>. DEFINE Rotations == 0 .. MaxRotation
            Names == Accounts \union {"none"}
            Grown == [account : Names, newest : Rotations, alive : BOOLEAN]
<1>1. grant \in [Grants -> Grown] /\ n \in Rotations
  BY DEF PlanTypeOK
<1>2. grant' \in [Grants -> Grown]
  <2>. HIDE DEF Rotations, Names
  <2>1. grant[t] \in Grown
    BY <1>1
  <2>2. [grant[t] EXCEPT !.newest = n] \in Grown /\ [grant[t] EXCEPT !.alive = FALSE] \in Grown
    BY <1>1, <2>1
  <2>. HIDE DEF Grown
  <2>3. QED
    BY <1>1, <2>2
<1>3. QED
  BY <1>2

(* Calls keep the types.                                                   *)
LEMMA CallTypes ==
  ASSUME PlanTypeOK, LockHeld, Stored, NEW c \in PlanCalls,
         \/ UseToken(c) \/ BeginRefresh(c) \/ RefreshLost(c) \/ RefreshFails(c)
         \/ RefreshRefused(c) \/ ScopeWithdrawn(c) \/ Disconnect(c) \/ RevokeGrant(c)
         \/ \E n \in 1 .. MaxRotation : Refresh(c, n)
  PROVE  PlanTypeOK'
<1>. USE PlanAssumption DEF PlanTypeOK, saveVars, callVars, seenVars, Unheld
<1>1. CASE UseToken(c)
  BY <1>1 DEF UseToken
<1>2. CASE BeginRefresh(c)
  BY <1>2 DEF BeginRefresh, LockRow, Locked
<1>3. CASE RefreshLost(c)
  <2>1. PICK t \in Grants : token[c].grant = t /\ token[c].newest = row.newest
    BY <1>3, RowOfGrant DEF RefreshLost, LockHeld
  <2>2. grant' = [grant EXCEPT ![t].newest = @ + 1] /\ grant[t].newest < MaxRotation
    BY <1>3, <2>1 DEF RefreshLost, Accepted
  <2>3. PICK n \in 0 .. MaxRotation : grant' = [grant EXCEPT ![t].newest = n]
    <3>1. grant[t].newest \in Nat /\ MaxRotation \in Nat
      OBVIOUS
    <3>2. grant[t].newest + 1 \in 0 .. MaxRotation
      BY <2>2, <3>1
    <3>3. QED
      BY <2>2, <3>2
  <2>4. grant' \in [Grants -> [account : Accounts \union {"none"}, newest : 0 .. MaxRotation,
                               alive : BOOLEAN]]
    BY <2>3, GrantTypes
  <2>5. QED
    BY <1>3, <2>1, <2>4 DEF RefreshLost, EndCall
<1>4. CASE RefreshFails(c)
  BY <1>4 DEF RefreshFails, EndCall
<1>5. CASE RefreshRefused(c)
  BY <1>5, RowOfGrant DEF RefreshRefused, EndCall, LockHeld, NoRow
<1>6. CASE ScopeWithdrawn(c)
  BY <1>6 DEF ScopeWithdrawn, EndCall, NoRow
<1>7. CASE Disconnect(c)
  BY <1>7 DEF Disconnect, NoRow
<1>8. CASE RevokeGrant(c)
  <2>1. PICK t \in Grants : t = token[c].grant
    BY <1>8 DEF RevokeGrant, Stored
  <2>2. /\ grant' = [grant EXCEPT ![t].alive = FALSE] \/ grant' = grant
        /\ using' = [using EXCEPT ![c] = "done"]
        /\ UNCHANGED <<row, holder, saving, client, token, renewals, ended, removed>>
    BY <1>8, <2>1 DEF RevokeGrant
  <2>3. grant' \in [Grants -> [account : Accounts \union {"none"}, newest : 0 .. MaxRotation,
                               alive : BOOLEAN]]
    BY <2>2, GrantTypes
  <2>4. QED
    BY <2>2, <2>3
<1>9. ASSUME NEW n \in 1 .. MaxRotation, Refresh(c, n) PROVE PlanTypeOK'
  <2>1. using[c] = "refreshing"
    BY <1>9 DEF Refresh
  <2>2. row # NoRow /\ token[c].grant = row.grant
    BY <2>1 DEF LockHeld
  <2>3. PICK t \in Grants : t = token[c].grant
    BY <2>2, RowOfGrant
  <2>4. /\ grant' = [grant EXCEPT ![t].newest = n]
        /\ row' = [row EXCEPT !.newest = n, !.fresh = TRUE]
        /\ using' = [using EXCEPT ![c] = "done"]
        /\ holder' \in {holder, Unheld}
        /\ UNCHANGED <<saving, client, token, renewals, ended, removed>>
    BY <1>9, <2>2, <2>3 DEF Refresh, EndCall
  <2>5. n \in 0 .. MaxRotation
    OBVIOUS
  <2>6. grant' \in [Grants -> [account : Accounts \union {"none"}, newest : 0 .. MaxRotation,
                               alive : BOOLEAN]]
    BY <2>4, <2>5, GrantTypes
  <2>7. row' \in [grant : Grants \union {"none"}, newest : 0 .. MaxRotation,
                  client : Grants \union {"none"}, fresh : BOOLEAN]
    BY <2>4, <2>5
  <2>8. QED
    BY <2>4, <2>6, <2>7
<1>10. QED
  BY <1>1, <1>2, <1>3, <1>4, <1>5, <1>6, <1>7, <1>8, <1>9

-----------------------------------------------------------------------------
(* The steps before a row is touched: they move one authorization.         *)
LEMMA AuthorizeStep ==
  ASSUME PlanInv, NEW g \in Grants,
         \/ Connect(g) \/ SaveBegins(g) \/ SaveFails(g)
         \/ ConsentFails(g) \/ IdentityRefused(g)
         \/ \E a \in Accounts : Consent(g, a)
  PROVE  LockHeld' /\ Unused' /\ Stored' /\ CredentialSound'
<1>. USE PlanAssumption DEF PlanInv, saveVars, callVars, seenVars
<1>1. row' = row /\ UNCHANGED <<callVars, seenVars>>
  BY DEF Connect, SaveBegins, SaveFails, ConsentFails, IdentityRefused, Consent
<1>2. /\ saving[g] # "saved" /\ saving'[g] # "saved"
      /\ \A h \in Grants \ {g} : saving'[h] = saving[h] /\ grant'[h] = grant[h]
  BY DEF Connect, SaveBegins, SaveFails, ConsentFails, IdentityRefused, Consent, PlanTypeOK
<1>3. LockHeld'
  <2>1. /\ \A h \in Grants : saving'[h] = "checked" =>
             holder' = h /\ row # NoRow /\ grant'[row.grant].account = grant'[h].account
        /\ \A c \in PlanCalls : using[c] = "refreshing" => holder' = c
    <3>1. CASE Connect(g)
      BY <3>1 DEF Connect, LockHeld, Account, PlanTypeOK
    <3>2. CASE SaveBegins(g)
      BY <3>2 DEF SaveBegins, LockHeld, Account, Matches, PlanTypeOK, Unheld
    <3>3. CASE SaveFails(g)
      BY <3>3 DEF SaveFails, LockHeld, Account, PlanTypeOK, Unheld
    <3>4. CASE ConsentFails(g) \/ IdentityRefused(g)
      BY <3>4 DEF ConsentFails, IdentityRefused, LockHeld, Account, PlanTypeOK
    <3>5. ASSUME NEW a \in Accounts, Consent(g, a)
          PROVE  /\ \A h \in Grants : saving'[h] = "checked" =>
                      holder' = h /\ row # NoRow /\ grant'[row.grant].account = grant'[h].account
                 /\ \A c \in PlanCalls : using[c] = "refreshing" => holder' = c
      BY <3>5, <1>2, RowOfGrant DEF Consent, LockHeld, Account, PlanTypeOK
    <3>6. QED
      BY <3>1, <3>2, <3>3, <3>4, <3>5
  <2>2. QED
    BY <1>1, <2>1 DEF LockHeld, Account
<1>4. Unused'
  <2>1. ASSUME NEW a \in Accounts, Consent(g, a) PROVE Unused'
    BY <2>1 DEF Consent, Unused, PlanTypeOK
  <2>2. CASE Connect(g) \/ SaveBegins(g) \/ SaveFails(g)
    BY <2>2 DEF Connect, SaveBegins, SaveFails, Unused, PlanTypeOK
  <2>3. CASE ConsentFails(g) \/ IdentityRefused(g)
    BY <2>3 DEF ConsentFails, IdentityRefused, Unused, PlanTypeOK
  <2>4. QED
    BY <2>1, <2>2, <2>3
<1>5. Stored'
  BY <1>1, <1>2 DEF Stored
<1>6. CredentialSound'
  <2>1. row # NoRow => grant'[row.grant] = grant[row.grant]
    BY <1>2, RowOfGrant
  <2>2. QED
    BY <1>1, <2>1 DEF CredentialSound, TokenIsNewest, OneRefreshAtATime, AccountIsKept
<1>7. QED
  BY <1>3, <1>4, <1>5, <1>6

(* The write of a save: nobody else holds the lock, and its grant is new.  *)
LEMMA SaveWritesStep ==
  ASSUME PlanInv, NEW g \in Grants, SaveWrites(g)
  PROVE  LockHeld' /\ Unused' /\ Stored' /\ CredentialSound'
<1>. USE PlanAssumption DEF PlanInv, saveVars, callVars, seenVars
<1>1. /\ row' = [grant |-> g, newest |-> 1, client |-> client[g], fresh |-> TRUE]
      /\ saving' = [saving EXCEPT ![g] = "saved"]
      /\ saving[g] \in {"first", "checked"}
      /\ UNCHANGED <<grant, using, token, renewals, ended, removed>>
  BY DEF SaveWrites
<1>2. /\ \A h \in Grants : saving'[h] # "checked"
      /\ \A c \in PlanCalls : using[c] # "refreshing"
  BY <1>1 DEF SaveWrites, LockHeld, PlanTypeOK, Unheld
<1>3. LockHeld'
  BY <1>1, <1>2 DEF LockHeld
<1>4. Unused'
  BY <1>1 DEF Unused, PlanTypeOK
<1>5. Stored'
  <2>1. saving'[g] = "saved" /\ row'.grant = g
    BY <1>1 DEF PlanTypeOK
  <2>2. ASSUME NEW c \in PlanCalls, using'[c] = "revoking"
        PROVE  token'[c].grant \in Grants /\ saving'[token'[c].grant] = "saved"
               /\ row'.grant # token'[c].grant
    BY <1>1, <2>1, <2>2 DEF Stored, PlanTypeOK
  <2>3. QED
    BY <2>1, <2>2 DEF Stored
<1>6. CredentialSound'
  <2>1. (grant[g].alive \/ g \in ended) /\ grant[g].newest = 1
    BY <1>1 DEF Unused
  <2>2. TokenIsNewest' /\ OneRefreshAtATime'
    BY <1>1, <2>1 DEF TokenIsNewest, OneRefreshAtATime, CredentialSound
  <2>3. AccountIsKept'
    BY DEF SaveWrites, LockHeld, AccountIsKept, CredentialSound
  <2>4. QED
    BY <2>2, <2>3 DEF CredentialSound
<1>7. QED
  BY <1>3, <1>4, <1>5, <1>6

-----------------------------------------------------------------------------
(* Calls that leave the provider's grants as they are.                     *)
LEMMA ReadStep ==
  ASSUME PlanInv, NEW c \in PlanCalls, UseToken(c) \/ BeginRefresh(c) \/ RefreshFails(c)
  PROVE  LockHeld' /\ Unused' /\ Stored' /\ CredentialSound'
<1>. USE PlanAssumption DEF PlanInv, saveVars, callVars, seenVars
<1>1. UNCHANGED <<row, saving, client, grant, renewals, ended, removed, switched>>
  BY DEF UseToken, BeginRefresh, RefreshFails
<1>2. LockHeld'
  <2>1. CASE UseToken(c)
    BY <2>1, <1>1 DEF UseToken, LockHeld, Account, PlanTypeOK
  <2>2. CASE BeginRefresh(c)
    BY <2>2, <1>1 DEF BeginRefresh, LockRow, Locked, LockHeld, Account, PlanTypeOK, Unheld
  <2>3. CASE RefreshFails(c)
    BY <2>3, <1>1 DEF RefreshFails, EndCall, LockHeld, Account, PlanTypeOK, Unheld
  <2>4. QED
    BY <2>1, <2>2, <2>3
<1>3. Unused'
  BY <1>1 DEF Unused
<1>4. Stored'
  BY <1>1 DEF UseToken, BeginRefresh, RefreshFails, EndCall, Stored, PlanTypeOK
<1>5. CredentialSound'
  BY <1>1 DEF CredentialSound, TokenIsNewest, OneRefreshAtATime, AccountIsKept
<1>6. QED
  BY <1>2, <1>3, <1>4, <1>5

(* What a call that renews holds: the row's grant, saved, and the lock.    *)
LEMMA Refreshing ==
  ASSUME PlanInv, NEW c \in PlanCalls, using[c] = "refreshing"
  PROVE  /\ holder = c /\ row # NoRow /\ row.grant \in Grants
         /\ token[c].grant = row.grant /\ token[c].newest = row.newest
         /\ saving[row.grant] = "saved"
         /\ \A d \in PlanCalls \ {c} : using[d] # "refreshing"
         /\ \A g \in Grants : saving[g] # "checked"
BY PlanAssumption, RowOfGrant DEF PlanInv, LockHeld

(* A refresh the provider accepts.                                         *)
LEMMA RefreshStep ==
  ASSUME PlanInv, NEW c \in PlanCalls, NEW n \in 1 .. MaxRotation, Refresh(c, n)
  PROVE  LockHeld' /\ Unused' /\ Stored' /\ CredentialSound'
<1>. USE PlanAssumption DEF PlanInv, saveVars, callVars, seenVars
<1>1. using[c] = "refreshing"
  BY DEF Refresh
<1>2. PICK t \in Grants : t = row.grant /\ saving[t] = "saved"
  BY <1>1, Refreshing
<1>3. /\ grant' = [grant EXCEPT ![t].newest = n]
      /\ row' = [row EXCEPT !.newest = n, !.fresh = TRUE]
      /\ using' = [using EXCEPT ![c] = "done"]
      /\ UNCHANGED <<saving, client, token, renewals, ended, removed, switched>>
      /\ grant[t].alive
  BY <1>1, <1>2, Refreshing DEF Refresh, EndCall, Accepted
<1>4. LockHeld'
  BY <1>1, <1>3, Refreshing DEF LockHeld, PlanTypeOK
<1>5. Unused'
  BY <1>2, <1>3 DEF Unused, PlanTypeOK
<1>6. row'.grant = t /\ row'.newest = n
  BY <1>2, <1>3 DEF PlanTypeOK
<1>7. Stored'
  BY <1>1, <1>2, <1>3, <1>6 DEF Stored, PlanTypeOK
<1>8. grant'[t].alive /\ grant'[t].newest = n
  BY <1>3 DEF PlanTypeOK
<1>9. CredentialSound'
  BY <1>3, <1>6, <1>8 DEF CredentialSound, TokenIsNewest, OneRefreshAtATime, AccountIsKept
<1>10. QED
  BY <1>4, <1>5, <1>7, <1>9

(* A refresh whose answer is lost: the row stays, its grant is noted.      *)
LEMMA RefreshLostStep ==
  ASSUME PlanInv, NEW c \in PlanCalls, RefreshLost(c)
  PROVE  LockHeld' /\ Unused' /\ Stored' /\ CredentialSound'
<1>. USE PlanAssumption DEF PlanInv, saveVars, callVars, seenVars
<1>1. using[c] = "refreshing"
  BY DEF RefreshLost
<1>2. PICK t \in Grants : t = row.grant /\ saving[t] = "saved"
  BY <1>1, Refreshing
<1>3. /\ grant' = [grant EXCEPT ![t].newest = @ + 1]
      /\ renewals' = renewals \union {t}
      /\ using' = [using EXCEPT ![c] = "done"]
      /\ UNCHANGED <<row, saving, client, token, ended, removed, switched>>
  BY <1>1, <1>2, Refreshing DEF RefreshLost, EndCall
<1>4. LockHeld'
  BY <1>1, <1>3, Refreshing DEF LockHeld, PlanTypeOK
<1>5. Unused'
  BY <1>2, <1>3 DEF Unused, PlanTypeOK
<1>6. Stored'
  BY <1>3 DEF Stored, PlanTypeOK
<1>7. CredentialSound'
  BY <1>2, <1>3 DEF CredentialSound, TokenIsNewest, OneRefreshAtATime, AccountIsKept
<1>8. QED
  BY <1>4, <1>5, <1>6, <1>7

(* A refresh that deletes the row.  A refusal means that the provider's    *)
(* newest token is not the stored one, which was lost, or that the         *)
(* provider ended the grant.                                               *)
LEMMA RefreshEndsRow ==
  ASSUME PlanInv, NEW c \in PlanCalls, RefreshRefused(c) \/ ScopeWithdrawn(c)
  PROVE  LockHeld' /\ Unused' /\ Stored' /\ CredentialSound'
<1>. USE PlanAssumption DEF PlanInv, saveVars, callVars, seenVars
<1>1. using[c] = "refreshing"
  BY DEF RefreshRefused, ScopeWithdrawn
<1>2. /\ row' = NoRow /\ using' = [using EXCEPT ![c] = "done"]
      /\ UNCHANGED <<saving, client, grant, token, renewals, ended, switched>>
  BY DEF RefreshRefused, ScopeWithdrawn, EndCall
<1>3. LockHeld'
  BY <1>1, <1>2, Refreshing DEF LockHeld, PlanTypeOK
<1>4. Unused'
  BY <1>2 DEF Unused
<1>5. Stored'
  BY <1>2 DEF Stored, NoRow, PlanTypeOK
<1>6. OneRefreshAtATime'
  <2>1. CASE RefreshRefused(c)
    <3>1. row.grant \in renewals \union ended
      BY <2>1, <1>1, Refreshing DEF RefreshRefused, Accepted, CredentialSound, TokenIsNewest
    <3>2. QED
      BY <2>1, <3>1, <1>1, Refreshing DEF RefreshRefused, CredentialSound, OneRefreshAtATime
  <2>2. CASE ScopeWithdrawn(c)
    BY <2>2 DEF ScopeWithdrawn, CredentialSound, OneRefreshAtATime
  <2>3. QED
    BY <2>1, <2>2
<1>7. CredentialSound'
  BY <1>2, <1>6 DEF CredentialSound, TokenIsNewest, AccountIsKept
<1>8. QED
  BY <1>3, <1>4, <1>5, <1>7

(* disconnect: the row goes while nobody holds it ...                      *)
LEMMA DisconnectStep ==
  ASSUME PlanInv, NEW c \in PlanCalls, Disconnect(c)
  PROVE  LockHeld' /\ Unused' /\ Stored' /\ CredentialSound'
<1>. USE PlanAssumption DEF PlanInv, saveVars, callVars, seenVars
<1>1. /\ row' = NoRow /\ holder = Unheld
      /\ using' = [using EXCEPT ![c] = IF row = NoRow THEN "done" ELSE "revoking"]
      /\ token' = [token EXCEPT ![c] = [grant |-> row.grant, newest |-> row.newest]]
      /\ UNCHANGED <<saving, client, grant, renewals, ended, removed, switched>>
  BY DEF Disconnect
<1>2. /\ \A g \in Grants : saving[g] # "checked"
      /\ \A d \in PlanCalls : using[d] # "refreshing"
  BY <1>1 DEF LockHeld, Unheld
<1>3. LockHeld'
  BY <1>1, <1>2 DEF LockHeld, PlanTypeOK
<1>4. Unused'
  BY <1>1 DEF Unused
<1>5. Stored'
  <2>1. row'.grant = "none"
    BY <1>1 DEF NoRow
  <2>2. ASSUME NEW d \in PlanCalls, using'[d] = "revoking"
        PROVE  token'[d].grant \in Grants /\ saving[token'[d].grant] = "saved"
    <3>1. CASE d = c
      <4>1. row # NoRow /\ token'[c].grant = row.grant
        BY <1>1, <2>2, <3>1 DEF PlanTypeOK
      <4>2. QED
        BY <3>1, <4>1, RowOfGrant
    <3>2. CASE d # c
      BY <1>1, <2>2, <3>2 DEF Stored, PlanTypeOK
    <3>3. QED
      BY <3>1, <3>2
  <2>3. QED
    BY <1>1, <2>1, <2>2 DEF Stored
<1>6. CredentialSound'
  BY <1>1 DEF CredentialSound, TokenIsNewest, OneRefreshAtATime, AccountIsKept
<1>7. QED
  BY <1>3, <1>4, <1>5, <1>6

(* ... and the provider is told of a grant that is stored no more.         *)
LEMMA RevokeStep ==
  ASSUME PlanInv, NEW c \in PlanCalls, RevokeGrant(c)
  PROVE  LockHeld' /\ Unused' /\ Stored' /\ CredentialSound'
<1>. USE PlanAssumption DEF PlanInv, saveVars, callVars, seenVars
<1>1. PICK t \in Grants : t = token[c].grant /\ saving[t] = "saved" /\ row.grant # t
  BY DEF RevokeGrant, Stored
<1>2. /\ using[c] = "revoking" /\ using' = [using EXCEPT ![c] = "done"]
      /\ UNCHANGED <<row, holder, saving, client, token, renewals, ended, removed, switched>>
      /\ grant' = [grant EXCEPT ![t].alive = FALSE] \/ grant' = grant
  BY <1>1 DEF RevokeGrant
<1>3. /\ \A g \in Grants \ {t} : grant'[g] = grant[g]
      /\ \A g \in Grants : grant'[g].account = grant[g].account
  BY SMTT(60), <1>2 DEF PlanTypeOK
<1>4. LockHeld'
  BY <1>2, <1>3, RowOfGrant DEF LockHeld, Account, PlanTypeOK
<1>5. Unused'
  BY <1>1, <1>2, <1>3 DEF Unused
<1>6. Stored'
  BY <1>2 DEF Stored, PlanTypeOK
<1>7. CredentialSound'
  BY <1>1, <1>2, <1>3, RowOfGrant DEF CredentialSound, TokenIsNewest, OneRefreshAtATime, AccountIsKept
<1>8. QED
  BY <1>4, <1>5, <1>6, <1>7

(* The provider ends a grant, stored or not: that is noted.                *)
LEMMA EndsStep ==
  ASSUME PlanInv, NEW g \in Grants, ProviderEnds(g)
  PROVE  PlanInv'
<1>. USE PlanAssumption DEF PlanInv, saveVars, callVars, seenVars
<1>1. /\ grant' = [grant EXCEPT ![g].alive = FALSE]
      /\ ended' = ended \union {g}
      /\ UNCHANGED <<row, holder, saving, client, using, token, renewals, removed, switched>>
  BY DEF ProviderEnds
<1>2. /\ \A h \in Grants \ {g} : grant'[h] = grant[h]
      /\ \A h \in Grants : /\ grant'[h].account = grant[h].account
                           /\ grant'[h].newest = grant[h].newest
  BY SMTT(60), <1>1 DEF PlanTypeOK
<1>3. PlanTypeOK'
  <2>1. 0 \in 0 .. MaxRotation
    OBVIOUS
  <2>2. grant' \in [Grants -> [account : Accounts \union {"none"}, newest : 0 .. MaxRotation,
                               alive : BOOLEAN]]
    BY <1>1, <2>1, GrantTypes
  <2>3. QED
    BY <1>1, <2>2 DEF PlanTypeOK
<1>4. LockHeld'
  BY <1>1, <1>2, RowOfGrant DEF LockHeld, Account
<1>5. Unused'
  BY <1>1, <1>2 DEF Unused
<1>6. Stored'
  BY <1>1 DEF Stored
<1>7. CredentialSound'
  BY <1>1, <1>2, RowOfGrant DEF CredentialSound, TokenIsNewest, OneRefreshAtATime, AccountIsKept
<1>8. QED
  BY <1>3, <1>4, <1>5, <1>6, <1>7

(* Time takes the freshness of the access token only.                      *)
LEMMA AgesStep == ASSUME PlanInv, TokenAges PROVE PlanInv'
<1>. USE PlanAssumption DEF PlanInv, saveVars, callVars, seenVars
<1>1. /\ row # NoRow /\ row' = [row EXCEPT !.fresh = FALSE]
      /\ UNCHANGED <<holder, saving, client, grant, using, token, renewals, ended, removed, switched>>
  BY RowOfGrant DEF TokenAges
<1>2. /\ row'.grant = row.grant /\ row'.newest = row.newest /\ row' # NoRow
      /\ PlanTypeOK'
  BY <1>1, RowOfGrant DEF PlanTypeOK, NoRow
<1>3. LockHeld'
  BY <1>1, <1>2 DEF LockHeld, Account
<1>4. Unused' /\ Stored'
  BY <1>1, <1>2 DEF Unused, Stored
<1>5. CredentialSound'
  BY <1>1, <1>2 DEF CredentialSound, TokenIsNewest, OneRefreshAtATime, AccountIsKept
<1>6. QED
  BY <1>2, <1>3, <1>4, <1>5

-----------------------------------------------------------------------------
(* Every step of the credential.                                           *)
LEMMA PlanNextInv == PlanInv /\ [PlanNext]_planVars => PlanInv'
<1>. SUFFICES ASSUME PlanInv, [PlanNext]_planVars PROVE PlanInv'
  OBVIOUS
<1>1. ASSUME NEW g \in Grants,
             \/ Connect(g) \/ SaveBegins(g) \/ SaveWrites(g) \/ SaveFails(g)
             \/ ConsentFails(g) \/ IdentityRefused(g)
             \/ \E a \in Accounts : Consent(g, a)
      PROVE  PlanInv'
  <2>1. PlanTypeOK'
    BY <1>1, SaveTypes DEF PlanInv
  <2>2. LockHeld' /\ Unused' /\ Stored' /\ CredentialSound'
    BY <1>1, AuthorizeStep, SaveWritesStep
  <2>3. QED
    BY <2>1, <2>2 DEF PlanInv
<1>2. ASSUME NEW c \in PlanCalls,
             \/ UseToken(c) \/ BeginRefresh(c) \/ RefreshLost(c) \/ RefreshFails(c)
             \/ RefreshRefused(c) \/ ScopeWithdrawn(c) \/ Disconnect(c) \/ RevokeGrant(c)
             \/ \E n \in 1 .. MaxRotation : Refresh(c, n)
      PROVE  PlanInv'
  <2>1. PlanTypeOK'
    BY <1>2, CallTypes DEF PlanInv
  <2>2. LockHeld' /\ Unused' /\ Stored' /\ CredentialSound'
    BY <1>2, ReadStep, RefreshStep, RefreshLostStep, RefreshEndsRow, DisconnectStep, RevokeStep
  <2>3. QED
    BY <2>1, <2>2 DEF PlanInv
<1>3. CASE TokenAges \/ \E g \in Grants : ProviderEnds(g)
  BY <1>3, AgesStep, EndsStep
<1>4. CASE UNCHANGED planVars
  BY <1>4 DEF planVars, saveVars, callVars, seenVars, PlanInv, PlanTypeOK, LockHeld, Account,
     Unused, Stored, CredentialSound, TokenIsNewest, OneRefreshAtATime, AccountIsKept
<1>5. QED
  BY <1>1, <1>2, <1>3, <1>4 DEF PlanNext

(* Who compares or renews the credential holds the row's lock and sees the *)
(* row as it is, and no grant is saved twice (save_credentials,            *)
(* access_token).                                                          *)
THEOREM PlanInvariance == PlanSpec => []PlanInv
<1>1. QED
  BY PlanInitInv, PlanNextInv, PTL DEF PlanSpec

(* However authorizations, refreshes and disconnections interleave, and    *)
(* whatever grants the provider ends at any point of them: the stored      *)
(* token is the newest the provider gave and is good, unless its answer    *)
(* was lost or the provider ended the grant; a refusal deletes the row     *)
(* only for these two reasons; and a save that found a row keeps its       *)
(* account.                                                                *)
THEOREM CredentialIsSound == PlanSpec => []CredentialSound
<1>1. PlanInv => CredentialSound
  BY DEF PlanInv
<1>2. QED
  BY <1>1, PlanInvariance, PTL

-----------------------------------------------------------------------------
(* A set of positions has a last one.                                      *)
LEMMA Greatest ==
  ASSUME NEW n \in Nat, NEW T \in SUBSET (0 .. n), T # {}
  PROVE  \E x \in T : \A y \in T : x >= y
<1>. DEFINE U == {n - x : x \in T}
<1>1. U \in SUBSET Nat /\ U # {}
  <2>1. \A x \in T : n - x \in Nat
    OBVIOUS
  <2>2. U # {}
    OBVIOUS
  <2>. QED
    BY <2>1, <2>2
<1>2. PICK u \in U : \A v \in U : u <= v
  BY <1>1, Least
<1>3. PICK x \in T : u = n - x
  BY <1>2
<1>4. \A y \in T : n - x <= n - y
  BY <1>2, <1>3
<1>. QED
  BY <1>4

-----------------------------------------------------------------------------
(***************************************************************************)
(* The loop of chunk_text.                                                 *)
(***************************************************************************)
Text(t) ==
  /\ t.length \in Nat \ {0} /\ t.spaces \subseteq Nat

(* All that the loop needs to know of a normalized text.                   *)
LEMMA TextsAreText == ASSUME NEW t \in Texts PROVE Text(t)
BY ChunkAssumption DEF Texts, Text

(* A chunk is not empty and within the text; it is cut at a space, or as   *)
(* long as it may be, or the last.                                         *)
LEMMA EndOfChunk ==
  ASSUME NEW t, Text(t), NEW s \in 0 .. t.length - 1
  PROVE  /\ ChunkEnd(t, s) \in s + 1 .. t.length
         /\ \/ ChunkEnd(t, s) = t.length
            \/ ChunkEnd(t, s) = s + ChunkSize
            \/ ChunkEnd(t, s) \in t.spaces
<1>. DEFINE end == Smaller(t.length, s + ChunkSize)
<1>. USE ChunkAssumption DEF Text
<1>1. /\ end \in s + 1 .. t.length
      /\ end < t.length => end = s + ChunkSize
  BY DEF Smaller
<1>2. CASE end < t.length /\ Splits(t, s, end) # {}
  <2>1. Splits(t, s, end) \in SUBSET (0 .. t.length)
    BY <1>1 DEF Splits
  <2>2. Max(Splits(t, s, end)) \in Splits(t, s, end)
    BY <1>2, <2>1, Greatest DEF Max
  <2>3. ChunkEnd(t, s) = Max(Splits(t, s, end))
    BY <1>2 DEF ChunkEnd
  <2>4. ChunkSize \div 2 \in Nat
    OBVIOUS
  <2>. HIDE DEF end
  <2>. QED
    BY <1>1, <2>2, <2>3, <2>4 DEF Splits
<1>3. CASE ~(end < t.length /\ Splits(t, s, end) # {})
  <2>1. ChunkEnd(t, s) = end
    BY <1>3 DEF ChunkEnd
  <2>. HIDE DEF end
  <2>. QED
    BY <1>1, <2>1
<1>. QED
  BY <1>2, <1>3

(* The loop goes on, and leaves no gap.                                    *)
LEMMA NextOfChunk ==
  ASSUME NEW t, Text(t), NEW s \in 0 .. t.length - 1, ChunkEnd(t, s) < t.length
  PROVE  /\ NextStart(t, s) \in s + 1 .. ChunkEnd(t, s)
         /\ NextStart(t, s) <= t.length - 1
         /\ NextStart(t, s) = s + 1 \/ NextStart(t, s) = ChunkEnd(t, s) - ChunkOverlap
BY EndOfChunk, ChunkAssumption DEF NextStart, Larger, Text

(* A word short enough to be in the overlap that the chunk cuts begins     *)
(* after the next one does.                                                *)
LEMMA CutWord ==
  ASSUME NEW t, Text(t), NEW s \in 0 .. t.length - 1, ChunkEnd(t, s) < t.length,
         NEW w \in Words(t), w[2] - w[1] <= ChunkOverlap, w[1] >= s, w[2] > ChunkEnd(t, s)
  PROVE  w[1] >= NextStart(t, s)
<1>1. /\ w[1] \in 0 .. t.length /\ w[2] \in 0 .. t.length
      /\ \A i \in w[1] .. w[2] - 1 : i \notin t.spaces
  BY DEF Words
<1>2. w[1] # s
  BY <1>1, EndOfChunk, ChunkAssumption DEF Text
<1>. QED
  BY <1>1, <1>2, NextOfChunk, EndOfChunk, ChunkAssumption DEF Text

-----------------------------------------------------------------------------
(* What the recursion of ChunkText makes of f.                             *)
Loop(t, f) ==
  [s \in 0 .. t.length |->
     <<<<s, ChunkEnd(t, s)>>>> \o
       IF ChunkEnd(t, s) >= t.length THEN <<>> ELSE f[NextStart(t, s)]]

(* ChunkText is the function the recursion defines, from the start.        *)
LEMMA ChunkTextLoops == 
  ASSUME NEW t
  PROVE  ChunkText(t) = (CHOOSE f : f = Loop(t, f))[0]
BY DEF ChunkText, Loop

(* A loop that began at the end of the text would end there.               *)
LEMMA LastEnd ==
  ASSUME NEW t, Text(t)
  PROVE  ChunkEnd(t, t.length) >= t.length
<1>. DEFINE end == Smaller(t.length, t.length + ChunkSize)
<1>1. end = t.length
  BY ChunkAssumption DEF Text, Smaller
<1>2. ChunkEnd(t, t.length) = end
  BY <1>1 DEF ChunkEnd, Text
<1>. QED
  BY <1>1, <1>2 DEF Text

(* There is such a function: it is made from the end of the text.          *)
LoopsFrom(t, n, f) ==
  f = [s \in n .. t.length |->
         <<<<s, ChunkEnd(t, s)>>>> \o
           IF ChunkEnd(t, s) >= t.length THEN <<>> ELSE f[NextStart(t, s)]]

LEMMA LoopIsDefined ==
  ASSUME NEW t, Text(t)
  PROVE  \E f : f = Loop(t, f)
<1>. DEFINE Undefined == {n \in 0 .. t.length : ~ \E f : LoopsFrom(t, n, f)}
<1>1. ASSUME Undefined # {} PROVE FALSE
  <2>1. PICK n \in Undefined : \A m \in Undefined : n >= m
    BY <1>1, Greatest DEF Text
  <2>2. n \in 0 .. t.length /\ ~ \E f : LoopsFrom(t, n, f)
    BY <2>1
  <2>3. CASE n = t.length
    <3>. DEFINE f == [s \in n .. t.length |-> <<<<s, ChunkEnd(t, s)>>>> \o <<>>]
    <3>1. \A s \in n .. t.length : ChunkEnd(t, s) >= t.length
      BY <2>3, LastEnd DEF Text
    <3>2. LoopsFrom(t, n, f)
      BY <3>1 DEF LoopsFrom
    <3>. QED
      BY <2>2, <3>2
  <2>4. CASE n < t.length
    <3>1. n + 1 \in 0 .. t.length /\ n + 1 \notin Undefined
      BY <2>1, <2>2, <2>4 DEF Text
    <3>2. PICK f : LoopsFrom(t, n + 1, f)
      BY <3>1
    <3>. DEFINE g == [s \in n .. t.length |->
                        IF s = n
                          THEN <<<<s, ChunkEnd(t, s)>>>> \o
                                 IF ChunkEnd(t, s) >= t.length THEN <<>> ELSE f[NextStart(t, s)]
                          ELSE f[s]]
    <3>3. \A s \in n + 1 .. t.length : g[s] = f[s]
      BY <2>2 DEF Text
    <3>4. ASSUME NEW s \in n .. t.length, ~(ChunkEnd(t, s) >= t.length)
          PROVE  g[NextStart(t, s)] = f[NextStart(t, s)]
      <4>1. s \in 0 .. t.length - 1
        BY <2>2, <3>4, LastEnd DEF Text
      <4>2. NextStart(t, s) \in n + 1 .. t.length
        BY <2>2, <3>4, <4>1, NextOfChunk, EndOfChunk DEF Text
      <4>. QED
        BY <3>3, <4>2
    <3>5. \A s \in n .. t.length :
            g[s] = <<<<s, ChunkEnd(t, s)>>>> \o
                     IF ChunkEnd(t, s) >= t.length THEN <<>> ELSE g[NextStart(t, s)]
      <4>. SUFFICES ASSUME NEW s \in n .. t.length
                    PROVE  g[s] = <<<<s, ChunkEnd(t, s)>>>> \o
                             IF ChunkEnd(t, s) >= t.length THEN <<>> ELSE f[NextStart(t, s)]
        BY <3>4
      <4>1. CASE s = n
        BY <4>1
      <4>2. CASE s # n
        <5>1. s \in n + 1 .. t.length
          BY <2>2, <4>2 DEF Text
        <5>2. f[s] = <<<<s, ChunkEnd(t, s)>>>> \o
                       IF ChunkEnd(t, s) >= t.length THEN <<>> ELSE f[NextStart(t, s)]
          BY <3>2, <5>1 DEF LoopsFrom
        <5>. QED
          BY <3>3, <5>1, <5>2
      <4>. QED
        BY <4>1, <4>2
    <3>6. g = [s \in n .. t.length |-> g[s]]
      OBVIOUS
    <3>. HIDE DEF g
    <3>7. LoopsFrom(t, n, g)
      BY <3>5, <3>6 DEF LoopsFrom
    <3>. QED
      BY <2>2, <3>7
  <2>. QED
    BY <2>2, <2>3, <2>4 DEF Text
<1>2. 0 \in 0 .. t.length
  BY DEF Text
<1>3. PICK f : LoopsFrom(t, 0, f)
  BY <1>1, <1>2
<1>. QED
  BY <1>3 DEF LoopsFrom, Loop

-----------------------------------------------------------------------------
(* What a loop that begins at s has to return.                             *)
Covers(t, s, chunks) ==
  /\ chunks \in Seq((0 .. t.length) \X (0 .. t.length)) /\ chunks # <<>>
  /\ \A i \in s .. t.length - 1 : \E c \in ToSet(chunks) : Within(i, i + 1, c)
  /\ \A w \in Words(t) :
       w[1] >= s /\ w[2] - w[1] <= ChunkOverlap => \E c \in ToSet(chunks) : Within(w[1], w[2], c)

(* The last chunk covers what is left.                                     *)
LEMMA OneChunk ==
  ASSUME NEW t, Text(t), NEW s \in 0 .. t.length - 1, ChunkEnd(t, s) >= t.length
  PROVE  Covers(t, s, <<<<s, ChunkEnd(t, s)>>>>)
<1>. DEFINE c == <<s, ChunkEnd(t, s)>>
<1>1. ChunkEnd(t, s) = t.length
  BY EndOfChunk DEF Text
<1>2. c \in (0 .. t.length) \X (0 .. t.length) /\ c[1] = s /\ c[2] = t.length
  BY <1>1 DEF Text
<1>3. c \in ToSet(<<c>>)
  BY DEF ToSet
<1>4. \A w \in Words(t) : w[2] <= t.length
  BY DEF Words, Text
<1>5. ASSUME NEW i \in s .. t.length - 1 PROVE Within(i, i + 1, c)
  BY <1>2 DEF Within, Text
<1>. HIDE DEF c
<1>6. <<c>> \in Seq((0 .. t.length) \X (0 .. t.length)) /\ <<c>> # <<>>
  BY <1>2
<1>. QED
  BY <1>2, <1>3, <1>4, <1>5, <1>6 DEF Covers, Within, c

(* A chunk covers, with what the rest of the loop returns, all from its    *)
(* start on: words it cuts are in the rest, if the overlap can hold them.  *)
LEMMA ChunkBefore ==
  ASSUME NEW t, Text(t), NEW s \in 0 .. t.length - 1, ChunkEnd(t, s) < t.length,
         NEW rest, Covers(t, NextStart(t, s), rest)
  PROVE  Covers(t, s, <<<<s, ChunkEnd(t, s)>>>> \o rest)
<1>. DEFINE c == <<s, ChunkEnd(t, s)>>
            Pair == (0 .. t.length) \X (0 .. t.length)
            chunks == <<c>> \o rest
<1>1. c \in Pair /\ c[1] = s /\ c[2] = ChunkEnd(t, s)
  BY EndOfChunk DEF Text
<1>2. rest \in Seq(Pair) /\ <<c>> \in Seq(Pair)
  BY <1>1 DEF Covers
<1>. HIDE DEF c, Pair
<1>3. /\ chunks \in Seq(Pair) /\ chunks # <<>>
      /\ c \in ToSet(chunks)
      /\ \A d \in ToSet(rest) : d \in ToSet(chunks)
  <2>1. /\ chunks \in Seq(Pair) /\ Len(chunks) = 1 + Len(rest)
        /\ chunks[1] = c
        /\ \A i \in 1 .. Len(rest) : chunks[i + 1] = rest[i]
    BY <1>2, SMTT(30)
  <2>2. DOMAIN chunks = 1 .. 1 + Len(rest) /\ DOMAIN rest = 1 .. Len(rest) /\ Len(rest) \in Nat
    BY <1>2, <2>1
  <2>. HIDE DEF chunks
  <2>. QED
    BY <2>1, <2>2 DEF ToSet
<1>. HIDE DEF chunks
<1>4. ASSUME NEW i \in s .. t.length - 1 PROVE \E d \in ToSet(chunks) : Within(i, i + 1, d)
  <2>1. CASE i < ChunkEnd(t, s)
    <3>1. Within(i, i + 1, c)
      BY <1>1, <2>1, EndOfChunk DEF Within, Text
    <3>. QED
      BY <3>1, <1>3
  <2>2. CASE i >= ChunkEnd(t, s)
    <3>1. i \in NextStart(t, s) .. t.length - 1
      BY <2>2, NextOfChunk, EndOfChunk DEF Text
    <3>. QED
      BY <3>1, <1>3 DEF Covers
  <2>. QED
    BY <2>1, <2>2, EndOfChunk DEF Text
<1>5. ASSUME NEW w \in Words(t), w[1] >= s, w[2] - w[1] <= ChunkOverlap
      PROVE  \E d \in ToSet(chunks) : Within(w[1], w[2], d)
  <2>1. CASE w[2] <= ChunkEnd(t, s)
    BY <1>1, <1>3, <1>5, <2>1 DEF Within
  <2>2. CASE w[2] > ChunkEnd(t, s)
    BY <1>3, <1>5, <2>2, CutWord DEF Covers
  <2>. QED
    BY <2>1, <2>2, EndOfChunk DEF Words, Text
<1>. QED
  BY <1>3, <1>4, <1>5 DEF Covers, chunks, c, Pair

(* So no position is the last from which the loop does not cover the text. *)
LEMMA TextIsCovered ==
  ASSUME NEW t, Text(t)
  PROVE  Covers(t, 0, ChunkText(t))
<1>. DEFINE f == CHOOSE g : g = Loop(t, g)
            Bad == {s \in 0 .. t.length : s < t.length /\ ~Covers(t, s, f[s])}
<1>1. f = Loop(t, f)
  BY LoopIsDefined, Zenon
<1>. HIDE DEF f
<1>2. \A s \in 0 .. t.length :
        f[s] = <<<<s, ChunkEnd(t, s)>>>> \o
                 IF ChunkEnd(t, s) >= t.length THEN <<>> ELSE f[NextStart(t, s)]
  BY <1>1 DEF Loop
<1>3. ASSUME Bad # {} PROVE FALSE
  <2>1. PICK s \in Bad : \A r \in Bad : s >= r
    BY <1>3, Greatest DEF Text
  <2>2. s \in 0 .. t.length - 1 /\ s \in 0 .. t.length /\ ~Covers(t, s, f[s])
    BY <2>1 DEF Text
  <2>3. CASE ChunkEnd(t, s) >= t.length
    <3>1. f[s] = <<<<s, ChunkEnd(t, s)>>>> \o <<>>
      BY <1>2, <2>2, <2>3
    <3>2. f[s] = <<<<s, ChunkEnd(t, s)>>>>
      BY <3>1
    <3>. QED
      BY <2>2, <2>3, <3>2, OneChunk
  <2>4. CASE ChunkEnd(t, s) < t.length
    <3>1. f[s] = <<<<s, ChunkEnd(t, s)>>>> \o f[NextStart(t, s)]
      BY <1>2, <2>2, <2>4, EndOfChunk DEF Text
    <3>2. NextStart(t, s) \in 0 .. t.length /\ NextStart(t, s) < t.length /\ NextStart(t, s) > s
      BY <2>2, <2>4, NextOfChunk, EndOfChunk DEF Text
    <3>3. Covers(t, NextStart(t, s), f[NextStart(t, s)])
      BY <2>1, <2>2, <3>2
    <3>. QED
      BY <2>2, <2>4, <3>1, <3>3, ChunkBefore
  <2>. QED
    BY <2>2, <2>3, <2>4, EndOfChunk DEF Text
<1>4. Covers(t, 0, f[0])
  BY <1>3 DEF Text
<1>. QED
  BY <1>4, ChunkTextLoops DEF f

-----------------------------------------------------------------------------
(***************************************************************************)
(* The vault.                                                              *)
(***************************************************************************)
(* Chunks are counted, and lie within their text.                          *)
LEMMA ChunksTyped ==
  ASSUME NEW t \in Texts
  PROVE  /\ Len(ChunkText(t)) \in Nat
         /\ \A n \in DOMAIN ChunkText(t) :
              ChunkText(t)[n] \in (0 .. MaxLength) \X (0 .. MaxLength)
<1>. DEFINE Pair == (0 .. t.length) \X (0 .. t.length)
<1>1. ChunkText(t) \in Seq(Pair)
  BY TextIsCovered, TextsAreText DEF Covers
<1>2. t.length \in 1 .. MaxLength
  BY DEF Texts
<1>3. Pair \subseteq (0 .. MaxLength) \X (0 .. MaxLength)
  BY <1>2, ChunkAssumption
<1>. HIDE DEF Pair
<1>4. DOMAIN ChunkText(t) = 1 .. Len(ChunkText(t)) /\ Len(ChunkText(t)) \in Nat
  BY <1>1
<1>5. \A n \in 1 .. Len(ChunkText(t)) : ChunkText(t)[n] \in Pair
  BY <1>1
<1>. QED
  BY <1>3, <1>4, <1>5

(* A row is stored whole and deleted whole.                                *)
LEMMA VaultNextInv == VaultInv /\ [VaultNext]_vaultVars => VaultInv'
<1>. SUFFICES ASSUME VaultInv, [VaultNext]_vaultVars PROVE VaultInv'
  OBVIOUS
<1>1. stored = <<>> => Len(stored) \in Nat
  OBVIOUS
<1>2. Len(stored) \in Nat
  BY <1>1, ChunksTyped DEF VaultInv
<1>3. ASSUME NEW i \in Ingestions, Ingest(i) PROVE VaultInv'
  BY <1>2, <1>3 DEF VaultInv, Ingest
<1>4. ASSUME NEW i \in Ingestions, StoreDocument(i) PROVE VaultInv'
  <2>1. stored' = stored \/ stored' = ChunkText(text)
    BY <1>4 DEF StoreDocument
  <2>2. reported' = reported \/ reported' = [reported EXCEPT ![i] = Len(ChunkText(text))]
    BY <1>4 DEF StoreDocument
  <2>3. Len(ChunkText(text)) \in Nat
    BY ChunksTyped DEF VaultInv
  <2>4. reported' \in [Ingestions -> Nat]
    BY <2>2, <2>3 DEF VaultInv
  <2>5. ingestion' \in [Ingestions -> {"idle", "storing", "done", "failed"}]
    BY <1>4 DEF StoreDocument, VaultInv
  <2>6. text' = text
    BY <1>4 DEF StoreDocument
  <2>. QED
    BY <2>1, <2>4, <2>5, <2>6 DEF VaultInv
<1>5. ASSUME NEW i \in Ingestions, IngestFails(i) PROVE VaultInv'
  BY <1>5 DEF VaultInv, IngestFails
<1>6. CASE DeleteDocument
  BY <1>6 DEF VaultInv, DeleteDocument
<1>7. CASE UNCHANGED vaultVars
  BY <1>7 DEF VaultInv, vaultVars
<1>. QED
  BY <1>3, <1>4, <1>5, <1>6, <1>7 DEF VaultNext

(* The row holds the chunks of its text, or is not there.                  *)
THEOREM VaultInvariance == VaultSpec => []VaultInv
<1>1. VaultInit => VaultInv
  BY DEF VaultInit, VaultInv
<1>. QED
  BY <1>1, VaultNextInv, PTL DEF VaultSpec

(* Whatever the text, the size of a chunk and the overlap: every position  *)
(* of a stored document is in a chunk, and every word that the overlap can *)
(* hold is whole in one (chunk_text).                                      *)
THEOREM ChunksCoverTheirText == VaultSpec => []ChunksCover
<1>1. ASSUME VaultInv PROVE ChunksCover
  <2>1. text \in Texts /\ (stored # <<>> => stored = ChunkText(text))
    BY <1>1 DEF VaultInv
  <2>2. Text(text) /\ Covers(text, 0, ChunkText(text))
    BY <2>1, TextsAreText, TextIsCovered
  <2>3. \A w \in Words(text) : w[1] >= 0
    BY DEF Words
  <2>. QED
    BY <2>1, <2>2, <2>3 DEF Covers, ChunksCover
<1>. QED
  BY <1>1, VaultInvariance, PTL

-----------------------------------------------------------------------------
(***************************************************************************)
(* The composition.                                                        *)
(***************************************************************************)
(* A behaviour of the four together is one of each.                        *)
LEMMA PartsRunAlone == Spec => IdentitySpec /\ LimiterSpec /\ PlanSpec /\ VaultSpec
<1>. DEFINE all == <<part, identityVars, limiterVars, planVars, vaultVars>>
<1>1. Init => IdentityInit /\ LimiterInit /\ PlanInit /\ VaultInit
  BY DEF Init
<1>2. ASSUME [Next]_all
      PROVE  /\ [IdentityNext]_identityVars /\ [LimiterNext]_limiterVars
             /\ [PlanNext]_planVars /\ [VaultNext]_vaultVars
  BY <1>2 DEF Next, OthersRest
<1>. QED
  BY <1>1, <1>2, PTL DEF Spec, IdentitySpec, LimiterSpec, PlanSpec, VaultSpec

(* Sessions, tickets, limits, credential and chunks keep their types       *)
(* together, in every stage of the requests for them.                      *)
THEOREM TypeCorrect == Spec => []TypeOK
<1>1. ASSUME VaultInv PROVE VaultTypeOK
  BY <1>1, ChunksTyped DEF VaultInv, VaultTypeOK
<1>2. IInv /\ LimiterInv /\ PlanInv /\ VaultInv => TypeOK
  BY <1>1 DEF IInv, LimiterInv, PlanInv, TypeOK
<1>. QED
  BY <1>2, PartsRunAlone, Invariance, LimiterInvariance, PlanInvariance, VaultInvariance, PTL
=============================================================================
