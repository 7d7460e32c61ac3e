---------------------------- MODULE ChatGPTPlan ----------------------------
(***************************************************************************)
(* The OAuth credential of one user's ChatGPT plan: one row, the command   *)
(* line client that obtains it, and the calls that use, renew and remove   *)
(* it.  The provider hands out a grant per authorization, may replace its  *)
(* refresh token each time it is used, and may end the grant at any time;  *)
(* an old token, and any token of a grant that ended, is refused.          *)
(*                                                                         *)
(* Left out: ciphers and signatures, the installation's host id, which     *)
(* never changes, the catalogue of models, and the session of the command  *)
(* line client.                                                            *)
(***************************************************************************)
EXTENDS Integers, FiniteSets

CONSTANTS
  Grants,          \* authorizations by the command line client
  PlanCalls,       \* access_token and disconnect
  Accounts,        \* accounts at the provider
  MaxRotation      \* bound: tokens of one grant

ASSUME PlanAssumption ==
  /\ MaxRotation \in Nat \ {0}
  /\ Grants \intersect PlanCalls = {}
  /\ "nobody" \notin Grants \union PlanCalls /\ "none" \notin Grants

VARIABLES
  row,             \* the stored credential, committed
  holder,          \* whose transaction holds the row's lock, or "nobody"
  saving,          \* each authorization: where it is
  client,          \* the client id it runs under
  grant,           \* the provider: account, newest token (0: none) and life
  using,           \* each call: where it is
  token,           \* the refresh token it read
  renewals,        \* history: tokens replaced at the provider and not stored
  ended,           \* history: grants the provider, or the account's owner there, ended
  removed,         \* history: grants whose row a refused refresh deleted
  switched         \* history: a save that compared a row replaced another account's

saveVars == <<saving, client>>
callVars == <<using, token>>
seenVars == <<renewals, ended, removed, switched>>
planVars == <<row, holder, saveVars, grant, callVars, seenVars>>

Unheld  == "nobody"
NoRow   == [grant |-> "none", newest |-> 0, client |-> "none", fresh |-> FALSE]
NoToken == [grant |-> "none", newest |-> 0]

PlanInit ==
  /\ row = NoRow /\ holder = Unheld
  /\ saving = [g \in Grants |-> "idle"]
  /\ client = [g \in Grants |-> "none"]
  /\ grant = [g \in Grants |-> [account |-> "none", newest |-> 0, alive |-> FALSE]]
  /\ using = [c \in PlanCalls |-> "idle"]
  /\ token = [c \in PlanCalls |-> NoToken]
  /\ renewals = {} /\ ended = {} /\ removed = {} /\ switched = FALSE

-----------------------------------------------------------------------------
(* The command line: status gives the client id to authorize again, or     *)
(* the provider registers a new one.                                       *)
Connect(g) ==
  /\ saving[g] = "idle"
  /\ saving' = [saving EXCEPT ![g] = "asked"]
  /\ client' = [client EXCEPT ![g] = IF row = NoRow THEN g ELSE row.client]
  /\ UNCHANGED <<row, holder, grant, callVars, seenVars>>

(* The user consents in the browser, with any account, and the code is     *)
(* exchanged.                                                              *)
Consent(g, a) ==
  /\ saving[g] = "asked"
  /\ saving' = [saving EXCEPT ![g] = "consented"]
  /\ grant' = [grant EXCEPT ![g] = [account |-> a, newest |-> 1, alive |-> TRUE]]
  /\ UNCHANGED <<row, holder, client, callVars, seenVars>>

(* Declined, expired, or not the answer to this request.                   *)
ConsentFails(g) ==
  /\ saving[g] = "asked"
  /\ saving' = [saving EXCEPT ![g] = "failed"]
  /\ UNCHANGED <<row, holder, client, grant, callVars, seenVars>>

(* The identity token does not pass: the grant stays unused.               *)
IdentityRefused(g) ==
  /\ saving[g] = "consented"
  /\ saving' = [saving EXCEPT ![g] = "refused"]
  /\ UNCHANGED <<row, holder, client, grant, callVars, seenVars>>

Account(r) == grant[r.grant].account

Matches(g) == row.client = client[g] /\ Account(row) = grant[g].account

(* save_credentials: the row, if there is one, is locked and compared.     *)
SaveBegins(g) ==
  /\ saving[g] = "consented"
  /\ \/ /\ row = NoRow
        /\ saving' = [saving EXCEPT ![g] = "first"]
        /\ UNCHANGED holder
     \/ /\ row # NoRow /\ holder = Unheld
        /\ saving' = [saving EXCEPT ![g] = IF Matches(g) THEN "checked" ELSE "refused"]
        /\ holder' = IF Matches(g) THEN g ELSE Unheld
  /\ UNCHANGED <<row, client, grant, callVars, seenVars>>

(* The insertion, or the update of what is there by now, and the commit.   *)
SaveWrites(g) ==
  /\ \/ saving[g] = "first" /\ holder = Unheld
     \/ saving[g] = "checked" /\ holder = g
  /\ row' = [grant |-> g, newest |-> 1, client |-> client[g], fresh |-> TRUE]
  /\ holder' = Unheld
  /\ saving' = [saving EXCEPT ![g] = "saved"]
  /\ switched' = (switched \/ (saving[g] = "checked" /\ Account(row) # grant[g].account))
  /\ UNCHANGED <<client, grant, callVars, renewals, ended, removed>>

(* The transaction fails; the grant stays at the provider, unused.         *)
SaveFails(g) ==
  /\ saving[g] \in {"first", "checked"}
  /\ saving' = [saving EXCEPT ![g] = "failed"]
  /\ holder' = IF holder = g THEN Unheld ELSE holder
  /\ UNCHANGED <<row, client, grant, callVars, seenVars>>

-----------------------------------------------------------------------------
(* Time: less than two minutes are left of the access token.               *)
TokenAges ==
  /\ row.fresh
  /\ row' = [row EXCEPT !.fresh = FALSE]
  /\ UNCHANGED <<holder, saveVars, grant, callVars, seenVars>>

\* Mutant: the row is read without FOR UPDATE.
Unlocked(c) == UNCHANGED holder

Locked(c) == holder = Unheld /\ holder' = c

LockRow(c) == Locked(c)

(* access_token: the stored token will do, or there is none ...            *)
UseToken(c) ==
  /\ using[c] = "idle"
  /\ row = NoRow \/ (row.fresh /\ holder = Unheld)
  /\ using' = [using EXCEPT ![c] = "done"]
  /\ UNCHANGED <<row, holder, saveVars, grant, token, seenVars>>

(* ... or it is renewed while the row is locked.                           *)
BeginRefresh(c) ==
  /\ using[c] = "idle" /\ row # NoRow /\ ~row.fresh
  /\ LockRow(c)
  /\ using' = [using EXCEPT ![c] = "refreshing"]
  /\ token' = [token EXCEPT ![c] = [grant |-> row.grant, newest |-> row.newest]]
  /\ UNCHANGED <<row, saveVars, grant, seenVars>>

(* The provider ends a grant, expired or revoked there, stored or not, at  *)
(* any point of a call: the refresh that follows is answered               *)
(* invalid_grant.                                                          *)
ProviderEnds(g) ==
  /\ grant[g].alive
  /\ grant' = [grant EXCEPT ![g].alive = FALSE]
  /\ ended' = ended \union {g}
  /\ UNCHANGED <<row, holder, saveVars, callVars, renewals, removed, switched>>

Accepted(c) == grant[token[c].grant].alive /\ grant[token[c].grant].newest = token[c].newest

EndCall(c) ==
  /\ using' = [using EXCEPT ![c] = "done"]
  /\ holder' = IF holder = c THEN Unheld ELSE holder

(* The provider accepts, with the same refresh token or another, and the   *)
(* answer is stored.                                                       *)
Refresh(c, newest) ==
  /\ using[c] = "refreshing" /\ Accepted(c)
  /\ newest \in token[c].newest .. MaxRotation
  /\ newest <= token[c].newest + 1
  /\ grant' = [grant EXCEPT ![token[c].grant].newest = newest]
  /\ row' = IF row = NoRow THEN row ELSE [row EXCEPT !.newest = newest, !.fresh = TRUE]
  /\ EndCall(c)
  /\ UNCHANGED <<saveVars, token, seenVars>>

(* The provider accepts and the answer is lost, is incomplete, or is not   *)
(* committed: the new token with it.                                       *)
RefreshLost(c) ==
  /\ using[c] = "refreshing" /\ Accepted(c)
  /\ token[c].newest < MaxRotation
  /\ grant' = [grant EXCEPT ![token[c].grant].newest = @ + 1]
  /\ renewals' = renewals \union {token[c].grant}
  /\ EndCall(c)
  /\ UNCHANGED <<row, saveVars, token, ended, removed, switched>>

(* The provider is not reached, or answers with another error.             *)
RefreshFails(c) ==
  /\ using[c] = "refreshing"
  /\ EndCall(c)
  /\ UNCHANGED <<row, saveVars, grant, token, seenVars>>

(* invalid_grant, for a token replaced or a grant that ended: the          *)
(* connection is over and the row goes.                                    *)
RefreshRefused(c) ==
  /\ using[c] = "refreshing" /\ ~Accepted(c)
  /\ row' = NoRow
  /\ removed' = removed \union {token[c].grant}
  /\ EndCall(c)
  /\ UNCHANGED <<saveVars, grant, token, renewals, ended, switched>>

(* The answer no longer covers the use of the plan: the row goes too.      *)
ScopeWithdrawn(c) ==
  /\ using[c] = "refreshing" /\ Accepted(c)
  /\ row' = NoRow
  /\ EndCall(c)
  /\ UNCHANGED <<saveVars, grant, token, seenVars>>

(* disconnect: the row is deleted; then the provider is told, if it can    *)
(* be reached.                                                             *)
Disconnect(c) ==
  /\ using[c] = "idle" /\ holder = Unheld
  /\ using' = [using EXCEPT ![c] = IF row = NoRow THEN "done" ELSE "revoking"]
  /\ token' = [token EXCEPT ![c] = [grant |-> row.grant, newest |-> row.newest]]
  /\ row' = NoRow
  /\ UNCHANGED <<holder, saveVars, grant, seenVars>>

RevokeGrant(c) ==
  /\ using[c] = "revoking"
  /\ \E told \in BOOLEAN :
       grant' = IF told /\ Accepted(c) THEN [grant EXCEPT ![token[c].grant].alive = FALSE]
                                      ELSE grant
  /\ using' = [using EXCEPT ![c] = "done"]
  /\ UNCHANGED <<row, holder, saveVars, token, seenVars>>

PlanNext ==
  \/ \E g \in Grants :
       \/ Connect(g) \/ SaveBegins(g) \/ SaveWrites(g) \/ SaveFails(g)
       \/ ConsentFails(g) \/ IdentityRefused(g) \/ ProviderEnds(g)
       \/ \E a \in Accounts : Consent(g, a)
  \/ \E c \in PlanCalls :
       \/ UseToken(c) \/ BeginRefresh(c) \/ RefreshLost(c) \/ RefreshFails(c)
       \/ RefreshRefused(c) \/ ScopeWithdrawn(c) \/ Disconnect(c) \/ RevokeGrant(c)
       \/ \E n \in 1 .. MaxRotation : Refresh(c, n)
  \/ TokenAges

PlanSpec == PlanInit /\ [][PlanNext]_planVars

-----------------------------------------------------------------------------
PlanTypeOK ==
  /\ row \in [grant : Grants \union {"none"}, newest : 0 .. MaxRotation,
              client : Grants \union {"none"}, fresh : BOOLEAN]
  /\ holder \in Grants \union PlanCalls \union {Unheld}
  /\ saving \in [Grants -> {"idle", "asked", "consented", "first", "checked", "saved",
                            "refused", "failed"}]
  /\ client \in [Grants -> Grants \union {"none"}]
  /\ grant \in [Grants -> [account : Accounts \union {"none"}, newest : 0 .. MaxRotation,
                           alive : BOOLEAN]]
  /\ using \in [PlanCalls -> {"idle", "refreshing", "revoking", "done"}]
  /\ token \in [PlanCalls -> [grant : Grants \union {"none"}, newest : 0 .. MaxRotation]]
  /\ renewals \subseteq Grants /\ ended \subseteq Grants /\ removed \subseteq Grants

(* The stored refresh token is the one the provider takes, unless a new    *)
(* one was lost on its way or the provider ended the grant: no step of     *)
(* this program, neither a call that renews beside another, nor a save,    *)
(* nor a revocation of the credential before it, makes it worthless.       *)
TokenIsNewest ==
  row # NoRow /\ row.grant \notin renewals \union ended =>
    grant[row.grant].alive /\ grant[row.grant].newest = row.newest

(* A refresh ends a connection only if its token was lost or the provider  *)
(* had ended the grant: never because another call had used the token.     *)
OneRefreshAtATime == removed \subseteq renewals \union ended

\* A save that finds a row leaves the connection with its account.
AccountIsKept == ~switched

(* For the proofs.  Who compares or renews holds the row's lock, and the   *)
(* row is still what it read.                                              *)
LockHeld ==
  /\ \A g \in Grants : saving[g] = "checked" =>
       holder = g /\ row # NoRow /\ Account(row) = grant[g].account
  /\ \A c \in PlanCalls : using[c] = "refreshing" =>
       /\ holder = c /\ row # NoRow
       /\ token[c] = [grant |-> row.grant, newest |-> row.newest]

\* A grant that is not stored yet is as the provider gave it, unless it ended.
Unused ==
  \A g \in Grants : saving[g] \in {"consented", "first", "checked"} =>
    (grant[g].alive \/ g \in ended) /\ grant[g].newest = 1

\* What is stored was saved; what is being revoked was, and is not stored.
Stored ==
  /\ row # NoRow => row.grant \in Grants /\ saving[row.grant] = "saved"
  /\ \A c \in PlanCalls : using[c] = "revoking" =>
       /\ token[c].grant \in Grants /\ saving[token[c].grant] = "saved"
       /\ row.grant # token[c].grant

(* What this program does never makes a stored credential worthless: it is *)
(* usable for as long as it is stored but for an answer lost and a grant   *)
(* the provider ended, calls that renew it do not undo one another, and it *)
(* stays with its account (access_token, save_credentials, disconnect).    *)
CredentialSound == TokenIsNewest /\ OneRefreshAtATime /\ AccountIsKept

PlanInv == PlanTypeOK /\ LockHeld /\ Unused /\ Stored /\ CredentialSound
=============================================================================
