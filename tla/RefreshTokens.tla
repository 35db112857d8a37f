---------------------------- MODULE RefreshTokens ----------------------------
(***************************************************************************)
(* Table token_records as the token endpoint uses it: authorization codes, *)
(* refresh tokens and their rotation, reuse detection, revocation, and the *)
(* revocations that AccountsService adds when an account is disabled or    *)
(* its password reset.                                                     *)
(*                                                                         *)
(* A request is a handler of OidcController; each of its database          *)
(* statements is one step, so any number of requests and admin calls       *)
(* interleave between them.  A statement is atomic.  One clock stands for  *)
(* the database's now() and the processes' Date.now().                     *)
(*                                                                         *)
(* A family_id is a random UUID made when the family's first refresh token *)
(* is issued; here a family is named by that token.                        *)
(***************************************************************************)
EXTENDS Accounts

CONSTANTS Client,     \* the OIDC clients
          Token,      \* the refresh tokens that may be issued
          Code,       \* the authorization codes that may be issued
          Request,    \* the requests that may be in progress at once
          CodeTtl,    \* AUTHORIZATION_CODE_TTL_MS
          RefreshTtl, \* refreshTokenTtlSeconds
          Grace,      \* refreshRotationGraceSeconds; 0 turns the window off
          Retention,  \* how long cleanup keeps an expired row (1 hour)
          MaxTime     \* the bound of the clock

ASSUME DurationAssumption ==
  {CodeTtl, RefreshTtl, Grace, Retention, MaxTime} \subseteq Nat
ASSUME NoneAssumption == None \notin Client \cup Token \cup Code
ASSUME DistinctAssumption == Token \cap (Code \cup Request) = {}

VARIABLES token,    \* the refresh_token rows
          code,     \* the authorization_code rows
          request,  \* the local state of each request
          pending,  \* rows that an open update transaction has revoked
          now       \* the clock

tokenVars == <<token, code, request, pending, now>>

(* History, read by the properties and by no guard.                        *)
VARIABLES lineage,   \* what each refresh token was issued for
          doomed,    \* families of the account an open transaction disables
          killed,    \* why a family was revoked as a whole, if it was
          straddled  \* families revoked while a request still held a grant

historyVars == <<lineage, doomed, killed, straddled>>

vars == <<accountVars, tokenVars, historyVars>>

TokenRow == [status    : {"unissued", "active", "used", "revoked", "deleted"},
             family    : Token \cup {None},
             account   : Account \cup {None},
             client    : Client \cup {None},
             usedAt    : Nat,
             expiresAt : Nat]

CodeRow == [status    : {"unissued", "active", "deleted"},
            account   : Account \cup {None},
            client    : Client \cup {None},
            expiresAt : Nat]

Via == {"none", "code", "rotation", "replay"}

Lineage == [origin : Token \cup Code \cup {None}, via : Via, at : Nat]

RequestState ==
  [pc      : {"idle", "createCode", "checkHolder", "consume", "reread",
              "revokeFamily", "findAccount", "issue"},
   client  : Client \cup {None},
   token   : Token \cup {None},           \* the refresh token presented
   account : Account \cup {None},
   family  : Token \cup {None},           \* None: issueTokens makes a new one
   grant   : Lineage]                     \* what was consumed, and when

Cause == {"reuse", "reset", "disable"}

-----------------------------------------------------------------------------
NoGrant == [origin |-> None, via |-> "none", at |-> 0]

NoRequest == [pc |-> "idle", client |-> None, token |-> None,
              account |-> None, family |-> None, grant |-> NoGrant]

NoToken == [status |-> "unissued", family |-> None, account |-> None,
            client |-> None, usedAt |-> 0, expiresAt |-> 0]

NoCode == [status |-> "unissued", account |-> None, client |-> None,
           expiresAt |-> 0]

Stored(t) == token[t].status \in {"active", "used", "revoked"}

(* A row that another transaction has updated and not yet committed:       *)
(* updates of it wait, plain reads still see the old version.              *)
Locked(t) == \E h \in AdminCall : t \in pending[h]

(* A request that has consumed its grant and will insert into family f.    *)
Holds(r, f) ==
  /\ request[r].pc \in {"findAccount", "issue"}
  /\ request[r].family = f

FamilyRows(f) == {t \in Token : token[t].family = f}

AccountFamilies(a) ==
  {f \in Token : \E t \in FamilyRows(f) : token[t].account = a}

Revoke(rows) ==
  token' = [t \in Token |-> IF t \in rows
                            THEN [token[t] EXCEPT !.status = "revoked"]
                            ELSE token[t]]

Straddle(families) ==
  straddled' = straddled \cup
                 {f \in families : \E r \in Request : Holds(r, f)}

Kill(families, cause) ==
  killed' = [f \in Token |-> IF f \in families THEN killed[f] \cup {cause}
                             ELSE killed[f]]

Finish(r) == request' = [request EXCEPT ![r] = NoRequest]

GotoRequest(r, pc) == request' = [request EXCEPT ![r].pc = pc]

-----------------------------------------------------------------------------
(* GET /oauth/authorize and the hosted login end in authorizeWithAccount:  *)
(* the account is read, then the code inserted.  A refusal changes nothing.*)
Authorize(r, a, c) ==
  /\ request[r].pc = "idle"
  /\ account[a].status = "active"
  /\ ~account[a].resetRequired
  /\ request' = [request EXCEPT ![r] = [NoRequest EXCEPT !.pc = "createCode",
                                                         !.account = a,
                                                         !.client = c]]
  /\ UNCHANGED <<token, code, pending, now, historyVars>>

CreateCode(r) ==
  /\ request[r].pc = "createCode"
  /\ \E k \in Code :
       /\ code[k].status = "unissued"
       /\ code' = [code EXCEPT ![k] = [status    |-> "active",
                                       account   |-> request[r].account,
                                       client    |-> request[r].client,
                                       expiresAt |-> now + CodeTtl]]
  /\ Finish(r)
  /\ UNCHANGED <<token, pending, now, historyVars>>

-----------------------------------------------------------------------------
(* grant_type=authorization_code: DELETE ... RETURNING, then the client,   *)
(* redirect URI and PKCE checks on the deleted row.  The last two may fail *)
(* whatever the state.  A code that is missing, consumed or expired        *)
(* deletes nothing and fails.                                              *)
ExchangeCode(r, k, c) ==
  /\ request[r].pc = "idle"
  /\ code[k].status = "active"
  /\ code[k].expiresAt > now
  /\ code' = [code EXCEPT ![k].status = "deleted"]
  /\ \/ UNCHANGED request
     \/ /\ code[k].client = c
        /\ request' =
             [request EXCEPT ![r] =
                [pc |-> "findAccount", client |-> c, token |-> None,
                 account |-> code[k].account, family |-> None,
                 grant |-> [origin |-> k, via |-> "code", at |-> now]]]
  /\ UNCHANGED <<token, pending, now, historyVars>>

(* grant_type=refresh_token, from an authenticated active client c: look   *)
(* up whom the presented token belongs to.  An unknown token has no holder *)
(* to check.                                                               *)
StartRefresh(r, t, c) ==
  /\ request[r].pc = "idle"
  /\ token[t].status # "unissued"
  /\ request' = [request EXCEPT ![r] =
       IF Stored(t)
       THEN [NoRequest EXCEPT !.pc = "checkHolder", !.client = c, !.token = t,
                              !.account = token[t].account]
       ELSE [NoRequest EXCEPT !.pc = "consume", !.client = c, !.token = t]]
  /\ UNCHANGED <<token, code, pending, now, historyVars>>

(* The holder's account must be active, or the request fails with 403.     *)
CheckHolder(r) ==
  /\ request[r].pc = "checkHolder"
  /\ IF account[request[r].account].status = "active"
     THEN GotoRequest(r, "consume")
     ELSE Finish(r)
  /\ UNCHANGED <<token, code, pending, now, historyVars>>

(* Mutant of Accept: the row's client is not compared.                     *)
AcceptAnyClient(r, t, via) ==
  request' = [request EXCEPT
    ![r].pc = "findAccount",
    ![r].account = token[t].account,
    ![r].family = token[t].family,
    ![r].grant = [origin |-> t, via |-> via, at |-> now]]

(* Continue with the grant that token t's row gave, unless the row belongs *)
(* to another client.                                                      *)
Accept(r, t, via) ==
  IF token[t].client = request[r].client
  THEN request' = [request EXCEPT
         ![r].pc = "findAccount",
         ![r].account = token[t].account,
         ![r].family = token[t].family,
         ![r].grant = [origin |-> t, via |-> via, at |-> now]]
  ELSE Finish(r)

(* Mutant of Consumable: the UPDATE does not ask for an active row.        *)
ConsumableUsed(t) ==
  token[t].status \in {"active", "used"} /\ token[t].expiresAt > now

Consumable(t) == token[t].status = "active" /\ token[t].expiresAt > now

(* Mutant of Consume: the UPDATE leaves the row active.                    *)
ConsumeUnmarked(r) ==
  LET t == request[r].token IN
  /\ request[r].pc = "consume"
  /\ Consumable(t)
  /\ ~Locked(t)
  /\ token' = [token EXCEPT ![t].usedAt = now]
  /\ Accept(r, t, "rotation")
  /\ UNCHANGED <<code, pending, now, historyVars>>

(* consumeRefreshToken, first statement: UPDATE ... SET status = 'used'    *)
(* WHERE active and not expired RETURNING.  It waits for a locked row.     *)
Consume(r) ==
  LET t == request[r].token IN
  /\ request[r].pc = "consume"
  /\ Consumable(t)
  /\ ~Locked(t)
  /\ token' = [token EXCEPT ![t].status = "used", ![t].usedAt = now]
  /\ Accept(r, t, "rotation")
  /\ UNCHANGED <<code, pending, now, historyVars>>

ConsumeMisses(r) ==
  /\ request[r].pc = "consume"
  /\ ~Consumable(request[r].token)
  /\ GotoRequest(r, "reread")
  /\ UNCHANGED <<token, code, pending, now, historyVars>>

(* Mutant of WithinRotationGrace: the window closes a moment late.         *)
WithinRotationGraceLate(t) == Grace > 0 /\ now <= token[t].usedAt + Grace + 1

(* isWithinRotationGrace(usedAt).                                          *)
WithinRotationGrace(t) == Grace > 0 /\ now <= token[t].usedAt + Grace

Replayable(t) == token[t].status = "used" /\ WithinRotationGrace(t)

(* consumeRefreshToken, after a miss: read the row.  Missing, expired and  *)
(* active rows fail with 401; a used one within the window is a client's   *)
(* retry; any other is a reuse.  The read sees the old version of a row    *)
(* that an open transaction has revoked (then the family may outlive that  *)
(* revocation, which straddled records).                                   *)
Reread(r) ==
  LET t == request[r].token IN
  /\ request[r].pc = "reread"
  /\ IF ~Stored(t) \/ token[t].expiresAt < now THEN Finish(r)
     ELSE IF Replayable(t) THEN Accept(r, t, "replay")
     ELSE IF token[t].status # "active"
          THEN request' = [request EXCEPT ![r].pc = "revokeFamily",
                                          ![r].family = token[t].family]
     ELSE Finish(r)
  /\ straddled' = IF Locked(t) /\ request'[r].pc = "findAccount"
                  THEN straddled \cup {token[t].family}
                  ELSE straddled
  /\ UNCHANGED <<token, code, pending, now, lineage, doomed, killed>>

(* Reuse detected: UPDATE the whole family, then fail with 401.            *)
RevokeFamily(r) ==
  LET f == request[r].family IN
  /\ request[r].pc = "revokeFamily"
  /\ \A t \in FamilyRows(f) : ~Locked(t)
  /\ Revoke({t \in FamilyRows(f) : Stored(t)})
  /\ Finish(r)
  /\ Kill({f}, "reuse")
  /\ Straddle({f})
  /\ UNCHANGED <<code, pending, now, lineage, doomed>>

(* The consumed grant's account: a pending password reset fails with 403,  *)
(* and so does requirePermission when the account's permission for the     *)
(* service is revoked (that state belongs to another component: either     *)
(* outcome may happen here).                                               *)
FindAccount(r) ==
  /\ request[r].pc = "findAccount"
  /\ \/ /\ ~account[request[r].account].resetRequired
        /\ GotoRequest(r, "issue")
     \/ Finish(r)
  /\ UNCHANGED <<token, code, pending, now, historyVars>>

(* issueTokens: insert the new refresh token, whatever has become of the   *)
(* family since the grant was consumed.                                    *)
IssueTokens(r) ==
  /\ request[r].pc = "issue"
  /\ \E t \in Token :
       /\ token[t].status = "unissued"
       /\ token' = [token EXCEPT ![t] =
            [status    |-> "active",
             family    |-> IF request[r].family = None THEN t
                           ELSE request[r].family,
             account   |-> request[r].account,
             client    |-> request[r].client,
             usedAt    |-> 0,
             expiresAt |-> now + RefreshTtl]]
       /\ lineage' = [lineage EXCEPT ![t] = request[r].grant]
  /\ Finish(r)
  /\ UNCHANGED <<code, pending, now, doomed, killed, straddled>>

(* The process dies between two steps of a request.                        *)
RequestCrash(r) ==
  /\ request[r].pc # "idle"
  /\ Finish(r)
  /\ UNCHANGED <<token, code, pending, now, historyVars>>

-----------------------------------------------------------------------------
(* POST /oauth/revoke: one row, whatever its status.                       *)
RevokeRefreshToken(t) ==
  /\ Stored(t)
  /\ ~Locked(t)
  /\ Revoke({t})
  /\ UNCHANGED <<code, request, pending, now, historyVars>>

Prunable(row) == row.status # "unissued" /\ row.expiresAt + Retention < now

(* cleanupExpiredTokens, at a process's start and, throttled and not       *)
(* awaited, during refresh.                                                *)
CleanupExpiredTokens ==
  /\ \A t \in Token : Prunable(token[t]) => ~Locked(t)
  /\ token' = [t \in Token |-> IF Prunable(token[t])
                               THEN [token[t] EXCEPT !.status = "deleted"]
                               ELSE token[t]]
  /\ code' = [k \in Code |-> IF Prunable(code[k])
                             THEN [code[k] EXCEPT !.status = "deleted"]
                             ELSE code[k]]
  /\ UNCHANGED <<request, pending, now, historyVars>>

(* Time passes.                                                            *)
Tick ==
  /\ now < MaxTime
  /\ now' = now + 1
  /\ UNCHANGED <<token, code, request, pending, historyVars>>

-----------------------------------------------------------------------------
(* Mutant of RevocableRows: tokens already rotated are left alone.         *)
RevocableRowsActive(a) ==
  {t \in Token : token[t].account = a /\ token[t].status = "active"}

(* The account's active and used tokens, which revokeAccountRefreshTokens  *)
(* updates.                                                                *)
RevocableRows(a) ==
  {t \in Token : token[t].account = a /\ token[t].status \in {"active", "used"}}

(* In resetPassword the UPDATE commits at once.                            *)
ResetRevokes(h) ==
  LET a == call[h].id IN
  /\ call[h].op = "reset"
  /\ RevokeAccountRefreshTokens(h)
  /\ \A t \in RevocableRows(a) : ~Locked(t)
  /\ Revoke(RevocableRows(a))
  /\ Kill(AccountFamilies(a), "reset")
  /\ Straddle(AccountFamilies(a))
  /\ UNCHANGED <<code, request, pending, now, lineage, doomed>>

(* In update's transaction the rows stay locked until it ends.             *)
DisableRevokes(h) ==
  LET a == call[h].id IN
  /\ call[h].op = "update"
  /\ RevokeAccountRefreshTokens(h)
  /\ \A t \in RevocableRows(a) : ~Locked(t)
  /\ pending' = [pending EXCEPT ![h] = RevocableRows(a)]
  /\ doomed' = [doomed EXCEPT ![h] = AccountFamilies(a)]
  /\ Straddle(AccountFamilies(a))
  /\ UNCHANGED <<token, code, request, now, lineage, killed>>

UpdateCommits(h) ==
  /\ UpdateCommit(h)
  /\ Revoke(pending[h])
  /\ pending' = [pending EXCEPT ![h] = {}]
  /\ Kill(doomed[h], "disable")
  /\ doomed' = [doomed EXCEPT ![h] = {}]
  /\ UNCHANGED <<code, request, now, lineage, straddled>>

CallCrashes(h) ==
  /\ CallCrash(h)
  /\ pending' = [pending EXCEPT ![h] = {}]
  /\ doomed' = [doomed EXCEPT ![h] = {}]
  /\ UNCHANGED <<token, code, request, now, lineage, killed, straddled>>

-----------------------------------------------------------------------------
Init ==
  /\ AccountInit
  /\ token = [t \in Token |-> NoToken]
  /\ code = [k \in Code |-> NoCode]
  /\ request = [r \in Request |-> NoRequest]
  /\ pending = [h \in AdminCall |-> {}]
  /\ now = 0
  /\ lineage = [t \in Token |-> NoGrant]
  /\ doomed = [h \in AdminCall |-> {}]
  /\ killed = [f \in Token |-> {}]
  /\ straddled = {}

RequestStep(r) ==
  \/ \E a \in Account, c \in Client : Authorize(r, a, c)
  \/ CreateCode(r)
  \/ \E k \in Code, c \in Client : ExchangeCode(r, k, c)
  \/ \E t \in Token, c \in Client : StartRefresh(r, t, c)
  \/ CheckHolder(r)
  \/ Consume(r)
  \/ ConsumeMisses(r)
  \/ Reread(r)
  \/ RevokeFamily(r)
  \/ FindAccount(r)
  \/ IssueTokens(r)
  \/ RequestCrash(r)

StoreStep ==
  \/ \E t \in Token : RevokeRefreshToken(t)
  \/ CleanupExpiredTokens
  \/ Tick

AdminStep(h) ==
  \/ AccountStep(h) /\ UNCHANGED <<tokenVars, historyVars>>
  \/ ResetRevokes(h)
  \/ DisableRevokes(h)
  \/ UpdateCommits(h)
  \/ CallCrashes(h)

Next ==
  \/ \E r \in Request : RequestStep(r) /\ UNCHANGED accountVars
  \/ StoreStep /\ UNCHANGED accountVars
  \/ \E h \in AdminCall : AdminStep(h)

Spec == Init /\ [][Next]_vars

-----------------------------------------------------------------------------
(* Type invariant.                                                         *)
TypeOK ==
  /\ AccountTypeOK
  /\ token \in [Token -> TokenRow]
  /\ code \in [Code -> CodeRow]
  /\ request \in [Request -> RequestState]
  /\ pending \in [AdminCall -> SUBSET Token]
  /\ now \in Nat
  /\ lineage \in [Token -> Lineage]
  /\ doomed \in [AdminCall -> SUBSET Token]
  /\ killed \in [Token -> SUBSET Cause]
  /\ straddled \subseteq Token

Issued(t) == token[t].status # "unissued"

InFlight(r) == request[r].pc \in {"findAccount", "issue"}

(* Every grant that has been honoured or may still be: that of each issued *)
(* token and that of each request between consumption and issueTokens.     *)
GrantOf(x) == IF x \in Token THEN lineage[x] ELSE request[x].grant

Heirs(o) == {t \in Token : Issued(t) /\ lineage[t].origin = o}
              \cup {r \in Request : InFlight(r) /\ request[r].grant.origin = o}

(* A family belongs to one account and one client: every token of it, and  *)
(* every request about to add one, carries the same two.  Rotation copies  *)
(* them from the presented row through three reads and two checks.         *)
FamilyHomogeneous ==
  /\ \A t, u \in Token :
       Issued(t) /\ Issued(u) /\ token[t].family = token[u].family
         => token[t].account = token[u].account
            /\ token[t].client = token[u].client
  /\ \A r \in Request, t \in Token :
       InFlight(r) /\ Issued(t) /\ request[r].family = token[t].family
         => request[r].account = token[t].account
            /\ request[r].client = token[t].client

(* A refresh token is rotated, and a code redeemed, at most once however   *)
(* many requests present it at the same moment: beyond that one heir it    *)
(* has only the retries the grace window admits.                           *)
SingleUse ==
  \A o \in Token \cup Code : \A x, y \in Heirs(o) :
    GrantOf(x).via # "replay" /\ GrantOf(y).via # "replay" => x = y

(* The grace window opens at the first use and does not move: any two      *)
(* honoured presentations of one token lie within Grace of each other, so  *)
(* a chain of retries cannot keep a spent token usable.                    *)
ReplayWindow ==
  \A o \in Token : \A x, y \in Heirs(o) :
    GrantOf(x).at <= GrantOf(y).at + Grace

(* A family forks only by retries: its usable tokens and the requests      *)
(* about to add one number at most one more than the retries it honoured.  *)
ForkOnlyByReplay ==
  \A f \in Token :
    LET Live == {t \in FamilyRows(f) : token[t].status = "active"}
                  \cup {r \in Request : Holds(r, f)}
        Replays == {t \in FamilyRows(f) : lineage[t].via = "replay"}
                  \cup {r \in Request :
                          Holds(r, f) /\ request[r].grant.via = "replay"}
    IN Cardinality(Live) <= 1 + Cardinality(Replays)

(* Reuse detection, a password reset and disabling an account revoke whole *)
(* families.  A token of a revoked family is usable again only if, at that *)
(* revocation, a request stood between consuming its grant and inserting   *)
(* the successor; otherwise the family is dead for good, and no request    *)
(* can come to hold it.                                                    *)
OnlyStraddlersSurvive ==
  \A f \in Token : killed[f] # {} /\ f \notin straddled =>
    /\ \A t \in FamilyRows(f) : token[t].status \in {"revoked", "deleted"}
    /\ \A r \in Request : ~Holds(r, f)

-----------------------------------------------------------------------------
(* What the documentation says of the two revocations, without the         *)
(* exemption above.  docs/auth-flows.md: "Reusing an already used refresh  *)
(* token revokes the family and fails the request".                        *)
ReuseRevokesFamily ==
  \A t \in Token : token[t].status = "active"
    => "reuse" \notin killed[token[t].family]
=============================================================================
