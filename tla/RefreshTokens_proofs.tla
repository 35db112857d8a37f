------------------------ MODULE RefreshTokens_proofs ------------------------
(***************************************************************************)
(* Type correctness of module RefreshTokens, and that it implements module *)
(* Accounts: requests, the clock and the token statements never touch an   *)
(* account, and the joint steps are steps of an AccountsService handler.   *)
(* Then the two halves of token safety.  Rotation: a grant is used once    *)
(* but within the grace window, families are homogeneous, and a family     *)
(* forks only by a replay.  Revocation: of what a handler revokes, only a  *)
(* rotation in flight survives.                                            *)
(***************************************************************************)
EXTENDS RefreshTokens, Accounts_proofs, FiniteSetTheorems

-----------------------------------------------------------------------------
(* What the locals of a request hold at each of its steps.  None stands in *)
(* RequestState for a local that is not set yet; where a step reads one,   *)
(* it is set.                                                              *)
CompleteRequest(q) ==
  /\ q.pc \in {"checkHolder", "consume", "reread"} => q.token \in Token
  /\ q.pc \in {"createCode", "checkHolder", "findAccount", "issue"}
       => q.account \in Account
  /\ q.pc \in {"createCode", "consume", "checkHolder", "reread",
               "findAccount", "issue"} => q.client \in Client
  /\ q.pc = "revokeFamily" => q.family \in Token

(* A stored row was inserted with all its columns, and keeps them.         *)
CompleteToken(row) ==
  row.status # "unissued" => /\ row.family \in Token
                             /\ row.account \in Account
                             /\ row.client \in Client

CompleteCode(row) ==
  row.status # "unissued" => /\ row.account \in Account
                             /\ row.client \in Client

Tokens == token \in [Token -> TokenRow] /\ \A t \in Token : CompleteToken(token[t])

Codes == code \in [Code -> CodeRow] /\ \A k \in Code : CompleteCode(code[k])

Requests ==
  /\ request \in [Request -> RequestState]
  /\ \A r \in Request : CompleteRequest(request[r])

Pending ==
  /\ pending \in [AdminCall -> SUBSET Token]
  /\ \A h \in AdminCall : \A t \in pending[h] : Issued(t)

Clock == now \in Nat

History ==
  /\ lineage \in [Token -> Lineage]
  /\ doomed \in [AdminCall -> SUBSET Token]
  /\ killed \in [Token -> SUBSET Cause]
  /\ straddled \subseteq Token

(* The inductive strengthening of TypeOK.                                  *)
TypeInv ==
  AccountIInv /\ Tokens /\ Codes /\ Requests /\ Pending /\ Clock /\ History

LEMMA TypeInvImplies == TypeInv => TypeOK
BY DEF TypeInv, TypeOK, AccountIInv, Tokens, Codes, Requests, Pending, Clock,
       History

-----------------------------------------------------------------------------
(* Facts about single rows and locals.                                     *)
LEMMA NoRequestType == NoRequest \in RequestState /\ CompleteRequest(NoRequest)
BY DEF NoRequest, RequestState, CompleteRequest, NoGrant, Lineage, Via

LEMMA RequestType ==
  ASSUME TypeInv, NEW r \in Request
  PROVE  /\ request[r] \in RequestState
         /\ CompleteRequest(request[r])
         /\ request[r].client \in Client \cup {None}
         /\ request[r].token \in Token \cup {None}
         /\ request[r].account \in Account \cup {None}
         /\ request[r].family \in Token \cup {None}
         /\ request[r].grant \in Lineage
BY DEF TypeInv, Requests, RequestState

LEMMA TokenType ==
  ASSUME TypeInv, NEW t \in Token
  PROVE  /\ token[t] \in TokenRow
         /\ CompleteToken(token[t])
         /\ token[t].status \in {"unissued", "active", "used", "revoked",
                                 "deleted"}
         /\ token[t].family \in Token \cup {None}
         /\ token[t].account \in Account \cup {None}
         /\ token[t].client \in Client \cup {None}
         /\ token[t].usedAt \in Nat
         /\ token[t].expiresAt \in Nat
BY DEF TypeInv, Tokens, TokenRow

LEMMA CodeType ==
  ASSUME TypeInv, NEW k \in Code
  PROVE  /\ code[k] \in CodeRow
         /\ CompleteCode(code[k])
         /\ code[k].account \in Account \cup {None}
         /\ code[k].client \in Client \cup {None}
         /\ code[k].expiresAt \in Nat
BY DEF TypeInv, Codes, CodeRow

(* Updating one request, row, or all rows of a kind.                       *)
LEMMA SetRequest ==
  ASSUME TypeInv, NEW r \in Request, NEW q \in RequestState,
         CompleteRequest(q), request' = [request EXCEPT ![r] = q]
  PROVE  Requests'
BY DEF TypeInv, Requests

LEMMA FinishKeeps ==
  ASSUME TypeInv, NEW r \in Request, Finish(r)
  PROVE  Requests'
BY NoRequestType, SetRequest DEF Finish

LEMMA SetPc ==
  ASSUME TypeInv, NEW r \in Request,
         NEW pc \in {"consume", "reread", "issue"},
         \/ request[r].pc = "checkHolder" /\ pc = "consume"
         \/ request[r].pc = "consume" /\ pc = "reread"
         \/ request[r].pc = "findAccount" /\ pc = "issue",
         GotoRequest(r, pc)
  PROVE  Requests'
<1> DEFINE q == [request[r] EXCEPT !.pc = pc]
<1>1. q \in RequestState
  BY RequestType DEF RequestState
<1>2. CompleteRequest(q)
  BY RequestType DEF CompleteRequest, RequestState
<1>3. request' = [request EXCEPT ![r] = q]
  BY DEF GotoRequest
<1> HIDE DEF q
<1> QED
  BY <1>1, <1>2, <1>3, SetRequest

LEMMA RevokeKeeps ==
  ASSUME TypeInv, NEW rows \in SUBSET Token,
         \A t \in rows : Issued(t), Revoke(rows)
  PROVE  Tokens' /\ \A t \in Token : Issued(t)' <=> Issued(t)
<1>1. ASSUME NEW t \in rows
      PROVE  /\ [token[t] EXCEPT !.status = "revoked"] \in TokenRow
             /\ CompleteToken([token[t] EXCEPT !.status = "revoked"])
  BY TokenType DEF TokenRow, CompleteToken, Issued
<1> QED
  BY <1>1, TokenType DEF Revoke, Tokens, TokenRow, Issued

LEMMA KillKeeps ==
  ASSUME TypeInv, NEW families \in SUBSET Token, NEW cause \in Cause,
         Kill(families, cause)
  PROVE  killed' \in [Token -> SUBSET Cause]
BY DEF TypeInv, History, Kill

LEMMA StraddleKeeps ==
  ASSUME TypeInv, NEW families \in SUBSET Token, Straddle(families)
  PROVE  straddled' \subseteq Token
BY DEF TypeInv, History, Straddle

LEMMA AcceptKeeps ==
  ASSUME TypeInv, NEW r \in Request, NEW t \in Token,
         token[t].status # "unissued", request[r].pc \in {"consume", "reread"},
         NEW via \in Via, Accept(r, t, via)
  PROVE  Requests'
<1> DEFINE g == [origin |-> t, via |-> via, at |-> now]
           q == [request[r] EXCEPT !.pc = "findAccount",
                                   !.account = token[t].account,
                                   !.family = token[t].family,
                                   !.grant = g]
<1>1. g \in Lineage
  BY DEF TypeInv, Clock, Lineage
<1>2. /\ token[t].account \in Account
      /\ token[t].family \in Token
      /\ request[r].client \in Client
  BY TokenType, RequestType DEF CompleteToken, CompleteRequest
<1> HIDE DEF g
<1>3. q \in RequestState
  BY <1>1, <1>2, RequestType DEF RequestState
<1>4. CompleteRequest(q)
  BY <1>2, RequestType DEF CompleteRequest, RequestState
<1>5. CASE token[t].client = request[r].client
  <2>1. request' = [request EXCEPT ![r] = q]
    BY <1>5 DEF Accept, g
  <2> HIDE DEF q
  <2> QED
    BY <1>3, <1>4, <2>1, SetRequest
<1>6. CASE token[t].client # request[r].client
  BY <1>6, FinishKeeps DEF Accept
<1> QED
  BY <1>5, <1>6

-----------------------------------------------------------------------------
(* The initial state.                                                      *)
LEMMA TypeInvInit == Init => TypeInv
<1> SUFFICES ASSUME Init PROVE TypeInv
  OBVIOUS
<1>1. AccountIInv
  BY AccountInitial DEF Init
<1>2. Tokens
  BY DEF Init, Tokens, NoToken, TokenRow, CompleteToken
<1>3. Codes
  BY DEF Init, Codes, NoCode, CodeRow, CompleteCode
<1>4. Requests
  BY NoRequestType DEF Init, Requests
<1>5. Pending /\ Clock /\ History
  BY DEF Init, Pending, Clock, History, NoGrant, Lineage, Via
<1> QED
  BY <1>1, <1>2, <1>3, <1>4, <1>5 DEF TypeInv

-----------------------------------------------------------------------------
(* The steps of a request.                                                 *)
LEMMA OthersKeep ==
  ASSUME TypeInv
  PROVE  /\ UNCHANGED accountVars => AccountIInv'
         /\ UNCHANGED token => Tokens'
         /\ UNCHANGED code => Codes'
         /\ UNCHANGED request => Requests'
         /\ UNCHANGED <<token, pending>> => Pending'
         /\ UNCHANGED now => Clock'
         /\ UNCHANGED historyVars => History'
<1>1. UNCHANGED accountVars => AccountIInv'
  BY AccountNextKeeps DEF TypeInv
<1>2. UNCHANGED token => Tokens'
  BY DEF TypeInv, Tokens
<1>3. UNCHANGED code => Codes'
  BY DEF TypeInv, Codes
<1>4. UNCHANGED request => Requests'
  BY DEF TypeInv, Requests
<1>5. UNCHANGED <<token, pending>> => Pending'
  BY DEF TypeInv, Pending, Issued
<1>6. UNCHANGED now => Clock'
  BY DEF TypeInv, Clock
<1>7. UNCHANGED historyVars => History'
  BY DEF TypeInv, History, historyVars
<1> QED
  BY <1>1, <1>2, <1>3, <1>4, <1>5, <1>6, <1>7

LEMMA AuthorizeType ==
  ASSUME TypeInv, NEW r \in Request, NEW a \in Account, NEW c \in Client,
         Authorize(r, a, c), UNCHANGED accountVars
  PROVE  TypeInv'
<1> DEFINE q == [NoRequest EXCEPT !.pc = "createCode", !.account = a,
                                  !.client = c]
<1>1. q \in RequestState /\ CompleteRequest(q)
  BY NoRequestType DEF NoRequest, RequestState, CompleteRequest, NoGrant,
                       Lineage, Via
<1>2. Requests'
  <2>1. request' = [request EXCEPT ![r] = q]
    BY DEF Authorize
  <2> HIDE DEF q
  <2> QED
    BY <1>1, <2>1, SetRequest
<1> QED
  BY <1>2, OthersKeep DEF Authorize, TypeInv

LEMMA CreateCodeType ==
  ASSUME TypeInv, NEW r \in Request, CreateCode(r), UNCHANGED accountVars
  PROVE  TypeInv'
<1> DEFINE row == [status    |-> "active",
                   account   |-> request[r].account,
                   client    |-> request[r].client,
                   expiresAt |-> now + CodeTtl]
<1>1. row \in CodeRow /\ CompleteCode(row)
  BY RequestType, DurationAssumption
     DEF CreateCode, CompleteRequest, CodeRow, CompleteCode, TypeInv, Clock
<1>2. PICK k \in Code : code' = [code EXCEPT ![k] = row]
  BY DEF CreateCode
<1> HIDE DEF row
<1>3. Codes'
  BY <1>1, <1>2 DEF TypeInv, Codes
<1>4. Requests'
  BY FinishKeeps DEF CreateCode
<1> QED
  BY <1>3, <1>4, OthersKeep DEF CreateCode, TypeInv

LEMMA ExchangeCodeType ==
  ASSUME TypeInv, NEW r \in Request, NEW k \in Code, NEW c \in Client,
         ExchangeCode(r, k, c), UNCHANGED accountVars
  PROVE  TypeInv'
<1> DEFINE g == [origin |-> k, via |-> "code", at |-> now]
           q == [pc |-> "findAccount", client |-> c, token |-> None,
                 account |-> code[k].account, family |-> None, grant |-> g]
<1>1. code[k].account \in Account
  BY CodeType DEF ExchangeCode, CompleteCode
<1>2. q \in RequestState /\ CompleteRequest(q)
  BY <1>1 DEF RequestState, CompleteRequest, Lineage, Via, TypeInv, Clock
<1>3. Requests'
  <2>1. request' = request \/ request' = [request EXCEPT ![r] = q]
    BY DEF ExchangeCode
  <2> HIDE DEF q
  <2> QED
    BY <1>2, <2>1, SetRequest, OthersKeep
<1>4. Codes'
  <2>1. /\ [code[k] EXCEPT !.status = "deleted"] \in CodeRow
        /\ CompleteCode([code[k] EXCEPT !.status = "deleted"])
    BY CodeType DEF ExchangeCode, CodeRow, CompleteCode
  <2>2. code' = [code EXCEPT ![k] = [code[k] EXCEPT !.status = "deleted"]]
    BY DEF ExchangeCode
  <2> QED
    BY <2>1, <2>2 DEF TypeInv, Codes
<1> QED
  BY <1>3, <1>4, OthersKeep DEF ExchangeCode, TypeInv

LEMMA StartRefreshType ==
  ASSUME TypeInv, NEW r \in Request, NEW t \in Token, NEW c \in Client,
         StartRefresh(r, t, c), UNCHANGED accountVars
  PROVE  TypeInv'
<1> DEFINE q == [NoRequest EXCEPT !.pc = "checkHolder", !.client = c,
                                  !.token = t, !.account = token[t].account]
           p == [NoRequest EXCEPT !.pc = "consume", !.client = c, !.token = t]
<1>1. p \in RequestState /\ CompleteRequest(p)
  BY NoRequestType DEF NoRequest, RequestState, CompleteRequest, NoGrant,
                       Lineage, Via
<1>2. token[t].account \in Account
  BY TokenType DEF StartRefresh, CompleteToken
<1>3. q \in RequestState /\ CompleteRequest(q)
  BY <1>2, NoRequestType DEF NoRequest, RequestState, CompleteRequest,
                             NoGrant, Lineage, Via
<1>4. request' = [request EXCEPT ![r] = IF Stored(t) THEN q ELSE p]
  BY DEF StartRefresh
<1> HIDE DEF p, q
<1>5. Requests'
  BY <1>1, <1>3, <1>4, SetRequest
<1> QED
  BY <1>5, OthersKeep DEF StartRefresh, TypeInv

LEMMA CheckHolderType ==
  ASSUME TypeInv, NEW r \in Request, CheckHolder(r), UNCHANGED accountVars
  PROVE  TypeInv'
<1>1. Requests'
  BY SetPc, FinishKeeps DEF CheckHolder
<1> QED
  BY <1>1, OthersKeep DEF CheckHolder, TypeInv

LEMMA ConsumeType ==
  ASSUME TypeInv, NEW r \in Request, Consume(r), UNCHANGED accountVars
  PROVE  TypeInv'
<1> DEFINE t == request[r].token
<1>1. t \in Token /\ token[t].status = "active"
  BY RequestType DEF Consume, Consumable, CompleteRequest
<1>2. Requests'
  BY <1>1, AcceptKeeps DEF Consume, Via
<1>3. Tokens' /\ \A u \in Token : Issued(u) => Issued(u)'
  <2> DEFINE row == [token[t] EXCEPT !.status = "used", !.usedAt = now]
  <2>1. row \in TokenRow /\ CompleteToken(row) /\ row.status = "used"
    <3>1. token[t] \in TokenRow /\ CompleteToken(token[t])
      BY <1>1, TokenType
    <3>2. now \in Nat
      BY DEF TypeInv, Clock
    <3>3. row \in TokenRow
      BY <3>1, <3>2 DEF TokenRow
    <3>4. /\ row.status = "used"
          /\ row.family = token[t].family
          /\ row.account = token[t].account
          /\ row.client = token[t].client
      BY <3>1 DEF TokenRow
    <3> QED
      BY <1>1, <3>1, <3>3, <3>4 DEF CompleteToken
  <2>2. token' = [token EXCEPT ![t] = row]
    BY DEF Consume
  <2> HIDE DEF row, t
  <2> QED
    BY <1>1, <2>1, <2>2 DEF TypeInv, Tokens, Issued
<1>4. Pending'
  BY <1>3 DEF Consume, TypeInv, Pending
<1> QED
  BY <1>2, <1>3, <1>4, OthersKeep DEF Consume, TypeInv

LEMMA ConsumeMissesType ==
  ASSUME TypeInv, NEW r \in Request, ConsumeMisses(r), UNCHANGED accountVars
  PROVE  TypeInv'
<1>1. Requests'
  BY SetPc DEF ConsumeMisses
<1> QED
  BY <1>1, OthersKeep DEF ConsumeMisses, TypeInv

LEMMA RereadType ==
  ASSUME TypeInv, NEW r \in Request, Reread(r), UNCHANGED accountVars
  PROVE  TypeInv'
<1> DEFINE t == request[r].token
           q == [request[r] EXCEPT !.pc = "revokeFamily",
                                   !.family = token[t].family]
<1>1. t \in Token
  BY RequestType DEF Reread, CompleteRequest
<1>2. Stored(t) => token[t].status # "unissued" /\ token[t].family \in Token
  BY <1>1, TokenType DEF Stored, CompleteToken
<1>3. Stored(t) => q \in RequestState /\ CompleteRequest(q)
  BY <1>2, RequestType DEF RequestState, CompleteRequest
<1>4. \/ Finish(r)
      \/ Stored(t) /\ Accept(r, t, "replay")
      \/ Stored(t) /\ request' = [request EXCEPT ![r] = q]
  BY DEF Reread
<1> HIDE DEF q
<1>5. Requests'
  <2>1. CASE Finish(r)
    BY <2>1, FinishKeeps
  <2>2. CASE Stored(t) /\ Accept(r, t, "replay")
    BY <1>1, <1>2, <2>2, AcceptKeeps DEF Reread, Via
  <2>3. CASE Stored(t) /\ request' = [request EXCEPT ![r] = q]
    BY <1>3, <2>3, SetRequest
  <2> QED
    BY <1>4, <2>1, <2>2, <2>3
<1>6. straddled' \subseteq Token
  <2>1. Locked(t) => token[t].family \in Token
    BY <1>1, TokenType DEF Locked, CompleteToken, TypeInv, Pending, Issued
  <2> QED
    BY <2>1 DEF Reread, TypeInv, History
<1>7. History'
  BY <1>6 DEF Reread, TypeInv, History
<1> QED
  BY <1>5, <1>7, OthersKeep DEF Reread, TypeInv

LEMMA RevokeFamilyType ==
  ASSUME TypeInv, NEW r \in Request, RevokeFamily(r), UNCHANGED accountVars
  PROVE  TypeInv'
<1> DEFINE f == request[r].family
<1>1. f \in Token
  BY RequestType DEF RevokeFamily, CompleteRequest
<1>2. Tokens' /\ \A t \in Token : Issued(t)' <=> Issued(t)
  <2>1. \A t \in {u \in FamilyRows(f) : Stored(u)} : t \in Token /\ Issued(t)
    BY DEF FamilyRows, Stored, Issued
  <2> QED
    BY <2>1, RevokeKeeps DEF RevokeFamily
<1>3. Pending'
  BY <1>2 DEF RevokeFamily, TypeInv, Pending
<1>4. History'
  <2>1. killed' \in [Token -> SUBSET Cause]
    BY <1>1, KillKeeps DEF RevokeFamily, Cause
  <2>2. straddled' \subseteq Token
    BY <1>1, StraddleKeeps DEF RevokeFamily
  <2> QED
    BY <2>1, <2>2 DEF RevokeFamily, TypeInv, History
<1>5. Requests'
  BY FinishKeeps DEF RevokeFamily
<1> QED
  BY <1>2, <1>3, <1>4, <1>5, OthersKeep DEF RevokeFamily, TypeInv

LEMMA FindAccountType ==
  ASSUME TypeInv, NEW r \in Request, FindAccount(r), UNCHANGED accountVars
  PROVE  TypeInv'
<1>1. Requests'
  BY SetPc, FinishKeeps DEF FindAccount
<1> QED
  BY <1>1, OthersKeep DEF FindAccount, TypeInv

LEMMA IssueTokensType ==
  ASSUME TypeInv, NEW r \in Request, IssueTokens(r), UNCHANGED accountVars
  PROVE  TypeInv'
<1> DEFINE Row(t) == [status    |-> "active",
                      family    |-> IF request[r].family = None THEN t
                                    ELSE request[r].family,
                      account   |-> request[r].account,
                      client    |-> request[r].client,
                      usedAt    |-> 0,
                      expiresAt |-> now + RefreshTtl]
<1>1. PICK t \in Token : /\ token[t].status = "unissued"
                         /\ token' = [token EXCEPT ![t] = Row(t)]
                         /\ lineage' = [lineage EXCEPT ![t] = request[r].grant]
  BY DEF IssueTokens
<1>2. Row(t) \in TokenRow /\ CompleteToken(Row(t)) /\ Row(t).status = "active"
  BY RequestType, DurationAssumption
     DEF IssueTokens, CompleteRequest, TokenRow, CompleteToken, TypeInv, Clock
<1> HIDE DEF Row
<1>3. Tokens' /\ \A u \in Token : Issued(u) => Issued(u)'
  BY <1>1, <1>2 DEF TypeInv, Tokens, Issued
<1>4. Pending'
  BY <1>3 DEF IssueTokens, TypeInv, Pending
<1>5. History'
  BY <1>1, RequestType DEF IssueTokens, TypeInv, History
<1>6. Requests'
  BY FinishKeeps DEF IssueTokens
<1> QED
  BY <1>3, <1>4, <1>5, <1>6, OthersKeep DEF IssueTokens, TypeInv

LEMMA RequestCrashType ==
  ASSUME TypeInv, NEW r \in Request, RequestCrash(r), UNCHANGED accountVars
  PROVE  TypeInv'
<1>1. Requests'
  BY FinishKeeps DEF RequestCrash
<1> QED
  BY <1>1, OthersKeep DEF RequestCrash, TypeInv

-----------------------------------------------------------------------------
(* The statements outside the token endpoint, and the clock.               *)
LEMMA RevokeRefreshTokenType ==
  ASSUME TypeInv, NEW t \in Token, RevokeRefreshToken(t), UNCHANGED accountVars
  PROVE  TypeInv'
<1>1. Tokens' /\ \A u \in Token : Issued(u)' <=> Issued(u)
  <2>1. {t} \in SUBSET Token /\ \A u \in {t} : Issued(u)
    BY DEF RevokeRefreshToken, Stored, Issued
  <2>2. Revoke({t})
    BY DEF RevokeRefreshToken
  <2> QED
    BY <2>1, <2>2, RevokeKeeps
<1>2. Pending'
  BY <1>1 DEF RevokeRefreshToken, TypeInv, Pending
<1> QED
  BY <1>1, <1>2, OthersKeep DEF RevokeRefreshToken, TypeInv

LEMMA CleanupType ==
  ASSUME TypeInv, CleanupExpiredTokens, UNCHANGED accountVars
  PROVE  TypeInv'
<1>1. Tokens' /\ \A u \in Token : Issued(u) => Issued(u)'
  <2>1. ASSUME NEW t \in Token, Prunable(token[t])
        PROVE  /\ [token[t] EXCEPT !.status = "deleted"] \in TokenRow
               /\ CompleteToken([token[t] EXCEPT !.status = "deleted"])
    BY <2>1, TokenType DEF TokenRow, CompleteToken, Prunable
  <2> QED
    BY <2>1, TokenType DEF CleanupExpiredTokens, Tokens, TokenRow, Issued
<1>2. Codes'
  <2>1. ASSUME NEW k \in Code, Prunable(code[k])
        PROVE  /\ [code[k] EXCEPT !.status = "deleted"] \in CodeRow
               /\ CompleteCode([code[k] EXCEPT !.status = "deleted"])
    BY <2>1, CodeType DEF CodeRow, CompleteCode, Prunable
  <2> QED
    BY <2>1, CodeType DEF CleanupExpiredTokens, Codes
<1>3. Pending'
  BY <1>1 DEF CleanupExpiredTokens, TypeInv, Pending
<1> QED
  BY <1>1, <1>2, <1>3, OthersKeep DEF CleanupExpiredTokens, TypeInv

LEMMA TickType ==
  ASSUME TypeInv, Tick, UNCHANGED accountVars
  PROVE  TypeInv'
<1>1. Clock'
  BY DEF Tick, TypeInv, Clock
<1> QED
  BY <1>1, OthersKeep DEF Tick, TypeInv

-----------------------------------------------------------------------------
(* The steps of the account handlers.                                      *)
LEMMA RevocableRowsIssued ==
  ASSUME NEW a, NEW t \in RevocableRows(a)
  PROVE  t \in Token /\ Issued(t)
BY DEF RevocableRows, Issued

LEMMA AccountStepType ==
  ASSUME TypeInv, NEW h \in AdminCall, AccountStep(h),
         UNCHANGED <<tokenVars, historyVars>>
  PROVE  TypeInv'
<1>1. AccountIInv'
  BY AccountNextKeeps DEF TypeInv, AccountNext
<1> QED
  BY <1>1, OthersKeep DEF tokenVars, TypeInv

LEMMA ResetRevokesType ==
  ASSUME TypeInv, NEW h \in AdminCall, ResetRevokes(h)
  PROVE  TypeInv'
<1> DEFINE a == call[h].id
<1>1. AccountIInv'
  BY AccountNextKeeps DEF ResetRevokes, AccountNext, TypeInv
<1>2. Tokens' /\ \A u \in Token : Issued(u)' <=> Issued(u)
  BY RevocableRowsIssued, RevokeKeeps DEF ResetRevokes
<1>3. Pending'
  BY <1>2 DEF ResetRevokes, TypeInv, Pending
<1>4. AccountFamilies(a) \in SUBSET Token
  BY DEF AccountFamilies
<1>5. killed' \in [Token -> SUBSET Cause] /\ straddled' \subseteq Token
  BY <1>4, KillKeeps, StraddleKeeps DEF ResetRevokes, Cause
<1>6. History'
  BY <1>5 DEF ResetRevokes, TypeInv, History
<1> QED
  BY <1>1, <1>2, <1>3, <1>6, OthersKeep DEF ResetRevokes, TypeInv

LEMMA DisableRevokesType ==
  ASSUME TypeInv, NEW h \in AdminCall, DisableRevokes(h)
  PROVE  TypeInv'
<1> DEFINE a == call[h].id
<1>1. AccountIInv'
  BY AccountNextKeeps DEF DisableRevokes, AccountNext, TypeInv
<1>2. Pending'
  <2>1. pending' = [pending EXCEPT ![h] = RevocableRows(a)]
    BY DEF DisableRevokes
  <2>2. \A t \in Token : Issued(t)' = Issued(t)
    BY DEF DisableRevokes, Issued
  <2> QED
    BY <2>1, <2>2, RevocableRowsIssued DEF TypeInv, Pending
<1>3. AccountFamilies(a) \in SUBSET Token
  BY DEF AccountFamilies
<1>4. straddled' \subseteq Token
  BY <1>3, StraddleKeeps DEF DisableRevokes
<1>5. History'
  BY <1>3, <1>4 DEF DisableRevokes, TypeInv, History
<1> QED
  BY <1>1, <1>2, <1>5, OthersKeep DEF DisableRevokes, TypeInv

LEMMA UpdateCommitsType ==
  ASSUME TypeInv, NEW h \in AdminCall, UpdateCommits(h)
  PROVE  TypeInv'
<1>1. AccountIInv'
  BY AccountNextKeeps DEF UpdateCommits, AccountNext, TypeInv
<1>2. Tokens' /\ \A u \in Token : Issued(u)' <=> Issued(u)
  <2>1. pending[h] \in SUBSET Token /\ \A t \in pending[h] : Issued(t)
    BY DEF TypeInv, Pending
  <2> QED
    BY <2>1, RevokeKeeps DEF UpdateCommits
<1>3. Pending'
  BY <1>2 DEF UpdateCommits, TypeInv, Pending
<1>4. History'
  <2>1. doomed[h] \in SUBSET Token
    BY DEF TypeInv, History
  <2>2. killed' \in [Token -> SUBSET Cause]
    BY <2>1, KillKeeps DEF UpdateCommits, Cause
  <2> QED
    BY <2>2 DEF UpdateCommits, TypeInv, History
<1> QED
  BY <1>1, <1>2, <1>3, <1>4, OthersKeep DEF UpdateCommits, TypeInv

LEMMA CallCrashesType ==
  ASSUME TypeInv, NEW h \in AdminCall, CallCrashes(h)
  PROVE  TypeInv'
<1>1. AccountIInv'
  BY AccountNextKeeps DEF CallCrashes, AccountNext, TypeInv
<1>2. Pending'
  BY DEF CallCrashes, TypeInv, Pending, Issued
<1>3. History'
  BY DEF CallCrashes, TypeInv, History
<1> QED
  BY <1>1, <1>2, <1>3, OthersKeep DEF CallCrashes, TypeInv

-----------------------------------------------------------------------------
LEMMA TypeInvNext ==
  ASSUME TypeInv, [Next]_vars
  PROVE  TypeInv'
<1>1. ASSUME NEW r \in Request, RequestStep(r), UNCHANGED accountVars
      PROVE  TypeInv'
  BY <1>1, AuthorizeType, CreateCodeType, ExchangeCodeType, StartRefreshType,
     CheckHolderType, ConsumeType, ConsumeMissesType, RereadType,
     RevokeFamilyType, FindAccountType, IssueTokensType, RequestCrashType
     DEF RequestStep
<1>2. ASSUME StoreStep, UNCHANGED accountVars PROVE TypeInv'
  BY <1>2, RevokeRefreshTokenType, CleanupType, TickType DEF StoreStep
<1>3. ASSUME NEW h \in AdminCall, AdminStep(h) PROVE TypeInv'
  BY <1>3, AccountStepType, ResetRevokesType, DisableRevokesType,
     UpdateCommitsType, CallCrashesType DEF AdminStep
<1>4. CASE UNCHANGED vars
  BY <1>4, OthersKeep DEF vars, tokenVars, TypeInv
<1> QED
  BY <1>1, <1>2, <1>3, <1>4 DEF Next

THEOREM TypeInvariant == Spec => []TypeInv
<1> QED
  BY TypeInvInit, TypeInvNext, PTL DEF Spec

(* TypeOK for every number of tokens, requests and overlapping handlers.   *)
THEOREM TypeCorrect == Spec => []TypeOK
<1> QED
  BY TypeInvariant, TypeInvImplies, PTL

(* The token endpoint does not interfere with the accounts: seen without   *)
(* the tokens, every behaviour is one of module Accounts, so what is said  *)
(* of accounts there holds here.                                           *)
THEOREM ImplementsAccounts == Spec => AccountSpec
<1>1. Init => AccountInit
  BY DEF Init
<1>2. [Next]_vars => [AccountNext]_accountVars
  <2>1. ASSUME NEW h \in AdminCall, AdminStep(h) PROVE AccountNext
    BY <2>1 DEF AdminStep, AccountNext, ResetRevokes, DisableRevokes,
                UpdateCommits, CallCrashes
  <2> QED
    BY <2>1 DEF Next, vars
<1> QED
  BY <1>1, <1>2, PTL DEF Spec, AccountSpec

-----------------------------------------------------------------------------
(***************************************************************************)
(* Rotation: SingleUse, ReplayWindow and FamilyHomogeneous hold however    *)
(* many requests present however many tokens at the same moment.           *)
(***************************************************************************)

(* A token past its active life: used, revoked or deleted.                 *)
Spent(t) == token[t].status \in {"used", "revoked", "deleted"}

(* A grant honoured was taken from what it names: the code is deleted, the *)
(* token spent, and the presentation lies in the window after its use.     *)
Taken(g) ==
  /\ g.via \in {"code", "rotation", "replay"}
  /\ g.via = "code" => g.origin \in Code /\ code[g.origin].status = "deleted"
  /\ g.via # "code" => /\ g.origin \in Token
                       /\ Spent(g.origin)
                       /\ token[g.origin].usedAt <= g.at
                       /\ g.at <= token[g.origin].usedAt + Grace

(* A family's first token fixes the family's account and client.           *)
First(f, a, c) ==
  /\ Issued(f)
  /\ token[f].family = f
  /\ token[f].account = a
  /\ token[f].client = c

Origins ==
  /\ \A t \in Token : Issued(t) => Taken(lineage[t])
  /\ \A r \in Request : InFlight(r) => Taken(request[r].grant)

Firsts ==
  /\ \A t \in Token : Issued(t) =>
       First(token[t].family, token[t].account, token[t].client)
  /\ \A r \in Request : InFlight(r) /\ request[r].family # None =>
       First(request[r].family, request[r].account, request[r].client)

(* A use lies in the past.                                                 *)
UsesPast == \A t \in Token : token[t].usedAt <= now

RotationInv == TypeInv /\ Origins /\ Firsts /\ UsesPast /\ SingleUse

-----------------------------------------------------------------------------
(* The steps that neither honour a grant nor issue a token are quiet: they *)
(* leave every honoured grant and every family as it was, though they may  *)
(* revoke or delete rows and end requests.                                 *)
SameRow(t) ==
  /\ Issued(t)' <=> Issued(t)
  /\ Spent(t) => Spent(t)'
  /\ token'[t].family = token[t].family
  /\ token'[t].account = token[t].account
  /\ token'[t].client = token[t].client
  /\ \/ token'[t].usedAt = token[t].usedAt
     \/ ~Spent(t) /\ token'[t].usedAt = now'

SameFlight(r) ==
  InFlight(r)' => /\ InFlight(r)
                  /\ request'[r].grant = request[r].grant
                  /\ request'[r].family = request[r].family
                  /\ request'[r].account = request[r].account
                  /\ request'[r].client = request[r].client

Quiet ==
  /\ lineage' = lineage
  /\ \A t \in Token : SameRow(t)
  /\ \A k \in Code : code[k].status = "deleted" => code'[k].status = "deleted"
  /\ \A r \in Request : SameFlight(r)
  /\ now <= now'

LEMMA QuietKeeps ==
  ASSUME RotationInv, Quiet, TypeInv'
  PROVE  RotationInv'
<1>1. Origins'
  BY DEF RotationInv, Quiet, Origins, Taken, SameRow, SameFlight
<1>2. Firsts'
  <2>1. ASSUME NEW t \in Token, Issued(t)'
        PROVE  First(token[t].family, token[t].account, token[t].client)'
    BY <2>1, TokenType DEF RotationInv, Quiet, Firsts, First, SameRow,
                           CompleteToken, Issued
  <2>2. ASSUME NEW r \in Request, InFlight(r)', (request[r].family # None)'
        PROVE  First(request[r].family, request[r].account,
                     request[r].client)'
    BY <2>2, RequestType DEF RotationInv, Quiet, Firsts, First, SameRow,
                             SameFlight
  <2> QED
    BY <2>1, <2>2 DEF Firsts
<1>3. UsesPast'
  BY DEF RotationInv, Quiet, UsesPast, SameRow, TypeInv, Tokens, TokenRow,
         Clock
<1>4. SingleUse'
  BY DEF RotationInv, Quiet, SingleUse, Heirs, GrantOf, SameRow, SameFlight
<1> QED
  BY <1>1, <1>2, <1>3, <1>4 DEF RotationInv

(* What makes a step quiet.                                                *)
LEMMA SameRows ==
  ASSUME UNCHANGED token
  PROVE  \A t \in Token : SameRow(t)
BY DEF SameRow, Issued, Spent

LEMMA SameFlights ==
  ASSUME UNCHANGED request
  PROVE  \A r \in Request : SameFlight(r)
BY DEF SameFlight, InFlight

LEMMA FinishQuiet ==
  ASSUME TypeInv, NEW r \in Request, Finish(r)
  PROVE  \A s \in Request : SameFlight(s)
BY DEF TypeInv, Requests, Finish, NoRequest, SameFlight, InFlight

LEMMA GotoQuiet ==
  ASSUME TypeInv, NEW r \in Request, NEW pc, GotoRequest(r, pc),
         pc \in {"findAccount", "issue"} => InFlight(r)
  PROVE  \A s \in Request : SameFlight(s)
BY DEF TypeInv, Requests, RequestState, GotoRequest, SameFlight, InFlight

LEMMA StartQuiet ==
  ASSUME TypeInv, NEW r \in Request, NEW q,
         request' = [request EXCEPT ![r] = q],
         q.pc \notin {"findAccount", "issue"}
  PROVE  \A s \in Request : SameFlight(s)
BY DEF TypeInv, Requests, SameFlight, InFlight

LEMMA RevokeQuiet ==
  ASSUME TypeInv, NEW rows \in SUBSET Token, \A t \in rows : Issued(t),
         Revoke(rows)
  PROVE  \A t \in Token : SameRow(t)
BY DEF TypeInv, Tokens, TokenRow, Revoke, SameRow, Issued, Spent

LEMMA QuietRequestStep ==
  ASSUME TypeInv, NEW r \in Request,
         \/ \E a \in Account, c \in Client : Authorize(r, a, c)
         \/ CreateCode(r)
         \/ \E t \in Token, c \in Client : StartRefresh(r, t, c)
         \/ CheckHolder(r)
         \/ ConsumeMisses(r)
         \/ RevokeFamily(r)
         \/ FindAccount(r)
         \/ RequestCrash(r)
  PROVE  Quiet
<1>0. now \in Nat
  BY DEF TypeInv, Clock
<1>1. ASSUME NEW a \in Account, NEW c \in Client, Authorize(r, a, c)
      PROVE  Quiet
  <2> DEFINE q == [NoRequest EXCEPT !.pc = "createCode", !.account = a,
                                    !.client = c]
  <2>1. request' = [request EXCEPT ![r] = q]
    BY <1>1 DEF Authorize
  <2>2. q.pc \notin {"findAccount", "issue"}
    BY DEF NoRequest
  <2> HIDE DEF q
  <2>3. \A s \in Request : SameFlight(s)
    BY <2>1, <2>2, StartQuiet
  <2>4. /\ token' = token /\ code' = code /\ now' = now
        /\ lineage' = lineage
    BY <1>1 DEF Authorize, historyVars
  <2> QED
    BY <1>0, <2>3, <2>4, SameRows DEF Quiet
<1>2. CASE CreateCode(r)
  <2>1. \A k \in Code : code[k].status = "deleted"
                          => code'[k].status = "deleted"
    BY <1>2 DEF CreateCode, TypeInv, Codes
  <2> QED
    BY <1>0, <1>2, <2>1, FinishQuiet, SameRows
       DEF CreateCode, Quiet, historyVars
<1>3. ASSUME NEW t \in Token, NEW c \in Client, StartRefresh(r, t, c)
      PROVE  Quiet
  <2> DEFINE q == IF Stored(t)
                  THEN [NoRequest EXCEPT !.pc = "checkHolder", !.client = c,
                                         !.token = t,
                                         !.account = token[t].account]
                  ELSE [NoRequest EXCEPT !.pc = "consume", !.client = c,
                                         !.token = t]
  <2>1. request' = [request EXCEPT ![r] = q]
    BY <1>3 DEF StartRefresh
  <2>2. q.pc \notin {"findAccount", "issue"}
    BY DEF NoRequest
  <2> HIDE DEF q
  <2>3. \A s \in Request : SameFlight(s)
    BY <2>1, <2>2, StartQuiet
  <2>4. /\ token' = token /\ code' = code /\ now' = now
        /\ lineage' = lineage
    BY <1>3 DEF StartRefresh, historyVars
  <2> QED
    BY <1>0, <2>3, <2>4, SameRows DEF Quiet
<1>4. CASE CheckHolder(r)
  <2>1. \A s \in Request : SameFlight(s)
    BY <1>4, GotoQuiet, FinishQuiet DEF CheckHolder
  <2> QED
    BY <1>0, <1>4, <2>1, SameRows DEF CheckHolder, Quiet, historyVars
<1>5. CASE ConsumeMisses(r)
  <2>1. \A s \in Request : SameFlight(s)
    BY <1>5, GotoQuiet DEF ConsumeMisses
  <2> QED
    BY <1>0, <1>5, <2>1, SameRows DEF ConsumeMisses, Quiet, historyVars
<1>6. CASE RevokeFamily(r)
  <2> DEFINE rows == {t \in FamilyRows(request[r].family) : Stored(t)}
  <2>1. rows \in SUBSET Token /\ \A t \in rows : Issued(t)
    BY DEF FamilyRows, Stored, Issued
  <2>2. \A t \in Token : SameRow(t)
    BY <1>6, <2>1, RevokeQuiet DEF RevokeFamily
  <2> QED
    BY <1>0, <1>6, <2>2, FinishQuiet DEF RevokeFamily, Quiet
<1>7. CASE FindAccount(r)
  <2>1. \A s \in Request : SameFlight(s)
    BY <1>7, GotoQuiet, FinishQuiet DEF FindAccount, InFlight
  <2> QED
    BY <1>0, <1>7, <2>1, SameRows DEF FindAccount, Quiet, historyVars
<1>8. CASE RequestCrash(r)
  BY <1>0, <1>8, FinishQuiet, SameRows DEF RequestCrash, Quiet, historyVars
<1> QED
  BY <1>1, <1>2, <1>3, <1>4, <1>5, <1>6, <1>7, <1>8

LEMMA QuietOtherStep ==
  ASSUME TypeInv,
         \/ StoreStep
         \/ \E h \in AdminCall : AdminStep(h)
         \/ UNCHANGED vars
  PROVE  Quiet
<1>0. now \in Nat
  BY DEF TypeInv, Clock
<1>1. ASSUME NEW t \in Token, RevokeRefreshToken(t) PROVE Quiet
  <2>1. {t} \in SUBSET Token /\ \A u \in {t} : Issued(u)
    BY <1>1 DEF RevokeRefreshToken, Stored, Issued
  <2>2. \A u \in Token : SameRow(u)
    BY <1>1, <2>1, RevokeQuiet DEF RevokeRefreshToken
  <2> QED
    BY <1>0, <1>1, <2>2, SameFlights DEF RevokeRefreshToken, Quiet, historyVars
<1>2. CASE CleanupExpiredTokens
  <2>1. \A t \in Token : SameRow(t)
    BY <1>2 DEF CleanupExpiredTokens, SameRow, Prunable, Issued, Spent,
                TypeInv, Tokens, TokenRow
  <2>2. \A k \in Code : code[k].status = "deleted"
                          => code'[k].status = "deleted"
    BY <1>2 DEF CleanupExpiredTokens, TypeInv, Codes, CodeRow
  <2> QED
    BY <1>0, <1>2, <2>1, <2>2, SameFlights
       DEF CleanupExpiredTokens, Quiet, historyVars
<1>3. CASE Tick
  BY <1>0, <1>3, SameRows, SameFlights DEF Tick, Quiet, historyVars
<1>4. ASSUME NEW h \in AdminCall, AdminStep(h) PROVE Quiet
  <2>1. CASE AccountStep(h) /\ UNCHANGED <<tokenVars, historyVars>>
    BY <1>0, <2>1, SameRows, SameFlights DEF Quiet, tokenVars, historyVars
  <2>2. CASE ResetRevokes(h)
    <3>1. /\ RevocableRows(call[h].id) \in SUBSET Token
          /\ \A t \in RevocableRows(call[h].id) : Issued(t)
      BY DEF RevocableRows, Issued
    <3>2. \A t \in Token : SameRow(t)
      BY <2>2, <3>1, RevokeQuiet DEF ResetRevokes
    <3> QED
      BY <1>0, <2>2, <3>2, SameFlights DEF ResetRevokes, Quiet
  <2>3. CASE DisableRevokes(h)
    BY <1>0, <2>3, SameRows, SameFlights DEF DisableRevokes, Quiet
  <2>4. CASE UpdateCommits(h)
    <3>1. pending[h] \in SUBSET Token /\ \A t \in pending[h] : Issued(t)
      BY DEF TypeInv, Pending
    <3>2. \A t \in Token : SameRow(t)
      BY <2>4, <3>1, RevokeQuiet DEF UpdateCommits
    <3> QED
      BY <1>0, <2>4, <3>2, SameFlights DEF UpdateCommits, Quiet
  <2>5. CASE CallCrashes(h)
    BY <1>0, <2>5, SameRows, SameFlights DEF CallCrashes, Quiet
  <2> QED
    BY <1>4, <2>1, <2>2, <2>3, <2>4, <2>5 DEF AdminStep
<1>5. CASE UNCHANGED vars
  BY <1>0, <1>5, SameRows, SameFlights DEF vars, tokenVars, historyVars, Quiet
<1> QED
  BY <1>1, <1>2, <1>3, <1>4, <1>5 DEF StoreStep

-----------------------------------------------------------------------------
(* A code is redeemed by the request that deletes it: no heir was there    *)
(* before, since heirs have deleted codes.                                 *)
LEMMA ExchangeCodeKeeps ==
  ASSUME RotationInv, TypeInv', NEW r \in Request, NEW k \in Code,
         NEW c \in Client, ExchangeCode(r, k, c)
  PROVE  RotationInv'
<1> DEFINE g == [origin |-> k, via |-> "code", at |-> now]
           q == [pc |-> "findAccount", client |-> c, token |-> None,
                 account |-> code[k].account, family |-> None, grant |-> g]
<1>0. TypeInv
  BY DEF RotationInv
<1>1. /\ code[k].status = "active"
      /\ code' = [code EXCEPT ![k].status = "deleted"]
      /\ token' = token /\ lineage' = lineage /\ now' = now
      /\ request' = request \/ request' = [request EXCEPT ![r] = q]
  BY DEF ExchangeCode, historyVars
<1>2. /\ code'[k].status = "deleted"
      /\ \A j \in Code : code[j].status = "deleted"
                           => code'[j].status = "deleted"
  BY <1>0, <1>1 DEF TypeInv, Codes, CodeRow
<1>3. \A t \in Token : SameRow(t)
  BY <1>1, SameRows
<1>4. CASE request' = request
  <2>1. Quiet
    BY <1>0, <1>1, <1>2, <1>3, <1>4, SameFlights DEF Quiet, TypeInv, Clock
  <2> QED
    BY <2>1, QuietKeeps
<1>5. CASE request' = [request EXCEPT ![r] = q]
  <2>1. /\ request'[r].grant = g /\ request'[r].family = None
        /\ \A s \in Request \ {r} : request'[s] = request[s]
    BY <1>0, <1>5 DEF TypeInv, Requests
  <2> HIDE DEF q
  <2>2. Taken(g)'
    BY <1>2 DEF Taken
  <2>3. \A x : Taken(x) => Taken(x)'
    BY <1>1, <1>2 DEF Taken, Spent
  <2>4. Origins'
    BY <1>1, <2>1, <2>2, <2>3 DEF RotationInv, Origins, Issued, InFlight
  <2>5. Firsts'
    BY <1>1, <2>1 DEF RotationInv, Firsts, First, Issued, InFlight
  <2>6. UsesPast'
    BY <1>1 DEF RotationInv, UsesPast
  <2>7. \A x \in Heirs(k) : FALSE
    <3>1. \A x \in Heirs(k) : Taken(GrantOf(x)) /\ GrantOf(x).origin = k
      BY DistinctAssumption DEF RotationInv, Origins, Heirs, GrantOf
    <3> QED
      BY <1>1, <3>1, DistinctAssumption DEF Taken
  <2>8. \A o : Heirs(o)' \subseteq Heirs(o) \cup {r}
    BY <1>1, <2>1 DEF Heirs, Issued, InFlight
  <2>9. \A o : r \in Heirs(o)' => o = k
    BY <2>1, DistinctAssumption DEF Heirs
  <2>10. \A x \in Token \cup Request : x # r => GrantOf(x)' = GrantOf(x)
    BY <1>1, <2>1 DEF GrantOf
  <2>11. SingleUse'
    <3> SUFFICES ASSUME NEW o \in Token \cup Code, NEW x \in Heirs(o)',
                        NEW y \in Heirs(o)', (GrantOf(x).via # "replay")',
                        (GrantOf(y).via # "replay")'
                 PROVE  x = y
      BY DEF SingleUse
    <3>1. CASE o = k
      BY <2>7, <2>8, <3>1
    <3>2. CASE o # k
      <4>1. x \in Heirs(o) /\ y \in Heirs(o) /\ x # r /\ y # r
        BY <2>8, <2>9, <3>2
      <4>2. /\ x \in Token \cup Request /\ y \in Token \cup Request
        BY <4>1 DEF Heirs
      <4> QED
        BY <2>10, <4>1, <4>2 DEF RotationInv, SingleUse
    <3> QED
      BY <3>1, <3>2
  <2> QED
    BY <2>4, <2>5, <2>6, <2>11 DEF RotationInv
<1> QED
  BY <1>1, <1>4, <1>5

(* A request honours a presentation of token t: the first one finds it     *)
(* unspent and spends it, a later one is a replay within the window.       *)
LEMMA HonourKeeps ==
  ASSUME RotationInv, TypeInv', NEW r \in Request, NEW t \in Token, NEW q,
         NEW via \in {"rotation", "replay"},
         request' = [request EXCEPT ![r] = q],
         q.pc = "findAccount",
         q.grant = [origin |-> t, via |-> via, at |-> now],
         q.account = token[t].account,
         q.family = token[t].family,
         q.client = token[t].client,
         lineage' = lineage, code' = code, now' = now,
         \A u \in Token : SameRow(u),
         Issued(t), Spent(t)',
         token'[t].usedAt <= now, now <= token'[t].usedAt + Grace,
         via = "replay" \/ ~Spent(t)
  PROVE  RotationInv'
<1> DEFINE g == [origin |-> t, via |-> via, at |-> now]
<1>0. TypeInv
  BY DEF RotationInv
<1>1. /\ request'[r] = q
      /\ \A s \in Request \ {r} : request'[s] = request[s]
  BY <1>0 DEF TypeInv, Requests
<1>2. \A x : Taken(x) => Taken(x)'
  BY DEF Taken, SameRow
<1>3. Taken(g)'
  BY DEF Taken
<1>4. Origins'
  <2>1. \A u \in Token : Issued(u)' => Taken(lineage[u])'
    BY <1>2 DEF RotationInv, Origins, SameRow
  <2>2. ASSUME NEW s \in Request, InFlight(s)' PROVE Taken(request[s].grant)'
    <3>1. CASE s = r
      BY <1>1, <1>3, <3>1 DEF Taken
    <3>2. CASE s # r
      BY <1>1, <1>2, <2>2, <3>2 DEF RotationInv, Origins, InFlight
    <3> QED
      BY <3>1, <3>2
  <2> QED
    BY <2>1, <2>2 DEF Origins
<1>5. Firsts'
  <2>1. \A f \in Token : \A a, c : First(f, a, c) => First(f, a, c)'
    BY DEF First, SameRow
  <2>2. ASSUME NEW u \in Token, Issued(u),
               NEW f, NEW a, NEW c, f = token[u].family,
               a = token[u].account, c = token[u].client
        PROVE  First(f, a, c)'
    <3>1. f \in Token /\ First(f, a, c)
      BY <1>0, <2>2, TokenType DEF RotationInv, Firsts, CompleteToken, Issued
    <3> QED
      BY <2>1, <3>1
  <2>3. ASSUME NEW u \in Token, Issued(u)'
        PROVE  First(token[u].family, token[u].account, token[u].client)'
    <3>1. /\ Issued(u) /\ token'[u].family = token[u].family
          /\ token'[u].account = token[u].account
          /\ token'[u].client = token[u].client
      BY <2>3 DEF SameRow
    <3>2. PICK f, a, c : /\ f = token[u].family /\ a = token[u].account
                         /\ c = token[u].client
      OBVIOUS
    <3>3. First(f, a, c)'
      BY <2>2, <3>1, <3>2
    <3> QED
      BY <3>1, <3>2, <3>3
  <2>4. ASSUME NEW s \in Request, InFlight(s)', (request[s].family # None)'
        PROVE  First(request[s].family, request[s].account,
                     request[s].client)'
    <3>1. PICK f, a, c : /\ f = request'[s].family /\ a = request'[s].account
                         /\ c = request'[s].client
      OBVIOUS
    <3>2. CASE s = r
      <4>1. First(f, a, c)'
        BY <1>1, <2>2, <3>1, <3>2
      <4> QED
        BY <3>1, <4>1
    <3>3. CASE s # r
      <4>1. request'[s] = request[s] /\ InFlight(s)
        BY <1>1, <2>4, <3>3 DEF InFlight
      <4>2. f \in Token /\ First(f, a, c)
        BY <1>0, <2>4, <3>1, <4>1, RequestType DEF RotationInv, Firsts
      <4>3. First(f, a, c)'
        BY <2>1, <4>2
      <4> QED
        BY <3>1, <4>3
    <3> QED
      BY <3>2, <3>3
  <2> QED
    BY <2>3, <2>4 DEF Firsts
<1>6. UsesPast'
  BY <1>0 DEF RotationInv, UsesPast, SameRow, TypeInv, Clock
<1>7. ~Spent(t) => Heirs(t) = {}
  BY DistinctAssumption DEF RotationInv, Origins, Taken, Heirs
<1>8. \A o : Heirs(o)' \subseteq Heirs(o) \cup {r}
  BY <1>1 DEF Heirs, Issued, InFlight, SameRow
<1>9. \A o : r \in Heirs(o)' => o = t
  BY <1>1, DistinctAssumption DEF Heirs
<1>10. /\ GrantOf(r)' = g
       /\ \A x \in Token \cup Request : x # r => GrantOf(x)' = GrantOf(x)
  BY <1>1, DistinctAssumption DEF GrantOf
<1>11. SingleUse'
  <2> SUFFICES ASSUME NEW o \in Token \cup Code, NEW x \in Heirs(o)',
                      NEW y \in Heirs(o)', (GrantOf(x).via # "replay")',
                      (GrantOf(y).via # "replay")'
               PROVE  x = y
    BY DEF SingleUse
  <2>1. CASE x = r \/ y = r
    <3>1. o = t /\ via = "rotation"
      BY <1>9, <1>10, <2>1
    <3> QED
      BY <1>7, <1>8, <3>1
  <2>2. CASE x # r /\ y # r
    <3>1. x \in Heirs(o) /\ y \in Heirs(o)
      BY <1>8, <2>2
    <3>2. x \in Token \cup Request /\ y \in Token \cup Request
      BY <3>1 DEF Heirs
    <3> QED
      BY <1>10, <2>2, <3>1, <3>2 DEF RotationInv, SingleUse
  <2> QED
    BY <2>1, <2>2
<1> QED
  BY <1>4, <1>5, <1>6, <1>11 DEF RotationInv

LEMMA ConsumeKeeps ==
  ASSUME RotationInv, TypeInv', NEW r \in Request, Consume(r)
  PROVE  RotationInv'
<1>0. TypeInv /\ now \in Nat /\ Grace \in Nat
  BY DurationAssumption DEF RotationInv, TypeInv, Clock
<1>1. PICK t \in Token : t = request[r].token
  BY <1>0, RequestType DEF Consume, CompleteRequest
<1>2. /\ token[t].status = "active"
      /\ token' = [token EXCEPT ![t].status = "used", ![t].usedAt = now]
      /\ lineage' = lineage /\ code' = code /\ now' = now
  BY <1>1 DEF Consume, Consumable, historyVars
<1>3. /\ token'[t].status = "used" /\ token'[t].usedAt = now
      /\ token'[t].family = token[t].family
      /\ token'[t].account = token[t].account
      /\ token'[t].client = token[t].client
      /\ \A u \in Token \ {t} : token'[u] = token[u]
  BY <1>0, <1>1, <1>2 DEF TypeInv, Tokens, TokenRow
<1>4. \A u \in Token : SameRow(u)
  BY <1>1, <1>2, <1>3 DEF SameRow, Issued, Spent
<1>5. CASE token[t].client = request[r].client
  <2> DEFINE q == [request[r] EXCEPT
                     !.pc = "findAccount",
                     !.account = token[t].account,
                     !.family = token[t].family,
                     !.grant = [origin |-> t, via |-> "rotation", at |-> now]]
  <2>1. request' = [request EXCEPT ![r] = q]
    BY <1>1, <1>5 DEF Consume, Accept
  <2>2. /\ q.pc = "findAccount"
        /\ q.grant = [origin |-> t, via |-> "rotation", at |-> now]
        /\ q.account = token[t].account
        /\ q.family = token[t].family
        /\ q.client = token[t].client
    BY <1>0, <1>5, RequestType DEF RequestState
  <2> HIDE DEF q
  <2>3. Issued(t) /\ ~Spent(t) /\ Spent(t)'
    BY <1>2, <1>3 DEF Issued, Spent
  <2>4. token'[t].usedAt <= now /\ now <= token'[t].usedAt + Grace
    BY <1>0, <1>3
  <2> QED
    BY <1>1, <1>2, <1>4, <2>1, <2>2, <2>3, <2>4, HonourKeeps
<1>6. CASE token[t].client # request[r].client
  <2>1. \A s \in Request : SameFlight(s)
    BY <1>0, <1>1, <1>6, FinishQuiet DEF Consume, Accept
  <2>2. Quiet
    BY <1>0, <1>2, <1>4, <2>1 DEF Quiet
  <2> QED
    BY <2>2, QuietKeeps
<1> QED
  BY <1>5, <1>6

LEMMA RereadKeeps ==
  ASSUME RotationInv, TypeInv', NEW r \in Request, Reread(r)
  PROVE  RotationInv'
<1>0. TypeInv /\ now \in Nat /\ Grace \in Nat
  BY DurationAssumption DEF RotationInv, TypeInv, Clock
<1>1. PICK t \in Token : t = request[r].token
  BY <1>0, RequestType DEF Reread, CompleteRequest
<1>2. token' = token /\ lineage' = lineage /\ code' = code /\ now' = now
  BY DEF Reread
<1>3. \A u \in Token : SameRow(u)
  BY <1>2, SameRows
<1>4. \/ Finish(r)
      \/ request' = [request EXCEPT
           ![r] = [request[r] EXCEPT !.pc = "revokeFamily",
                                     !.family = token[t].family]]
      \/ /\ Replayable(t)
         /\ token[t].client = request[r].client
         /\ Accept(r, t, "replay")
  BY <1>1 DEF Reread, Accept
<1>5. CASE Finish(r)
  <2>1. Quiet
    BY <1>0, <1>2, <1>3, <1>5, FinishQuiet DEF Quiet
  <2> QED
    BY <2>1, QuietKeeps
<1>6. CASE request' = [request EXCEPT
             ![r] = [request[r] EXCEPT !.pc = "revokeFamily",
                                       !.family = token[t].family]]
  <2> DEFINE q == [request[r] EXCEPT !.pc = "revokeFamily",
                                     !.family = token[t].family]
  <2>1. q.pc \notin {"findAccount", "issue"}
    BY <1>0, RequestType DEF RequestState
  <2>2. request' = [request EXCEPT ![r] = q]
    BY <1>6
  <2> HIDE DEF q
  <2>3. \A s \in Request : SameFlight(s)
    BY <1>0, <2>1, <2>2, StartQuiet
  <2>4. Quiet
    BY <1>0, <1>2, <1>3, <2>3 DEF Quiet
  <2> QED
    BY <2>4, QuietKeeps
<1>7. CASE /\ Replayable(t)
           /\ token[t].client = request[r].client
           /\ Accept(r, t, "replay")
  <2> DEFINE q == [request[r] EXCEPT
                     !.pc = "findAccount",
                     !.account = token[t].account,
                     !.family = token[t].family,
                     !.grant = [origin |-> t, via |-> "replay", at |-> now]]
  <2>1. request' = [request EXCEPT ![r] = q]
    BY <1>7 DEF Accept
  <2>2. /\ q.pc = "findAccount"
        /\ q.grant = [origin |-> t, via |-> "replay", at |-> now]
        /\ q.account = token[t].account
        /\ q.family = token[t].family
        /\ q.client = token[t].client
    BY <1>0, <1>7, RequestType DEF RequestState
  <2> HIDE DEF q
  <2>3. Issued(t) /\ Spent(t)'
    BY <1>2, <1>7 DEF Replayable, Issued, Spent
  <2>4. token'[t].usedAt <= now /\ now <= token'[t].usedAt + Grace
    BY <1>1, <1>2, <1>7 DEF RotationInv, UsesPast, Replayable,
                            WithinRotationGrace
  <2> QED
    BY <1>1, <1>2, <1>3, <2>1, <2>2, <2>3, <2>4, HonourKeeps
<1> QED
  BY <1>4, <1>5, <1>6, <1>7

(* The new token takes the request's place among the heirs, and joins the  *)
(* request's family or founds one.                                         *)
LEMMA IssueTokensKeeps ==
  ASSUME RotationInv, TypeInv', NEW r \in Request, IssueTokens(r)
  PROVE  RotationInv'
<1> DEFINE g == request[r].grant
<1>0. TypeInv /\ InFlight(r)
  BY DEF RotationInv, IssueTokens, InFlight
<1>1. PICK t \in Token :
        /\ token[t].status = "unissued"
        /\ token' = [token EXCEPT ![t] =
             [status    |-> "active",
              family    |-> IF request[r].family = None THEN t
                            ELSE request[r].family,
              account   |-> request[r].account,
              client    |-> request[r].client,
              usedAt    |-> 0,
              expiresAt |-> now + RefreshTtl]]
        /\ lineage' = [lineage EXCEPT ![t] = request[r].grant]
  BY DEF IssueTokens
<1>2. code' = code /\ now' = now
  BY DEF IssueTokens
<1>3. /\ token'[t].status = "active"
      /\ token'[t].family = IF request[r].family = None THEN t
                            ELSE request[r].family
      /\ token'[t].account = request[r].account
      /\ token'[t].client = request[r].client
      /\ token'[t].usedAt = 0
      /\ \A u \in Token \ {t} : token'[u] = token[u]
      /\ lineage'[t] = request[r].grant
      /\ \A u \in Token \ {t} : lineage'[u] = lineage[u]
  BY <1>0, <1>1 DEF TypeInv, Tokens, History
<1>4. /\ request'[r].pc = "idle"
      /\ \A s \in Request \ {r} : request'[s] = request[s]
  BY <1>0 DEF IssueTokens, Finish, NoRequest, TypeInv, Requests
<1>5. ~Issued(t) /\ ~Spent(t)
  BY <1>1 DEF Issued, Spent
<1>6. \A x : Taken(x) => Taken(x)'
  BY <1>2, <1>3, <1>5 DEF Taken, Spent
<1>7. \A s \in Request : InFlight(s)' => /\ s # r /\ InFlight(s)
                                         /\ request'[s] = request[s]
  BY <1>4 DEF InFlight
<1>8. \A u \in Token \ {t} : Issued(u)' = Issued(u)
  BY <1>3 DEF Issued
<1>9. Origins'
  <2>1. ASSUME NEW u \in Token, Issued(u)' PROVE Taken(lineage[u])'
    <3>1. PICK x : x = lineage'[u]
      OBVIOUS
    <3>2. Taken(x)
      BY <1>0, <1>3, <1>8, <2>1, <3>1 DEF RotationInv, Origins
    <3> QED
      BY <1>6, <3>1, <3>2
  <2>2. ASSUME NEW s \in Request, InFlight(s)' PROVE Taken(request[s].grant)'
    <3>1. PICK x : x = request'[s].grant
      OBVIOUS
    <3>2. Taken(x)
      BY <1>7, <2>2, <3>1 DEF RotationInv, Origins
    <3> QED
      BY <1>6, <3>1, <3>2
  <2> QED
    BY <2>1, <2>2 DEF Origins
<1>10. Firsts'
  <2>1. \A f \in Token : \A a, c : First(f, a, c) => First(f, a, c)'
    BY <1>3, <1>5, <1>8 DEF First
  <2>2. ASSUME NEW u \in Token, Issued(u)'
        PROVE  First(token[u].family, token[u].account, token[u].client)'
    <3>1. PICK f, a, c : /\ f = token'[u].family /\ a = token'[u].account
                         /\ c = token'[u].client
      OBVIOUS
    <3>2. CASE u # t
      <4>1. f \in Token /\ First(f, a, c)
        BY <1>0, <1>3, <1>8, <2>2, <3>1, <3>2, TokenType
           DEF RotationInv, Firsts, CompleteToken, Issued
      <4>2. First(f, a, c)'
        BY <2>1, <4>1
      <4> QED
        BY <3>1, <4>2
    <3>3. CASE u = t /\ request[r].family # None
      <4>1. f \in Token /\ First(f, a, c)
        BY <1>0, <1>3, <3>1, <3>3, RequestType DEF RotationInv, Firsts
      <4>2. First(f, a, c)'
        BY <2>1, <4>1
      <4> QED
        BY <3>1, <4>2
    <3>4. CASE u = t /\ request[r].family = None
      BY <1>3, <3>4 DEF First, Issued
    <3> QED
      BY <3>2, <3>3, <3>4
  <2>3. ASSUME NEW s \in Request, InFlight(s)', (request[s].family # None)'
        PROVE  First(request[s].family, request[s].account,
                     request[s].client)'
    <3>1. PICK f, a, c : /\ f = request'[s].family /\ a = request'[s].account
                         /\ c = request'[s].client
      OBVIOUS
    <3>2. f \in Token /\ First(f, a, c)
      BY <1>0, <1>7, <2>3, <3>1, RequestType DEF RotationInv, Firsts
    <3>3. First(f, a, c)'
      BY <2>1, <3>2
    <3> QED
      BY <3>1, <3>3
  <2> QED
    BY <2>2, <2>3 DEF Firsts
<1>11. UsesPast'
  BY <1>0, <1>2, <1>3 DEF RotationInv, UsesPast, TypeInv, Clock
<1>12. SingleUse'
  <2>1. \A o : Heirs(o)' \subseteq (Heirs(o) \ {r}) \cup {t}
    BY <1>3, <1>7, <1>8, DistinctAssumption DEF Heirs
  <2>2. \A o : t \in Heirs(o)' => r \in Heirs(o)
    BY <1>0, <1>3, DistinctAssumption DEF Heirs
  <2>3. /\ t \notin Request
        /\ GrantOf(t)' = GrantOf(r)
    BY <1>3, DistinctAssumption DEF GrantOf
  <2>4. \A x \in Token \cup Request :
          x # r /\ x # t => GrantOf(x)' = GrantOf(x)
    BY <1>3, <1>4 DEF GrantOf
  <2> SUFFICES ASSUME NEW o \in Token \cup Code, NEW x \in Heirs(o)',
                      NEW y \in Heirs(o)', (GrantOf(x).via # "replay")',
                      (GrantOf(y).via # "replay")'
               PROVE  x = y
    BY DEF SingleUse
  <2>5. PICK v \in Heirs(o) : /\ v = IF x = t THEN r ELSE x
                              /\ GrantOf(v).via # "replay"
    <3>1. CASE x = t
      BY <2>2, <2>3, <3>1
    <3>2. CASE x # t
      <4>1. x \in Heirs(o) /\ x # r /\ x \in Token \cup Request
        BY <2>1, <3>2 DEF Heirs
      <4> QED
        BY <2>4, <3>2, <4>1
    <3> QED
      BY <3>1, <3>2
  <2>6. PICK w \in Heirs(o) : /\ w = IF y = t THEN r ELSE y
                              /\ GrantOf(w).via # "replay"
    <3>1. CASE y = t
      BY <2>2, <2>3, <3>1
    <3>2. CASE y # t
      <4>1. y \in Heirs(o) /\ y # r /\ y \in Token \cup Request
        BY <2>1, <3>2 DEF Heirs
      <4> QED
        BY <2>4, <3>2, <4>1
    <3> QED
      BY <3>1, <3>2
  <2>7. v = w
    BY <2>5, <2>6 DEF RotationInv, SingleUse
  <2>8. (x # t => x # r) /\ (y # t => y # r)
    BY <2>1
  <2> QED
    BY <2>5, <2>6, <2>7, <2>8
<1> QED
  BY <1>9, <1>10, <1>11, <1>12 DEF RotationInv

-----------------------------------------------------------------------------
LEMMA RotationInvInit == Init => RotationInv
<1> SUFFICES ASSUME Init PROVE RotationInv
  OBVIOUS
<1>1. TypeInv
  BY TypeInvInit
<1>2. /\ \A t \in Token : ~Issued(t) /\ token[t].usedAt = 0
      /\ \A r \in Request : ~InFlight(r)
      /\ now = 0
  BY DEF Init, Issued, NoToken, InFlight, NoRequest
<1> QED
  BY <1>1, <1>2 DEF RotationInv, Origins, Firsts, UsesPast, SingleUse, Heirs

LEMMA RotationInvNext ==
  ASSUME RotationInv, [Next]_vars
  PROVE  RotationInv'
<1>1. TypeInv /\ TypeInv'
  BY TypeInvNext DEF RotationInv
<1>2. ASSUME NEW r \in Request, RequestStep(r) PROVE RotationInv'
  <2>1. ASSUME NEW k \in Code, NEW c \in Client, ExchangeCode(r, k, c)
        PROVE  RotationInv'
    BY <1>1, <2>1, ExchangeCodeKeeps
  <2>2. CASE Consume(r)
    BY <1>1, <2>2, ConsumeKeeps
  <2>3. CASE Reread(r)
    BY <1>1, <2>3, RereadKeeps
  <2>4. CASE IssueTokens(r)
    BY <1>1, <2>4, IssueTokensKeeps
  <2>5. CASE \/ \E a \in Account, c \in Client : Authorize(r, a, c)
             \/ CreateCode(r)
             \/ \E t \in Token, c \in Client : StartRefresh(r, t, c)
             \/ CheckHolder(r)
             \/ ConsumeMisses(r)
             \/ RevokeFamily(r)
             \/ FindAccount(r)
             \/ RequestCrash(r)
    BY <1>1, <2>5, QuietRequestStep, QuietKeeps
  <2> QED
    BY <1>2, <2>1, <2>2, <2>3, <2>4, <2>5 DEF RequestStep
<1>3. CASE StoreStep \/ (\E h \in AdminCall : AdminStep(h)) \/ UNCHANGED vars
  BY <1>1, <1>3, QuietOtherStep, QuietKeeps
<1> QED
  BY <1>2, <1>3 DEF Next

THEOREM RotationInvariant == Spec => []RotationInv
<1> QED
  BY RotationInvInit, RotationInvNext, PTL DEF Spec

(* However many requests present one refresh token or one code at once, at *)
(* most one of them is not a retry within the grace window.                *)
THEOREM SingleUseHolds == Spec => []SingleUse
<1>1. RotationInv => SingleUse
  BY DEF RotationInv
<1> QED
  BY <1>1, RotationInvariant, PTL

(* All honoured presentations of a token lie within one grace window of    *)
(* each other, whatever chain of retries there is.                         *)
THEOREM ReplayWindowHolds == Spec => []ReplayWindow
<1>1. RotationInv => ReplayWindow
  <2> SUFFICES ASSUME RotationInv, NEW o \in Token, NEW x \in Heirs(o),
                      NEW y \in Heirs(o)
               PROVE  GrantOf(x).at <= GrantOf(y).at + Grace
    BY DEF ReplayWindow
  <2>1. /\ Taken(GrantOf(x)) /\ GrantOf(x).origin = o
        /\ Taken(GrantOf(y)) /\ GrantOf(y).origin = o
    BY DistinctAssumption DEF RotationInv, Origins, Heirs, GrantOf
  <2>2. GrantOf(x) \in Lineage /\ GrantOf(y) \in Lineage
    BY RequestType DEF RotationInv, TypeInv, History, Heirs, GrantOf
  <2>3. /\ GrantOf(x).at \in Nat /\ GrantOf(y).at \in Nat
        /\ token[o].usedAt \in Nat /\ Grace \in Nat
    BY <2>2, TokenType, DurationAssumption DEF RotationInv, Lineage
  <2>4. GrantOf(x).via # "code" /\ GrantOf(y).via # "code"
    BY <2>1, DistinctAssumption DEF Taken
  <2>5. /\ GrantOf(x).at <= token[o].usedAt + Grace
        /\ token[o].usedAt <= GrantOf(y).at
    BY <2>1, <2>4 DEF Taken
  <2> QED
    BY <2>3, <2>5
<1> QED
  BY <1>1, RotationInvariant, PTL

(* Rotation never carries a family over to another account or client.      *)
THEOREM FamilyHomogeneousHolds == Spec => []FamilyHomogeneous
<1>1. RotationInv => FamilyHomogeneous
  BY NoneAssumption, TokenType, RequestType
     DEF RotationInv, Firsts, First, FamilyHomogeneous, CompleteToken, Issued
<1> QED
  BY <1>1, RotationInvariant, PTL

-----------------------------------------------------------------------------
(* Forks.  Live and Replays are the two sets of ForkOnlyByReplay.          *)
Live(f) == {t \in FamilyRows(f) : token[t].status = "active"}
             \cup {r \in Request : Holds(r, f)}

Replays(f) == {t \in FamilyRows(f) : lineage[t].via = "replay"}
                \cup {r \in Request : Holds(r, f) /\ request[r].grant.via = "replay"}

(* More replays than live tokens but one: what ForkOnlyByReplay says, of   *)
(* finite sets.                                                            *)
Outnumbers(R, L) ==
  /\ IsFiniteSet(L)
  /\ IsFiniteSet(R)
  /\ Cardinality(L) <= 1 + Cardinality(R)

ForkInv ==
  /\ \A t \in Token : ~Issued(t) => token[t].family = None
  /\ \A f \in Token : Outnumbers(Replays(f), Live(f))

LEMMA CountShrinks ==
  ASSUME NEW R, NEW L, NEW M, Outnumbers(R, L), M \subseteq L
  PROVE  Outnumbers(R, M)
<1>1. IsFiniteSet(M) /\ Cardinality(M) <= Cardinality(L)
  BY FS_Subset DEF Outnumbers
<1>2. Cardinality(M) \in Nat /\ Cardinality(L) \in Nat /\ Cardinality(R) \in Nat
  BY <1>1, FS_CardinalityType DEF Outnumbers
<1> QED
  BY <1>1, <1>2 DEF Outnumbers

(* One that leaves both, or is no replay.                                  *)
LEMMA CountDrops ==
  ASSUME NEW R, NEW L, NEW M, NEW x, Outnumbers(R, L), M \subseteq L \ {x},
         x \in R => x \in L
  PROVE  Outnumbers(R \ {x}, M)
<1>1. CASE x \notin R
  <2>1. R \ {x} = R
    BY <1>1
  <2> QED
    BY <2>1, CountShrinks
<1>2. CASE x \in R
  <2>1. /\ IsFiniteSet(R \ {x}) /\ Cardinality(R \ {x}) = Cardinality(R) - 1
        /\ IsFiniteSet(L \ {x}) /\ Cardinality(L \ {x}) = Cardinality(L) - 1
    BY <1>2, FS_RemoveElement DEF Outnumbers
  <2>2. Cardinality(L) \in Nat /\ Cardinality(R) \in Nat
    BY FS_CardinalityType DEF Outnumbers
  <2>3. Outnumbers(R \ {x}, L \ {x})
    BY <2>1, <2>2 DEF Outnumbers
  <2> QED
    BY <2>3, CountShrinks
<1> QED
  BY <1>1, <1>2

(* One that joins both.                                                    *)
LEMMA CountJoins ==
  ASSUME NEW R, NEW L, NEW M, NEW x, Outnumbers(R, L), M \subseteq L \cup {x},
         x \notin R
  PROVE  Outnumbers(R \cup {x}, M)
<1>1. /\ IsFiniteSet(R \cup {x}) /\ Cardinality(R \cup {x}) = Cardinality(R) + 1
      /\ IsFiniteSet(L \cup {x}) /\ Cardinality(L \cup {x}) <= Cardinality(L) + 1
  <2>1. IsFiniteSet(L) /\ IsFiniteSet(R) /\ Cardinality(L) \in Nat
    BY FS_CardinalityType DEF Outnumbers
  <2>2. /\ IsFiniteSet(L \cup {x})
        /\ Cardinality(L \cup {x}) = IF x \in L THEN Cardinality(L)
                                     ELSE Cardinality(L) + 1
    BY <2>1, FS_AddElement
  <2>3. IsFiniteSet(R \cup {x}) /\ Cardinality(R \cup {x}) = Cardinality(R) + 1
    BY <2>1, FS_AddElement
  <2> QED
    BY <2>1, <2>2, <2>3
<1>2. /\ Cardinality(L) \in Nat /\ Cardinality(R) \in Nat
      /\ Cardinality(L \cup {x}) \in Nat
  BY <1>1, FS_CardinalityType DEF Outnumbers
<1>3. Outnumbers(R \cup {x}, L \cup {x})
  BY <1>1, <1>2 DEF Outnumbers
<1> QED
  BY <1>3, CountShrinks

(* One that takes the place of another.                                    *)
LEMMA CountSwaps ==
  ASSUME NEW R, NEW L, NEW x, NEW y, Outnumbers(R, L), x \in L
  PROVE  Outnumbers(R, (L \ {x}) \cup {y})
<1>1. IsFiniteSet(L \ {x}) /\ Cardinality(L \ {x}) = Cardinality(L) - 1
  BY FS_RemoveElement DEF Outnumbers
<1>2. Cardinality(L) \in Nat /\ Cardinality(L \ {x}) \in Nat
  BY <1>1, FS_CardinalityType DEF Outnumbers
<1>3. /\ IsFiniteSet((L \ {x}) \cup {y})
      /\ Cardinality((L \ {x}) \cup {y}) <= Cardinality(L)
  <2>1. PICK N : N = L \ {x}
    OBVIOUS
  <2>2. /\ IsFiniteSet(N \cup {y})
        /\ Cardinality(N \cup {y}) = IF y \in N THEN Cardinality(N)
                                     ELSE Cardinality(N) + 1
    BY <1>1, <2>1, FS_AddElement
  <2> QED
    BY <1>1, <1>2, <2>1, <2>2
<1>4. Cardinality((L \ {x}) \cup {y}) \in Nat /\ Cardinality(R) \in Nat
  BY <1>3, FS_CardinalityType DEF Outnumbers
<1> QED
  BY <1>2, <1>3, <1>4 DEF Outnumbers

(* A quiet step of one request, which may end it.                          *)
LEMMA QuietForks ==
  ASSUME Quiet, ForkInv, NEW r,
         \A t \in Token : token'[t].status = "active" => token[t].status = "active",
         \A s \in Request \ {r} : request'[s] = request[s]
  PROVE  ForkInv'
<1>0. \A t \in Token : ~Issued(t)' => token'[t].family = None
  BY DEF Quiet, SameRow, ForkInv
<1> SUFFICES ASSUME NEW f \in Token PROVE Outnumbers(Replays(f)', Live(f)')
  BY <1>0 DEF ForkInv, Outnumbers
<1>1. FamilyRows(f)' = FamilyRows(f) /\ lineage' = lineage
  BY DEF Quiet, SameRow, FamilyRows
<1>2. Outnumbers(Replays(f), Live(f))
  BY DEF ForkInv
<1>3. \A s \in Request \ {r} : Holds(s, f)' <=> Holds(s, f)
  BY DEF Holds
<1>4. \A t \in FamilyRows(f) : t \in Token
  BY DEF FamilyRows
<1>5. CASE r \in Request /\ Holds(r, f)'
  <2>1. Holds(r, f) /\ request'[r].grant = request[r].grant
    BY <1>5 DEF Quiet, SameFlight, InFlight, Holds
  <2>2. Replays(f)' = Replays(f)
    BY <1>1, <1>3, <1>5, <2>1 DEF Replays
  <2>3. Live(f)' \subseteq Live(f)
    BY <1>1, <1>3, <1>4, <1>5, <2>1 DEF Live
  <2> QED
    BY <1>2, <2>2, <2>3, CountShrinks
<1>6. CASE r \in Request /\ ~Holds(r, f)'
  <2>1. r \notin Token
    BY <1>6, DistinctAssumption
  <2>2. Replays(f)' = Replays(f) \ {r}
    BY <1>1, <1>3, <1>4, <1>6, <2>1 DEF Replays
  <2>3. Live(f)' \subseteq Live(f) \ {r}
    BY <1>1, <1>3, <1>4, <1>6, <2>1 DEF Live
  <2>4. r \in Replays(f) => r \in Live(f)
    BY <1>4, <2>1 DEF Replays, Live
  <2> QED
    BY <1>2, <2>2, <2>3, <2>4, CountDrops
<1>7. CASE r \notin Request
  <2>1. Replays(f)' = Replays(f)
    BY <1>1, <1>3, <1>7 DEF Replays
  <2>2. Live(f)' \subseteq Live(f)
    BY <1>1, <1>3, <1>4, <1>7 DEF Live
  <2> QED
    BY <1>2, <2>1, <2>2, CountShrinks
<1> QED
  BY <1>5, <1>6, <1>7

LEMMA RevokeLowers ==
  ASSUME TypeInv, NEW rows, Revoke(rows)
  PROVE  \A t \in Token : token'[t].status = "active" => token[t].status = "active"
BY DEF TypeInv, Tokens, TokenRow, Revoke

LEMMA QuietRequestLowers ==
  ASSUME TypeInv, NEW r \in Request,
         \/ \E a \in Account, c \in Client : Authorize(r, a, c)
         \/ CreateCode(r)
         \/ \E t \in Token, c \in Client : StartRefresh(r, t, c)
         \/ CheckHolder(r)
         \/ ConsumeMisses(r)
         \/ RevokeFamily(r)
         \/ FindAccount(r)
         \/ RequestCrash(r)
  PROVE  /\ \A t \in Token :
              token'[t].status = "active" => token[t].status = "active"
         /\ \A s \in Request \ {r} : request'[s] = request[s]
<1>1. \A s \in Request \ {r} : request'[s] = request[s]
  BY DEF TypeInv, Requests, Authorize, CreateCode, StartRefresh, CheckHolder,
         ConsumeMisses, RevokeFamily, FindAccount, RequestCrash, Finish,
         GotoRequest
<1>2. UNCHANGED token \/ RevokeFamily(r)
  BY DEF Authorize, CreateCode, StartRefresh, CheckHolder, ConsumeMisses,
         FindAccount, RequestCrash
<1> QED
  BY <1>1, <1>2, RevokeLowers DEF RevokeFamily

LEMMA QuietOtherLowers ==
  ASSUME TypeInv,
         \/ StoreStep
         \/ \E h \in AdminCall : AdminStep(h)
         \/ UNCHANGED vars
  PROVE  /\ \A t \in Token :
              token'[t].status = "active" => token[t].status = "active"
         /\ UNCHANGED request
<1>1. UNCHANGED request
  BY DEF StoreStep, RevokeRefreshToken, CleanupExpiredTokens, Tick, AdminStep,
         ResetRevokes, DisableRevokes, UpdateCommits, CallCrashes, vars,
         tokenVars
<1>2. \/ UNCHANGED token
      \/ CleanupExpiredTokens
      \/ \E rows : Revoke(rows)
  BY DEF StoreStep, RevokeRefreshToken, Tick, AdminStep, ResetRevokes,
         DisableRevokes, UpdateCommits, CallCrashes, vars, tokenVars
<1>3. CleanupExpiredTokens
        => \A t \in Token :
             token'[t].status = "active" => token[t].status = "active"
  BY DEF CleanupExpiredTokens, TypeInv, Tokens, TokenRow
<1> QED
  BY <1>1, <1>2, <1>3, RevokeLowers

(* A request honours a presentation: it takes the place of the token that  *)
(* it spends, or joins as a replay.                                        *)
LEMMA HonourForks ==
  ASSUME TypeInv, ForkInv, NEW r \in Request, ~InFlight(r), NEW t \in Token,
         NEW q, request' = [request EXCEPT ![r] = q],
         q.pc = "findAccount", q.family = token[t].family,
         lineage' = lineage,
         \A u \in Token : /\ token'[u].family = token[u].family
                          /\ Issued(u)' <=> Issued(u)
                          /\ token'[u].status = "active"
                               => token[u].status = "active",
         \/ q.grant.via = "replay"
         \/ /\ q.grant.via # "replay"
            /\ token[t].status = "active" /\ token'[t].status # "active"
  PROVE  ForkInv'
<1>0. \A u \in Token : ~Issued(u)' => token'[u].family = None
  BY DEF ForkInv
<1> SUFFICES ASSUME NEW f \in Token PROVE Outnumbers(Replays(f)', Live(f)')
  BY <1>0 DEF ForkInv, Outnumbers
<1>1. /\ FamilyRows(f)' = FamilyRows(f)
      /\ \A u \in FamilyRows(f) : u \in Token
  BY DEF FamilyRows
<1>2. Outnumbers(Replays(f), Live(f))
  BY DEF ForkInv
<1>3. request'[r] = q /\ \A s \in Request \ {r} : request'[s] = request[s]
  BY DEF TypeInv, Requests
<1>4. /\ \A s \in Request \ {r} : Holds(s, f)' <=> Holds(s, f)
      /\ ~Holds(r, f)
      /\ Holds(r, f)' <=> token[t].family = f
  BY <1>3 DEF Holds, InFlight
<1>5. r \notin Token /\ t \notin Request
  BY DistinctAssumption
<1>6. r \notin Replays(f)
  BY <1>1, <1>4, <1>5 DEF Replays
<1>7. CASE token[t].family # f
  <2>1. Replays(f)' = Replays(f)
    BY <1>1, <1>3, <1>4, <1>7 DEF Replays
  <2>2. Live(f)' \subseteq Live(f)
    BY <1>1, <1>4, <1>7 DEF Live
  <2> QED
    BY <1>2, <2>1, <2>2, CountShrinks
<1>8. CASE token[t].family = f /\ q.grant.via = "replay"
  <2>1. Replays(f)' = Replays(f) \cup {r}
    BY <1>1, <1>3, <1>4, <1>8 DEF Replays
  <2>2. Live(f)' \subseteq Live(f) \cup {r}
    BY <1>1, <1>4, <1>8 DEF Live
  <2> QED
    BY <1>2, <1>6, <2>1, <2>2, CountJoins
<1>9. CASE /\ token[t].family = f /\ q.grant.via # "replay"
           /\ token[t].status = "active" /\ token'[t].status # "active"
  <2>1. Replays(f)' = Replays(f)
    BY <1>1, <1>3, <1>4, <1>9 DEF Replays
  <2>2. t \in Live(f) /\ t \notin Live(f)'
    BY <1>1, <1>5, <1>9 DEF Live, FamilyRows
  <2>3. Live(f)' \subseteq (Live(f) \ {t}) \cup {r}
    BY <1>1, <1>4, <1>9, <2>2 DEF Live
  <2>4. Outnumbers(Replays(f), Live(f)')
    <3>1. Outnumbers(Replays(f), (Live(f) \ {t}) \cup {r})
      BY <1>2, <2>2, CountSwaps
    <3> QED
      BY <2>3, <3>1, CountShrinks
  <2> QED
    BY <2>1, <2>4
<1> QED
  BY <1>7, <1>8, <1>9

(* The new token takes the place of the request, among the replays too, or *)
(* founds a family of its own.                                             *)
LEMMA IssueForks ==
  ASSUME RotationInv, ForkInv, NEW r \in Request, IssueTokens(r)
  PROVE  ForkInv'
<1>0. TypeInv /\ InFlight(r)
  BY DEF RotationInv, IssueTokens, InFlight
<1>1. PICK t \in Token :
        /\ token[t].status = "unissued"
        /\ token' = [token EXCEPT ![t] =
             [status    |-> "active",
              family    |-> IF request[r].family = None THEN t
                            ELSE request[r].family,
              account   |-> request[r].account,
              client    |-> request[r].client,
              usedAt    |-> 0,
              expiresAt |-> now + RefreshTtl]]
        /\ lineage' = [lineage EXCEPT ![t] = request[r].grant]
  BY DEF IssueTokens
<1>2. /\ token'[t].status = "active"
      /\ token'[t].family = IF request[r].family = None THEN t
                            ELSE request[r].family
      /\ \A u \in Token \ {t} : token'[u] = token[u]
      /\ lineage'[t] = request[r].grant
      /\ \A u \in Token \ {t} : lineage'[u] = lineage[u]
  BY <1>0, <1>1 DEF TypeInv, Tokens, History
<1>3. /\ request'[r].pc = "idle"
      /\ \A s \in Request \ {r} : request'[s] = request[s]
  BY <1>0 DEF IssueTokens, Finish, NoRequest, TypeInv, Requests
<1>4. /\ ~Issued(t) /\ token[t].family = None /\ None \notin Token
      /\ r \notin Token /\ t \notin Request
  BY <1>1, NoneAssumption, DistinctAssumption DEF ForkInv, Issued
<1>12. \A u \in Token : ~Issued(u)' => token'[u].family = None
  BY <1>2 DEF ForkInv, Issued
<1> SUFFICES ASSUME NEW f \in Token PROVE Outnumbers(Replays(f)', Live(f)')
  BY <1>12 DEF ForkInv, Outnumbers
<1>5. Outnumbers(Replays(f), Live(f))
  BY DEF ForkInv
<1>6. /\ \A s \in Request \ {r} : Holds(s, f)' <=> Holds(s, f)
      /\ ~Holds(r, f)'
      /\ Holds(r, f) <=> request[r].family = f
  BY <1>0, <1>3 DEF Holds, InFlight
<1>7. /\ t \notin FamilyRows(f)
      /\ FamilyRows(f)' = IF token'[t].family = f THEN FamilyRows(f) \cup {t}
                          ELSE FamilyRows(f)
      /\ \A u \in FamilyRows(f) : u \in Token
  BY <1>2, <1>4 DEF FamilyRows
<1>8. t \notin Replays(f) /\ t \notin Live(f)
  BY <1>4, <1>7 DEF Replays, Live
<1>9. CASE token'[t].family # f
  <2>1. ~Holds(r, f)
    BY <1>2, <1>4, <1>6, <1>9
  <2>2. Replays(f)' = Replays(f)
    BY <1>2, <1>3, <1>6, <1>7, <1>9, <2>1 DEF Replays
  <2>3. Live(f)' \subseteq Live(f)
    BY <1>2, <1>6, <1>7, <1>9, <2>1 DEF Live
  <2> QED
    BY <1>5, <2>2, <2>3, CountShrinks
<1>10. CASE token'[t].family = f /\ request[r].family = f
  <2>1. r \in Live(f)
    BY <1>6, <1>10 DEF Live
  <2>2. Live(f)' \subseteq (Live(f) \ {r}) \cup {t}
    BY <1>2, <1>4, <1>6, <1>7, <1>10 DEF Live
  <2>3. CASE request[r].grant.via = "replay"
    <3>1. Replays(f)' = (Replays(f) \ {r}) \cup {t}
      BY <1>2, <1>3, <1>4, <1>6, <1>7, <1>10, <2>3 DEF Replays
    <3>2. Outnumbers(Replays(f) \ {r}, Live(f) \ {r})
      BY <1>5, <2>1, CountDrops
    <3> QED
      BY <1>8, <2>2, <3>1, <3>2, CountJoins
  <2>4. CASE request[r].grant.via # "replay"
    <3>1. Replays(f)' = Replays(f)
      BY <1>2, <1>3, <1>4, <1>6, <1>7, <1>10, <2>4 DEF Replays
    <3>2. Outnumbers(Replays(f), (Live(f) \ {r}) \cup {t})
      BY <1>5, <2>1, CountSwaps
    <3> QED
      BY <2>2, <3>1, <3>2, CountShrinks
  <2> QED
    BY <2>3, <2>4
<1>11. CASE token'[t].family = f /\ request[r].family # f
  <2>1. request[r].family = None /\ f = t
    BY <1>2, <1>11
  <2>2. FamilyRows(f) = {}
    <3>1. \A u \in Token : token[u].family = t => ~Issued(u)
      BY <1>4 DEF RotationInv, Firsts, First
    <3>2. \A u \in Token : ~Issued(u) => token[u].family = None
      BY DEF ForkInv
    <3> QED
      BY <1>4, <2>1, <3>1, <3>2 DEF FamilyRows
  <2>3. \A s \in Request : ~Holds(s, f)
    BY <1>4, <2>1 DEF RotationInv, Firsts, First, Holds, InFlight
  <2>4. Live(f)' \subseteq {t} /\ Live(f) = {} /\ Replays(f) = {}
    BY <1>6, <1>7, <2>2, <2>3 DEF Live, Replays
  <2>5. Replays(f)' \subseteq {t}
    BY <1>6, <1>7, <2>2, <2>3 DEF Replays
  <2>6. Outnumbers(Replays(f)', {t})
    <3>1. IsFiniteSet({t}) /\ Cardinality({t}) = 1
      BY FS_Singleton
    <3>2. IsFiniteSet(Replays(f)') /\ Cardinality(Replays(f)') \in Nat
      BY <2>5, <3>1, FS_Subset, FS_CardinalityType
    <3> QED
      BY <3>1, <3>2 DEF Outnumbers
  <2> QED
    BY <2>4, <2>6, CountShrinks
<1> QED
  BY <1>9, <1>10, <1>11

LEMMA ForkInvNext ==
  ASSUME RotationInv, ForkInv, [Next]_vars
  PROVE  ForkInv'
<1>1. TypeInv /\ TypeInv' /\ now \in Nat
  BY TypeInvNext DEF RotationInv, TypeInv, Clock
<1>2. ASSUME NEW r \in Request, NEW k \in Code, NEW c \in Client,
             ExchangeCode(r, k, c)
      PROVE  ForkInv'
  <2> DEFINE q == [pc |-> "findAccount", client |-> c, token |-> None,
                   account |-> code[k].account, family |-> None,
                   grant |-> [origin |-> k, via |-> "code", at |-> now]]
  <2>1. /\ UNCHANGED <<token, lineage>>
        /\ request' = request \/ request' = [request EXCEPT ![r] = q]
        /\ request[r].pc = "idle"
    BY <1>2 DEF ExchangeCode, historyVars
  <2>2. q.family = None
    OBVIOUS
  <2> HIDE DEF q
  <2>3. \A f \in Token, s \in Request :
          /\ Holds(s, f)' <=> Holds(s, f)
          /\ Holds(s, f) => request'[s] = request[s]
    BY <1>1, <2>1, <2>2, NoneAssumption DEF TypeInv, Requests, Holds
  <2>4. \A f \in Token : Live(f)' = Live(f) /\ Replays(f)' = Replays(f)
    BY <2>1, <2>3 DEF Live, Replays, FamilyRows
  <2> QED
    BY <2>1, <2>4 DEF ForkInv, Outnumbers, Issued
<1>3. ASSUME NEW r \in Request, Consume(r) PROVE ForkInv'
  <2>1. PICK t \in Token : t = request[r].token
    BY <1>1, <1>3, RequestType DEF Consume, CompleteRequest
  <2>2. /\ token[t].status = "active" /\ request[r].pc = "consume"
        /\ token' = [token EXCEPT ![t].status = "used", ![t].usedAt = now]
        /\ lineage' = lineage /\ code' = code /\ now' = now
    BY <1>3, <2>1 DEF Consume, Consumable, historyVars
  <2>3. /\ token'[t].status = "used" /\ token'[t].usedAt = now
        /\ token'[t].family = token[t].family
        /\ token'[t].account = token[t].account
        /\ token'[t].client = token[t].client
        /\ \A u \in Token \ {t} : token'[u] = token[u]
    BY <1>1, <2>2 DEF TypeInv, Tokens, TokenRow
  <2>4. \A u \in Token : /\ SameRow(u)
                         /\ token'[u].status = "active"
                              => token[u].status = "active"
    BY <2>2, <2>3 DEF SameRow, Issued, Spent
  <2>5. CASE Accept(r, t, "rotation") /\ token[t].client = request[r].client
    <3>1. PICK q : q = [request[r] EXCEPT
                          !.pc = "findAccount",
                          !.account = token[t].account,
                          !.family = token[t].family,
                          !.grant = [origin |-> t, via |-> "rotation", at |-> now]]
      OBVIOUS
    <3>2. /\ q.pc = "findAccount" /\ q.family = token[t].family
          /\ q.grant = [origin |-> t, via |-> "rotation", at |-> now]
      BY <1>1, <3>1, RequestType DEF RequestState
    <3>3. request' = [request EXCEPT ![r] = q]
      BY <2>5, <3>1 DEF Accept
    <3>4. ~InFlight(r) /\ q.grant.via # "replay"
      BY <2>2, <3>2 DEF InFlight
    <3>5. \A u \in Token : /\ token'[u].family = token[u].family
                           /\ Issued(u)' <=> Issued(u)
      BY <2>4 DEF SameRow
    <3> QED
      BY <1>1, <2>2, <2>3, <2>4, <3>2, <3>3, <3>4, <3>5, HonourForks
  <2>6. CASE Finish(r)
    <3>1. Quiet
      BY <1>1, <2>2, <2>4, <2>6, FinishQuiet DEF Quiet
    <3>2. \A s \in Request \ {r} : request'[s] = request[s]
      BY <1>1, <2>6 DEF Finish, TypeInv, Requests
    <3> QED
      BY <2>4, <3>1, <3>2, QuietForks
  <2> QED
    BY <1>3, <2>1, <2>5, <2>6 DEF Consume, Accept
<1>4. ASSUME NEW r \in Request, Reread(r) PROVE ForkInv'
  <2>1. PICK t \in Token : t = request[r].token
    BY <1>1, <1>4, RequestType DEF Reread, CompleteRequest
  <2>2. /\ token' = token /\ lineage' = lineage /\ code' = code /\ now' = now
        /\ request[r].pc = "reread"
    BY <1>4 DEF Reread
  <2>3. CASE Accept(r, t, "replay") /\ token[t].client = request[r].client
    <3>1. PICK q : q = [request[r] EXCEPT
                          !.pc = "findAccount",
                          !.account = token[t].account,
                          !.family = token[t].family,
                          !.grant = [origin |-> t, via |-> "replay", at |-> now]]
      OBVIOUS
    <3>2. /\ q.pc = "findAccount" /\ q.family = token[t].family
          /\ q.grant = [origin |-> t, via |-> "replay", at |-> now]
      BY <1>1, <3>1, RequestType DEF RequestState
    <3>3. request' = [request EXCEPT ![r] = q]
      BY <2>3, <3>1 DEF Accept
    <3>4. ~InFlight(r) /\ q.grant.via = "replay"
      BY <2>2, <3>2 DEF InFlight
    <3>5. \A u \in Token : /\ token'[u].family = token[u].family
                           /\ Issued(u)' <=> Issued(u)
                           /\ token'[u].status = "active"
                                => token[u].status = "active"
      BY <2>2 DEF Issued
    <3> QED
      BY <1>1, <2>2, <3>2, <3>3, <3>4, <3>5, HonourForks
  <2>4. CASE \/ Finish(r)
             \/ request' = [request EXCEPT ![r].pc = "revokeFamily",
                                           ![r].family = token[t].family]
    <3>1. /\ \A s \in Request \ {r} : request'[s] = request[s]
          /\ request'[r].pc \in {"idle", "revokeFamily"}
      BY <1>1, <2>4 DEF Finish, NoRequest, TypeInv, Requests, RequestState
    <3>2. \A s \in Request : SameFlight(s)
      BY <3>1 DEF SameFlight, InFlight
    <3>3. Quiet
      BY <1>1, <2>2, <3>2, SameRows DEF Quiet
    <3> QED
      BY <2>2, <3>1, <3>3, QuietForks
  <2> QED
    BY <1>4, <2>1, <2>3, <2>4 DEF Reread, Accept
<1>5. ASSUME NEW r \in Request,
             \/ \E a \in Account, c \in Client : Authorize(r, a, c)
             \/ CreateCode(r)
             \/ \E t \in Token, c \in Client : StartRefresh(r, t, c)
             \/ CheckHolder(r)
             \/ ConsumeMisses(r)
             \/ RevokeFamily(r)
             \/ FindAccount(r)
             \/ RequestCrash(r)
      PROVE  ForkInv'
  <2>1. Quiet
    BY <1>1, <1>5, QuietRequestStep
  <2>2. /\ \A t \in Token :
             token'[t].status = "active" => token[t].status = "active"
        /\ \A s \in Request \ {r} : request'[s] = request[s]
    BY <1>1, <1>5, QuietRequestLowers
  <2> QED
    BY <2>1, <2>2, QuietForks
<1>6. CASE StoreStep \/ (\E h \in AdminCall : AdminStep(h)) \/ UNCHANGED vars
  <2>1. Quiet
    BY <1>1, <1>6, QuietOtherStep
  <2>2. /\ \A t \in Token :
             token'[t].status = "active" => token[t].status = "active"
        /\ \A s \in Request \ {None} : request'[s] = request[s]
    BY <1>1, <1>6, QuietOtherLowers
  <2> QED
    BY <2>1, <2>2, QuietForks
<1>7. ASSUME NEW r \in Request, RequestStep(r) PROVE ForkInv'
  BY <1>2, <1>3, <1>4, <1>5, <1>7, IssueForks DEF RequestStep
<1> QED
  BY <1>6, <1>7 DEF Next

(* A family has no more usable tokens, and requests about to add one, than *)
(* one and the retries it honoured, with any number of requests at once.   *)
THEOREM ForksComeFromReplays == Spec => []ForkOnlyByReplay
<1>1. Init => ForkInv
  <2> SUFFICES ASSUME Init PROVE ForkInv
    OBVIOUS
  <2>1. /\ \A t \in Token : token[t].family = None /\ None \notin Token
        /\ \A r \in Request : request[r].pc = "idle"
    BY NoneAssumption DEF Init, NoToken, NoRequest
  <2>2. \A f \in Token : Live(f) = {} /\ Replays(f) = {}
    BY <2>1 DEF Live, Replays, FamilyRows, Holds
  <2>3. Outnumbers({}, {})
    BY FS_EmptySet DEF Outnumbers
  <2> QED
    BY <2>1, <2>2, <2>3 DEF ForkInv
<1>2. ForkInv => ForkOnlyByReplay
  BY DEF ForkInv, Outnumbers, ForkOnlyByReplay, Live, Replays
<1> QED
  BY <1>1, <1>2, RotationInvInit, RotationInvNext, ForkInvNext, PTL DEF Spec

-----------------------------------------------------------------------------
(***************************************************************************)
(* Revocation: OnlyStraddlersSurvive holds however many requests, account  *)
(* handlers and token statements overlap.                                  *)
(***************************************************************************)

Gone(t) == token[t].status \in {"revoked", "deleted"}

Blank == \A t \in Token : ~Issued(t) => token[t] = NoToken

(* Only families that exist are about to be revoked, being revoked, or     *)
(* have been.                                                              *)
Named ==
  /\ \A r \in Request :
       request[r].pc = "revokeFamily" => Issued(request[r].family)
  /\ \A h \in AdminCall : \A f \in doomed[h] : Issued(f)
  /\ \A f \in Token : killed[f] # {} => Issued(f)

(* Between a disabling transaction's UPDATE of token_records and its       *)
(* commit, every row of the account's families is locked by it or gone     *)
(* already, and no request holds one of the families: so none can be used. *)
Dying ==
  \A h \in AdminCall : \A f \in doomed[h] : f \notin straddled =>
    /\ \A t \in FamilyRows(f) : t \in pending[h] \/ Gone(t)
    /\ \A r \in Request : ~Holds(r, f)

RevocationInv ==
  RotationInv /\ Blank /\ Named /\ Dying /\ OnlyStraddlersSurvive

(* No revocation of the family is under way or done; or it has straddled.  *)
Exempt(f) ==
  \/ f \in straddled
  \/ killed[f] = {} /\ \A h \in AdminCall : f \notin doomed[h]

-----------------------------------------------------------------------------
(* The steps that revoke nothing by family may take a token out of use but *)
(* not bring it back, and may add rows and holders to exempt families only.*)
CalmRow(t) ==
  \/ /\ token'[t].family = token[t].family
     /\ Issued(t)' <=> Issued(t)
     /\ Gone(t) => Gone(t)'
     /\ ~Issued(t) => token'[t] = token[t]
  \/ ~Issued(t) /\ Issued(t)' /\ Exempt(token[t].family)'

CalmRequest(r) ==
  /\ \A f \in Token : Holds(r, f)' => Holds(r, f) \/ Exempt(f)'
  /\ request'[r].pc = "revokeFamily" => Issued(request'[r].family)

Calm ==
  /\ killed' = killed
  /\ doomed' = doomed
  /\ pending' = pending
  /\ straddled \subseteq straddled'
  /\ \A t \in Token : CalmRow(t)
  /\ \A r \in Request : CalmRequest(r)

LEMMA CalmKeeps ==
  ASSUME RevocationInv, RotationInv', Calm
  PROVE  RevocationInv'
<1>0. TypeInv /\ TypeInv'
  BY DEF RevocationInv, RotationInv
<1>1. \A t \in Token : Issued(t) => Issued(t)'
  BY DEF Calm, CalmRow
<1>2. Blank'
  BY DEF RevocationInv, Blank, Calm, CalmRow
<1>3. Named'
  <2>1. ASSUME NEW r \in Request, (request[r].pc = "revokeFamily")'
        PROVE  Issued(request[r].family)'
    <3>1. PICK f : f = request'[r].family
      OBVIOUS
    <3>2. f \in Token /\ Issued(f)
      BY <1>0, <2>1, <3>1
         DEF Calm, CalmRequest, TypeInv, Requests, CompleteRequest
    <3>3. Issued(f)'
      BY <1>1, <3>2
    <3> QED
      BY <3>1, <3>3
  <2>2. \A h \in AdminCall : \A f \in doomed[h]' : Issued(f)'
    BY <1>0, <1>1 DEF Calm, RevocationInv, Named, TypeInv, History
  <2>3. \A f \in Token : (killed[f] # {})' => Issued(f)'
    BY <1>1 DEF Calm, RevocationInv, Named
  <2> QED
    BY <2>1, <2>2, <2>3 DEF Named
<1>4. ASSUME NEW f \in Token, NEW t \in FamilyRows(f)', ~Exempt(f)'
      PROVE  t \in FamilyRows(f) /\ (Gone(t) => Gone(t)')
  <2>1. t \in Token /\ token'[t].family = f
    BY <1>4 DEF FamilyRows
  <2>2. ~Exempt(token[t].family)'
    BY <1>4, <2>1
  <2> QED
    BY <2>1, <2>2 DEF Calm, CalmRow, FamilyRows
<1>5. ASSUME NEW f \in Token, NEW r \in Request, Holds(r, f)', ~Exempt(f)'
      PROVE  Holds(r, f)
  BY <1>5 DEF Calm, CalmRequest
<1>6. Dying'
  <2> SUFFICES ASSUME NEW h \in AdminCall, NEW f \in doomed[h]',
                      f \notin straddled'
               PROVE  /\ \A t \in FamilyRows(f)' : t \in pending[h]' \/ Gone(t)'
                      /\ \A r \in Request : ~Holds(r, f)'
    BY DEF Dying
  <2>1. f \in Token /\ f \in doomed[h] /\ f \notin straddled /\ ~Exempt(f)'
    BY <1>0 DEF Calm, Exempt, TypeInv, History
  <2> QED
    BY <1>4, <1>5, <2>1 DEF Calm, RevocationInv, Dying
<1>7. OnlyStraddlersSurvive'
  <2> SUFFICES ASSUME NEW f \in Token, killed'[f] # {}, f \notin straddled'
               PROVE  /\ \A t \in FamilyRows(f)' : Gone(t)'
                      /\ \A r \in Request : ~Holds(r, f)'
    BY DEF OnlyStraddlersSurvive, Gone
  <2>1. killed[f] # {} /\ f \notin straddled /\ ~Exempt(f)'
    BY DEF Calm, Exempt
  <2> QED
    BY <1>4, <1>5, <2>1 DEF RevocationInv, OnlyStraddlersSurvive, Gone
<1> QED
  BY <1>2, <1>3, <1>6, <1>7 DEF RevocationInv

-----------------------------------------------------------------------------
LEMMA SameCalmRows ==
  ASSUME UNCHANGED token
  PROVE  \A t \in Token : CalmRow(t)
BY DEF CalmRow, Issued, Gone

LEMMA SameCalmRequests ==
  ASSUME RevocationInv, UNCHANGED request
  PROVE  \A r \in Request : CalmRequest(r)
BY DEF RevocationInv, Named, CalmRequest, Holds

LEMMA SetCalm ==
  ASSUME RevocationInv, NEW r \in Request, NEW q,
         request' = [request EXCEPT ![r] = q],
         q.pc = "revokeFamily" => Issued(q.family),
         \/ q.pc \notin {"findAccount", "issue"}
         \/ InFlight(r) /\ q.family = request[r].family
         \/ Exempt(q.family)'
  PROVE  \A s \in Request : CalmRequest(s)
<1>1. /\ request'[r] = q
      /\ \A s \in Request \ {r} : request'[s] = request[s]
  BY DEF RevocationInv, RotationInv, TypeInv, Requests
<1>2. CalmRequest(r)
  <2>1. ASSUME NEW f \in Token, Holds(r, f)' PROVE Holds(r, f) \/ Exempt(f)'
    <3>1. f = q.family /\ q.pc \in {"findAccount", "issue"}
      BY <1>1, <2>1 DEF Holds
    <3>2. CASE Exempt(q.family)'
      <4>1. PICK e : e = q.family
        OBVIOUS
      <4> QED
        BY <3>1, <3>2, <4>1
    <3> QED
      BY <3>1, <3>2 DEF Holds, InFlight
  <2> QED
    BY <1>1, <2>1 DEF CalmRequest
<1>3. \A s \in Request \ {r} : CalmRequest(s)
  BY <1>1 DEF RevocationInv, Named, CalmRequest, Holds
<1> QED
  BY <1>2, <1>3

LEMMA FinishCalm ==
  ASSUME RevocationInv, NEW r \in Request, Finish(r)
  PROVE  \A s \in Request : CalmRequest(s)
<1>1. NoRequest.pc = "idle"
  BY DEF NoRequest
<1> QED
  BY <1>1, SetCalm DEF Finish

LEMMA GotoCalm ==
  ASSUME RevocationInv, NEW r \in Request,
         NEW pc \in {"consume", "reread", "issue"},
         pc = "issue" => InFlight(r), GotoRequest(r, pc)
  PROVE  \A s \in Request : CalmRequest(s)
<1> DEFINE q == [request[r] EXCEPT !.pc = pc]
<1>1. request' = [request EXCEPT ![r] = q]
  BY DEF GotoRequest
<1>2. q.pc = pc /\ q.family = request[r].family
  BY RequestType DEF RevocationInv, RotationInv, RequestState
<1> HIDE DEF q
<1> QED
  BY <1>1, <1>2, SetCalm

LEMMA RevokeCalm ==
  ASSUME RevocationInv, NEW rows \in SUBSET Token,
         \A t \in rows : Issued(t), Revoke(rows)
  PROVE  \A t \in Token : CalmRow(t) /\ (t \in rows \/ Gone(t) => Gone(t)')
BY DEF RevocationInv, RotationInv, TypeInv, Tokens, TokenRow, Revoke, CalmRow,
       Issued, Gone

-----------------------------------------------------------------------------
(* Whoever holds a family holds an exempt one, and so does a row that is   *)
(* usable and not locked.                                                  *)
LEMMA HolderExempt ==
  ASSUME RevocationInv, NEW f \in Token, NEW r \in Request, Holds(r, f)
  PROVE  Exempt(f)
BY DEF RevocationInv, Dying, OnlyStraddlersSurvive, Exempt

LEMMA UsableExempt ==
  ASSUME RevocationInv, NEW t \in Token, token[t].status \in {"active", "used"},
         ~Locked(t)
  PROVE  token[t].family \in Token /\ Exempt(token[t].family)
<1>1. token[t].family \in Token /\ ~Gone(t)
  BY TokenType DEF RevocationInv, RotationInv, CompleteToken, Gone
<1> QED
  BY <1>1 DEF RevocationInv, Dying, OnlyStraddlersSurvive, Exempt, FamilyRows,
              Locked, Gone

LEMMA ExemptStays ==
  ASSUME NEW f, Exempt(f), UNCHANGED <<killed, doomed>>,
         straddled \subseteq straddled'
  PROVE  Exempt(f)'
BY DEF Exempt

LEMMA CalmRequestStep ==
  ASSUME RevocationInv, NEW r \in Request,
         \/ \E a \in Account, c \in Client : Authorize(r, a, c)
         \/ CreateCode(r)
         \/ \E t \in Token, c \in Client : StartRefresh(r, t, c)
         \/ CheckHolder(r)
         \/ ConsumeMisses(r)
         \/ FindAccount(r)
         \/ RequestCrash(r)
  PROVE  Calm
<1>1. ASSUME NEW a \in Account, NEW c \in Client, Authorize(r, a, c)
      PROVE  Calm
  <2> DEFINE p == [NoRequest EXCEPT !.pc = "createCode", !.account = a,
                                    !.client = c]
  <2>0. request' = [request EXCEPT ![r] = p] /\ p.pc = "createCode"
    BY <1>1 DEF Authorize, NoRequest
  <2> HIDE DEF p
  <2>1. PICK q : /\ request' = [request EXCEPT ![r] = q]
                 /\ q.pc = "createCode"
    BY <2>0
  <2>2. \A s \in Request : CalmRequest(s)
    BY <2>1, SetCalm
  <2>3. UNCHANGED <<token, pending, killed, doomed, straddled>>
    BY <1>1 DEF Authorize, historyVars
  <2> QED
    BY <2>2, <2>3, SameCalmRows DEF Calm
<1>2. CASE CreateCode(r)
  BY <1>2, FinishCalm, SameCalmRows DEF CreateCode, Calm, historyVars
<1>3. ASSUME NEW t \in Token, NEW c \in Client, StartRefresh(r, t, c)
      PROVE  Calm
  <2> DEFINE p == IF Stored(t)
                  THEN [NoRequest EXCEPT !.pc = "checkHolder", !.client = c,
                                         !.token = t,
                                         !.account = token[t].account]
                  ELSE [NoRequest EXCEPT !.pc = "consume", !.client = c,
                                         !.token = t]
  <2>0. /\ request' = [request EXCEPT ![r] = p]
        /\ p.pc \in {"checkHolder", "consume"}
    BY <1>3 DEF StartRefresh, NoRequest
  <2> HIDE DEF p
  <2>1. PICK q : /\ request' = [request EXCEPT ![r] = q]
                 /\ q.pc \in {"checkHolder", "consume"}
    BY <2>0
  <2>2. \A s \in Request : CalmRequest(s)
    BY <2>1, SetCalm
  <2>3. UNCHANGED <<token, pending, killed, doomed, straddled>>
    BY <1>3 DEF StartRefresh, historyVars
  <2> QED
    BY <2>2, <2>3, SameCalmRows DEF Calm
<1>4. CASE CheckHolder(r)
  <2>1. \A s \in Request : CalmRequest(s)
    BY <1>4, GotoCalm, FinishCalm DEF CheckHolder
  <2> QED
    BY <1>4, <2>1, SameCalmRows DEF CheckHolder, Calm, historyVars
<1>5. CASE ConsumeMisses(r)
  <2>1. \A s \in Request : CalmRequest(s)
    BY <1>5, GotoCalm DEF ConsumeMisses
  <2> QED
    BY <1>5, <2>1, SameCalmRows DEF ConsumeMisses, Calm, historyVars
<1>6. CASE FindAccount(r)
  <2>1. \A s \in Request : CalmRequest(s)
    BY <1>6, GotoCalm, FinishCalm DEF FindAccount, InFlight
  <2> QED
    BY <1>6, <2>1, SameCalmRows DEF FindAccount, Calm, historyVars
<1>7. CASE RequestCrash(r)
  BY <1>7, FinishCalm, SameCalmRows DEF RequestCrash, Calm, historyVars
<1> QED
  BY <1>1, <1>2, <1>3, <1>4, <1>5, <1>6, <1>7

LEMMA ExchangeCodeCalm ==
  ASSUME RevocationInv, NEW r \in Request, NEW k \in Code, NEW c \in Client,
         ExchangeCode(r, k, c)
  PROVE  Calm
<1>1. CASE request' = request
  BY <1>1, SameCalmRequests, SameCalmRows DEF ExchangeCode, Calm, historyVars
<1>2. CASE request' # request
  <2> DEFINE p == [pc |-> "findAccount", client |-> c, token |-> None,
                   account |-> code[k].account, family |-> None,
                   grant |-> [origin |-> k, via |-> "code", at |-> now]]
  <2>0. /\ request' = [request EXCEPT ![r] = p]
        /\ p.pc = "findAccount" /\ p.family = None
    BY <1>2 DEF ExchangeCode
  <2> HIDE DEF p
  <2>1. PICK q : /\ request' = [request EXCEPT ![r] = q]
                 /\ q.pc = "findAccount" /\ q.family = None
    BY <2>0
  <2>2. /\ request'[r] = q
        /\ \A s \in Request \ {r} : request'[s] = request[s]
    BY <2>1 DEF RevocationInv, RotationInv, TypeInv, Requests
  <2>3. \A s \in Request : CalmRequest(s)
    <3>1. CalmRequest(r)
      BY <2>1, <2>2, NoneAssumption DEF CalmRequest, Holds
    <3>2. \A s \in Request \ {r} : CalmRequest(s)
      BY <2>2 DEF CalmRequest, Holds, RevocationInv, Named
    <3> QED
      BY <3>1, <3>2
  <2>4. UNCHANGED <<token, pending, killed, doomed, straddled>>
    BY DEF ExchangeCode, historyVars
  <2> QED
    BY <2>3, <2>4, SameCalmRows DEF Calm
<1> QED
  BY <1>1, <1>2

LEMMA ConsumeCalm ==
  ASSUME RevocationInv, NEW r \in Request, Consume(r)
  PROVE  Calm
<1>0. TypeInv
  BY DEF RevocationInv, RotationInv
<1>1. PICK t \in Token : t = request[r].token
  BY <1>0, RequestType DEF Consume, CompleteRequest
<1>2. /\ token[t].status = "active" /\ ~Locked(t)
      /\ token' = [token EXCEPT ![t].status = "used", ![t].usedAt = now]
      /\ UNCHANGED <<pending, killed, doomed, straddled>>
  BY <1>1 DEF Consume, Consumable, historyVars
<1>3. \A u \in Token : CalmRow(u)
  <2>1. /\ token'[t].status = "used"
        /\ token'[t].family = token[t].family
        /\ \A u \in Token \ {t} : token'[u] = token[u]
    BY <1>0, <1>1, <1>2 DEF TypeInv, Tokens, TokenRow
  <2> QED
    BY <1>2, <2>1 DEF CalmRow, Issued, Gone
<1>4. PICK f \in Token : f = token[t].family /\ Exempt(f)
  BY <1>2, UsableExempt
<1>5. Exempt(f)'
  BY <1>2, <1>4, ExemptStays
<1>6. \A s \in Request : CalmRequest(s)
  <2>1. CASE Finish(r)
    BY <2>1, FinishCalm
  <2>2. CASE ~Finish(r)
    <3> DEFINE p == [request[r] EXCEPT
                       !.pc = "findAccount",
                       !.account = token[t].account,
                       !.family = token[t].family,
                       !.grant = [origin |-> t, via |-> "rotation",
                                  at |-> now]]
    <3>1. p.pc = "findAccount" /\ p.family = f
      BY <1>0, <1>4, RequestType DEF RequestState
    <3>2. request' = [request EXCEPT ![r] = p]
      BY <1>1, <2>2 DEF Consume, Accept
    <3> HIDE DEF p
    <3>3. PICK q : request' = [request EXCEPT ![r] = q]
                   /\ q.pc = "findAccount" /\ q.family = f
      BY <3>1, <3>2
    <3> QED
      BY <1>5, <3>3, SetCalm
  <2> QED
    BY <2>1, <2>2
<1> QED
  BY <1>2, <1>3, <1>6 DEF Calm

LEMMA RereadCalm ==
  ASSUME RevocationInv, NEW r \in Request, Reread(r)
  PROVE  Calm
<1>0. TypeInv
  BY DEF RevocationInv, RotationInv
<1>1. PICK t \in Token : t = request[r].token
  BY <1>0, RequestType DEF Reread, CompleteRequest
<1>2. /\ UNCHANGED <<token, pending, killed, doomed>>
      /\ straddled \subseteq straddled'
  BY DEF Reread
<1>3. \A s \in Request : CalmRequest(s)
  <2>1. CASE Finish(r)
    BY <2>1, FinishCalm
  <2>2. CASE ~Finish(r) /\ Replayable(t) /\ Accept(r, t, "replay")
    <3> DEFINE p == [request[r] EXCEPT
                       !.pc = "findAccount",
                       !.account = token[t].account,
                       !.family = token[t].family,
                       !.grant = [origin |-> t, via |-> "replay", at |-> now]]
    <3>1. PICK f : f = token[t].family
      OBVIOUS
    <3>2. p.pc = "findAccount" /\ p.family = f
      BY <1>0, <3>1, RequestType DEF RequestState
    <3>3. request' = [request EXCEPT ![r] = p]
      BY <2>2 DEF Accept
    <3> HIDE DEF p
    <3>4. PICK q : request' = [request EXCEPT ![r] = q]
                   /\ q.pc = "findAccount" /\ q.family = f
      BY <3>2, <3>3
    <3>5. request'[r].pc = "findAccount"
      BY <1>0, <3>4 DEF TypeInv, Requests
    <3>6. Exempt(f)'
      <4>1. CASE Locked(t)
        BY <1>1, <3>1, <3>5, <4>1 DEF Reread, Exempt
      <4>2. CASE ~Locked(t)
        <5>1. Exempt(f)
          BY <2>2, <3>1, <4>2, UsableExempt DEF Replayable
        <5> QED
          BY <1>2, <5>1, ExemptStays
      <4> QED
        BY <4>1, <4>2
    <3> QED
      BY <3>4, <3>6, SetCalm
  <2>3. CASE /\ Stored(t)
             /\ request' = [request EXCEPT
                  ![r] = [request[r] EXCEPT !.pc = "revokeFamily",
                                            !.family = token[t].family]]
    <3>1. Issued(token[t].family)
      BY <2>3 DEF RevocationInv, RotationInv, Firsts, First, Stored, Issued
    <3> DEFINE p == [request[r] EXCEPT !.pc = "revokeFamily",
                                       !.family = token[t].family]
    <3>2. p.pc = "revokeFamily" /\ p.family = token[t].family
      BY <1>0, RequestType DEF RequestState
    <3>3. request' = [request EXCEPT ![r] = p]
      BY <2>3
    <3> HIDE DEF p
    <3>4. PICK q : request' = [request EXCEPT ![r] = q]
                   /\ q.pc = "revokeFamily" /\ q.family = token[t].family
      BY <3>2, <3>3
    <3> QED
      BY <3>1, <3>4, SetCalm
  <2> QED
    BY <1>1, <2>1, <2>2, <2>3 DEF Reread
<1> QED
  BY <1>2, <1>3, SameCalmRows DEF Calm

LEMMA IssueTokensCalm ==
  ASSUME RevocationInv, NEW r \in Request, IssueTokens(r)
  PROVE  Calm
<1>0. TypeInv
  BY DEF RevocationInv, RotationInv
<1>1. PICK t \in Token : token[t].status = "unissued" /\ token' = [token EXCEPT ![t] =
             [status    |-> "active",
              family    |-> IF request[r].family = None THEN t
                            ELSE request[r].family,
              account   |-> request[r].account,
              client    |-> request[r].client,
              usedAt    |-> 0,
              expiresAt |-> now + RefreshTtl]]
  BY DEF IssueTokens
<1>2. PICK f : f = IF request[r].family = None THEN t ELSE request[r].family
  OBVIOUS
<1>3. /\ token'[t].status = "active"
      /\ token'[t].family = f
      /\ \A u \in Token \ {t} : token'[u] = token[u]
  BY <1>0, <1>1, <1>2 DEF TypeInv, Tokens
<1>4. UNCHANGED <<pending, killed, doomed, straddled>>
  BY DEF IssueTokens
<1>5. f \in Token /\ Exempt(f)
  <2>1. CASE request[r].family = None
    BY <1>1, <1>2, <2>1 DEF RevocationInv, Named, Exempt, Issued
  <2>2. CASE request[r].family # None
    <3>1. f \in Token /\ Holds(r, f)
      BY <1>0, <1>2, <2>2, RequestType DEF IssueTokens, Holds
    <3> QED
      BY <3>1, HolderExempt
  <2> QED
    BY <2>1, <2>2
<1>6. Exempt(f)'
  BY <1>4, <1>5, ExemptStays
<1>7. \A u \in Token : CalmRow(u)
  <2>1. Exempt(token[t].family)'
    BY <1>3, <1>6
  <2> QED
    BY <1>1, <1>3, <2>1 DEF CalmRow, Issued, Gone
<1>8. \A s \in Request : CalmRequest(s)
  BY FinishCalm DEF IssueTokens
<1> QED
  BY <1>4, <1>7, <1>8 DEF Calm

LEMMA CalmOtherStep ==
  ASSUME RevocationInv,
         \/ StoreStep
         \/ \E h \in AdminCall : /\ AccountStep(h)
                                 /\ UNCHANGED <<tokenVars, historyVars>>
         \/ UNCHANGED vars
  PROVE  Calm
<1>1. ASSUME NEW t \in Token, RevokeRefreshToken(t) PROVE Calm
  <2>1. {t} \in SUBSET Token /\ \A u \in {t} : Issued(u)
    BY <1>1 DEF RevokeRefreshToken, Stored, Issued
  <2>2. \A u \in Token : CalmRow(u)
    BY <1>1, <2>1, RevokeCalm DEF RevokeRefreshToken
  <2> QED
    BY <1>1, <2>2, SameCalmRequests DEF RevokeRefreshToken, Calm, historyVars
<1>2. CASE CleanupExpiredTokens
  <2>1. \A t \in Token : CalmRow(t)
    BY <1>2 DEF CleanupExpiredTokens, CalmRow, Prunable, Issued, Gone,
                RevocationInv, RotationInv, TypeInv, Tokens, TokenRow
  <2> QED
    BY <1>2, <2>1, SameCalmRequests DEF CleanupExpiredTokens, Calm, historyVars
<1>3. CASE Tick
  BY <1>3, SameCalmRows, SameCalmRequests DEF Tick, Calm, historyVars
<1>4. CASE UNCHANGED <<tokenVars, historyVars>>
  BY <1>4, SameCalmRows, SameCalmRequests DEF Calm, tokenVars, historyVars
<1> QED
  BY <1>1, <1>2, <1>3, <1>4 DEF StoreStep, vars

-----------------------------------------------------------------------------
(* The steps that revoke families.                                         *)
LEMMA IssuedFamilies ==
  ASSUME RevocationInv, NEW a, NEW f \in AccountFamilies(a)
  PROVE  f \in Token /\ Issued(f)
<1>1. f \in Token /\ \E t \in Token : token[t].family = f
  BY DEF AccountFamilies, FamilyRows
<1>2. PICK t \in Token : token[t].family = f
  BY <1>1
<1>3. Issued(t)
  BY <1>1, <1>2, NoneAssumption DEF RevocationInv, Blank, NoToken
<1> QED
  BY <1>1, <1>2, <1>3 DEF RevocationInv, RotationInv, Firsts, First

(* All rows of an account's family are the account's own, so the UPDATE by *)
(* account reaches every row of it.                                        *)
LEMMA FamiliesCovered ==
  ASSUME RevocationInv, NEW a \in Account, NEW f \in AccountFamilies(a),
         NEW t \in FamilyRows(f)
  PROVE  t \in RevocableRows(a) \/ Gone(t)
<1>1. f \in Token /\ t \in Token /\ token[t].family = f
  BY DEF AccountFamilies, FamilyRows
<1>2. PICK u \in Token : token[u].family = f /\ token[u].account = a
  BY DEF AccountFamilies, FamilyRows
<1>3. Issued(t) /\ Issued(u)
  BY <1>1, <1>2, NoneAssumption DEF RevocationInv, Blank, NoToken
<1>4. token[t].account = a
  BY <1>1, <1>2, <1>3 DEF RevocationInv, RotationInv, Firsts, First
<1> QED
  BY <1>1, <1>3, <1>4, TokenType
     DEF RevocationInv, RotationInv, RevocableRows, Gone, Issued

(* A step that revokes all rows of some families, exempting those with a   *)
(* holder, and names them in killed.                                       *)
LEMMA KillKeepsInv ==
  ASSUME RevocationInv, RotationInv', NEW families \in SUBSET Token,
         NEW cause \in Cause, NEW rows \in SUBSET Token,
         \A t \in rows : Issued(t),
         \A f \in families : Issued(f),
         Revoke(rows), Kill(families, cause),
         straddled \subseteq straddled',
         \A f \in families : f \notin straddled' =>
           /\ \A t \in FamilyRows(f) : t \in rows \/ Gone(t)
           /\ \A r \in Request : ~Holds(r, f),
         \A s \in Request : SameFlight(s) /\
           (request'[s].pc = "revokeFamily" => request'[s] = request[s]),
         \A h \in AdminCall :
           \/ doomed'[h] = doomed[h] /\ pending'[h] \subseteq pending[h]
              /\ \A t \in pending[h] \ pending'[h] : t \in rows
           \/ doomed'[h] = {}
  PROVE  RevocationInv'
<1>0. TypeInv /\ TypeInv'
  BY DEF RevocationInv, RotationInv
<1>1. \A t \in Token : /\ CalmRow(t) /\ (t \in rows \/ Gone(t) => Gone(t)')
                       /\ Issued(t)' = Issued(t)
                       /\ token'[t].family = token[t].family
                       /\ ~Issued(t) => token'[t] = token[t]
  BY <1>0 DEF TypeInv, Tokens, TokenRow, Revoke, CalmRow, Issued, Gone
<1>2. \A f \in Token : FamilyRows(f)' = FamilyRows(f)
  BY <1>1 DEF FamilyRows
<1>3. \A f \in Token, r \in Request : Holds(r, f)' => Holds(r, f)
  BY DEF Holds, SameFlight, InFlight
<1>4. Blank'
  BY <1>1 DEF RevocationInv, Blank
<1>5. \A f \in Token : killed'[f] # {} => f \in families \/ killed[f] # {}
  BY <1>0 DEF Kill
<1>6. Named'
  <2>1. ASSUME NEW r \in Request, (request[r].pc = "revokeFamily")'
        PROVE  Issued(request[r].family)'
    <3>1. PICK f : f = request'[r].family
      OBVIOUS
    <3>2. f \in Token /\ Issued(f)
      BY <1>0, <2>1, <3>1
         DEF RevocationInv, Named, TypeInv, Requests, CompleteRequest
    <3>3. Issued(f)'
      BY <1>1, <3>2
    <3> QED
      BY <3>1, <3>3
  <2>2. ASSUME NEW h \in AdminCall, NEW f \in doomed'[h] PROVE Issued(f)'
    <3>1. f \in Token /\ f \in doomed[h]
      BY <1>0 DEF TypeInv, History
    <3>2. Issued(f)
      BY <3>1 DEF RevocationInv, Named
    <3> QED
      BY <1>1, <3>1, <3>2
  <2>3. \A f \in Token : killed'[f] # {} => Issued(f)'
    BY <1>1, <1>5 DEF RevocationInv, Named
  <2> QED
    BY <2>1, <2>2, <2>3 DEF Named
<1>7. Dying'
  <2> SUFFICES ASSUME NEW h \in AdminCall, NEW f \in doomed'[h],
                      f \notin straddled'
               PROVE  /\ \A t \in FamilyRows(f)' : t \in pending'[h] \/ Gone(t)'
                      /\ \A r \in Request : ~Holds(r, f)'
    BY DEF Dying
  <2>1. /\ f \in Token /\ f \in doomed[h] /\ f \notin straddled
        /\ pending'[h] \subseteq pending[h]
        /\ \A t \in pending[h] \ pending'[h] : t \in rows
    BY <1>0 DEF TypeInv, History
  <2>2. /\ \A t \in FamilyRows(f) : t \in pending[h] \/ Gone(t)
        /\ \A r \in Request : ~Holds(r, f)
    BY <2>1 DEF RevocationInv, Dying
  <2>3. FamilyRows(f) \subseteq Token
    BY DEF FamilyRows
  <2> QED
    BY <1>1, <1>2, <1>3, <2>1, <2>2, <2>3
<1>8. OnlyStraddlersSurvive'
  <2> SUFFICES ASSUME NEW f \in Token, killed'[f] # {}, f \notin straddled'
               PROVE  /\ \A t \in FamilyRows(f)' : Gone(t)'
                      /\ \A r \in Request : ~Holds(r, f)'
    BY DEF OnlyStraddlersSurvive, Gone
  <2>1. FamilyRows(f) \subseteq Token
    BY DEF FamilyRows
  <2>2. CASE f \in families
    BY <1>1, <1>2, <1>3, <2>1, <2>2
  <2>3. CASE f \notin families
    <3>1. killed[f] # {} /\ f \notin straddled
      BY <1>5, <2>3
    <3>2. /\ \A t \in FamilyRows(f) : Gone(t)
          /\ \A r \in Request : ~Holds(r, f)
      BY <3>1 DEF RevocationInv, OnlyStraddlersSurvive, Gone
    <3> QED
      BY <1>1, <1>2, <1>3, <2>1, <3>2
  <2> QED
    BY <2>2, <2>3
<1> QED
  BY <1>4, <1>6, <1>7, <1>8 DEF RevocationInv

LEMMA StraddleCovers ==
  ASSUME NEW families, Straddle(families)
  PROVE  /\ straddled \subseteq straddled'
         /\ \A f \in families : f \notin straddled' =>
              \A r \in Request : ~Holds(r, f)
BY DEF Straddle

LEMMA RevokeFamilyKeeps ==
  ASSUME RevocationInv, RotationInv', NEW r \in Request, RevokeFamily(r)
  PROVE  RevocationInv'
<1>0. TypeInv
  BY DEF RevocationInv, RotationInv
<1>1. PICK f \in Token : f = request[r].family
  BY <1>0, RequestType DEF RevokeFamily, CompleteRequest
<1> DEFINE rows == {t \in FamilyRows(f) : Stored(t)}
<1>2. /\ rows \in SUBSET Token
      /\ \A t \in rows : Issued(t)
      /\ \A t \in FamilyRows(f) : t \in rows \/ Gone(t)
  <2>1. ASSUME NEW t \in FamilyRows(f) PROVE t \in rows \/ Gone(t)
    <3>1. t \in Token /\ Issued(t)
      BY NoneAssumption DEF FamilyRows, RevocationInv, Blank, NoToken
    <3> QED
      BY <1>0, <3>1, TokenType DEF Stored, Gone, Issued
  <2> QED
    BY <2>1 DEF FamilyRows, Stored, Issued
<1>3. Issued(f)
  BY <1>1 DEF RevokeFamily, RevocationInv, Named
<1>4. Revoke(rows) /\ Kill({f}, "reuse") /\ Straddle({f}) /\ Finish(r)
  BY <1>1 DEF RevokeFamily
<1>5. \A s \in Request : SameFlight(s) /\
           (request'[s].pc = "revokeFamily" => request'[s] = request[s])
  <2>1. \A s \in Request : SameFlight(s)
    BY <1>0, <1>4, FinishQuiet
  <2>2. \A s \in Request :
          request'[s].pc = "revokeFamily" => request'[s] = request[s]
    BY <1>0, <1>4 DEF Finish, NoRequest, TypeInv, Requests
  <2> QED
    BY <2>1, <2>2
<1>6. UNCHANGED <<pending, doomed>>
  BY DEF RevokeFamily
<1>7. /\ straddled \subseteq straddled'
      /\ f \notin straddled' => \A s \in Request : ~Holds(s, f)
  BY <1>4, StraddleCovers
<1> HIDE DEF rows
<1> QED
  BY <1>2, <1>3, <1>4, <1>5, <1>6, <1>7, KillKeepsInv DEF Cause

LEMMA ResetRevokesKeeps ==
  ASSUME RevocationInv, RotationInv', NEW h \in AdminCall, ResetRevokes(h)
  PROVE  RevocationInv'
<1>0. TypeInv
  BY DEF RevocationInv, RotationInv
<1>1. PICK a \in Account : a = call[h].id
  BY <1>0 DEF ResetRevokes, RevokeAccountRefreshTokens, TypeInv, AccountIInv,
              CallHasAccount
<1>2. PICK rows, families : rows = RevocableRows(a)
                            /\ families = AccountFamilies(a)
  OBVIOUS
<1>3. /\ rows \in SUBSET Token /\ families \in SUBSET Token
      /\ \A t \in rows : Issued(t)
      /\ \A f \in families : Issued(f)
      /\ \A f \in families : \A t \in FamilyRows(f) : t \in rows \/ Gone(t)
  BY <1>2, IssuedFamilies, FamiliesCovered DEF RevocableRows, Issued
<1>4. Revoke(rows) /\ Kill(families, "reset") /\ Straddle(families)
  BY <1>1, <1>2 DEF ResetRevokes
<1>5. UNCHANGED <<request, pending, doomed>>
  BY DEF ResetRevokes
<1>6. \A s \in Request : SameFlight(s)
  BY <1>5, SameFlights
<1>7. /\ straddled \subseteq straddled'
      /\ \A f \in families : f \notin straddled' =>
           \A r \in Request : ~Holds(r, f)
  BY <1>4, StraddleCovers
<1> QED
  BY <1>3, <1>4, <1>5, <1>6, <1>7, KillKeepsInv DEF Cause

LEMMA UpdateCommitsKeeps ==
  ASSUME RevocationInv, RotationInv', NEW h \in AdminCall, UpdateCommits(h)
  PROVE  RevocationInv'
<1>0. TypeInv
  BY DEF RevocationInv, RotationInv
<1>1. PICK rows, families : rows = pending[h] /\ families = doomed[h]
  OBVIOUS
<1>2. /\ rows \in SUBSET Token /\ families \in SUBSET Token
      /\ \A t \in rows : Issued(t)
      /\ \A f \in families : Issued(f)
      /\ \A f \in families : f \notin straddled =>
           /\ \A t \in FamilyRows(f) : t \in rows \/ Gone(t)
           /\ \A r \in Request : ~Holds(r, f)
  BY <1>0, <1>1 DEF TypeInv, Pending, History, RevocationInv, Named, Dying
<1>3. Revoke(rows) /\ Kill(families, "disable")
  BY <1>1 DEF UpdateCommits
<1>4. /\ UNCHANGED <<request, straddled>>
      /\ pending' = [pending EXCEPT ![h] = {}]
      /\ doomed' = [doomed EXCEPT ![h] = {}]
  BY DEF UpdateCommits
<1>5. \A s \in Request : SameFlight(s)
  BY <1>4, SameFlights
<1>6. \A g \in AdminCall :
        \/ doomed'[g] = doomed[g] /\ pending'[g] = pending[g]
        \/ doomed'[g] = {}
  BY <1>0, <1>4 DEF TypeInv, Pending, History
<1> QED
  BY <1>2, <1>3, <1>4, <1>5, <1>6, KillKeepsInv DEF Cause

(* Opening or losing a transaction leaves tokens and requests alone.       *)
LEMMA DoomKeeps ==
  ASSUME RevocationInv, RotationInv', UNCHANGED <<token, request, killed>>,
         straddled \subseteq straddled',
         \A h \in AdminCall : \A f \in doomed'[h] : Issued(f),
         \A h \in AdminCall : \A f \in doomed'[h] : f \notin straddled' =>
           /\ \A t \in FamilyRows(f) : t \in pending'[h] \/ Gone(t)
           /\ \A r \in Request : ~Holds(r, f)
  PROVE  RevocationInv'
<1>1. Blank' /\ Named'
  BY DEF RevocationInv, Blank, Named, Issued
<1>2. Dying'
  BY DEF Dying, FamilyRows, Gone, Holds
<1>3. OnlyStraddlersSurvive'
  BY DEF RevocationInv, OnlyStraddlersSurvive, FamilyRows, Holds
<1> QED
  BY <1>1, <1>2, <1>3 DEF RevocationInv

LEMMA DisableRevokesKeeps ==
  ASSUME RevocationInv, RotationInv', NEW h \in AdminCall, DisableRevokes(h)
  PROVE  RevocationInv'
<1>0. TypeInv
  BY DEF RevocationInv, RotationInv
<1>1. PICK a \in Account : a = call[h].id
  BY <1>0 DEF DisableRevokes, RevokeAccountRefreshTokens, TypeInv,
              AccountIInv, CallHasAccount
<1>2. PICK rows, families : rows = RevocableRows(a)
                            /\ families = AccountFamilies(a)
  OBVIOUS
<1>3. /\ \A f \in families : Issued(f)
      /\ \A f \in families : \A t \in FamilyRows(f) : t \in rows \/ Gone(t)
  BY <1>2, IssuedFamilies, FamiliesCovered
<1>4. /\ UNCHANGED <<token, request, killed>>
      /\ pending'[h] = rows /\ doomed'[h] = families
      /\ \A g \in AdminCall \ {h} : pending'[g] = pending[g]
                                    /\ doomed'[g] = doomed[g]
      /\ Straddle(families)
  BY <1>0, <1>1, <1>2 DEF DisableRevokes, TypeInv, Pending, History
<1>5. /\ straddled \subseteq straddled'
      /\ \A f \in families : f \notin straddled' =>
           \A r \in Request : ~Holds(r, f)
  BY <1>4, StraddleCovers
<1>6. ASSUME NEW g \in AdminCall, NEW f \in doomed'[g]
      PROVE  /\ Issued(f)
             /\ f \notin straddled' =>
                  /\ \A t \in FamilyRows(f) : t \in pending'[g] \/ Gone(t)
                  /\ \A r \in Request : ~Holds(r, f)
  <2>1. CASE g = h
    BY <1>3, <1>4, <1>5, <2>1
  <2>2. CASE g # h
    BY <1>4, <1>5, <2>2 DEF RevocationInv, Named, Dying
  <2> QED
    BY <2>1, <2>2
<1> QED
  BY <1>4, <1>5, <1>6, DoomKeeps

LEMMA CallCrashesKeeps ==
  ASSUME RevocationInv, RotationInv', NEW h \in AdminCall, CallCrashes(h)
  PROVE  RevocationInv'
<1>1. /\ UNCHANGED <<token, request, killed, straddled>>
      /\ doomed'[h] = {}
      /\ \A g \in AdminCall \ {h} : pending'[g] = pending[g]
                                    /\ doomed'[g] = doomed[g]
  BY DEF CallCrashes, RevocationInv, RotationInv, TypeInv, Pending, History
<1>2. ASSUME NEW g \in AdminCall, NEW f \in doomed'[g]
      PROVE  /\ Issued(f)
             /\ f \notin straddled' =>
                  /\ \A t \in FamilyRows(f) : t \in pending'[g] \/ Gone(t)
                  /\ \A r \in Request : ~Holds(r, f)
  BY <1>1, <1>2 DEF RevocationInv, Named, Dying
<1> QED
  BY <1>1, <1>2, DoomKeeps

-----------------------------------------------------------------------------
LEMMA RevocationInvInit == Init => RevocationInv
<1> SUFFICES ASSUME Init PROVE RevocationInv
  OBVIOUS
<1>1. RotationInv
  BY RotationInvInit
<1>2. /\ \A t \in Token : token[t] = NoToken
      /\ \A r \in Request : request[r].pc = "idle"
      /\ \A h \in AdminCall : doomed[h] = {}
      /\ \A f \in Token : killed[f] = {}
  BY DEF Init, NoRequest
<1> QED
  BY <1>1, <1>2 DEF RevocationInv, Blank, Named, Dying, OnlyStraddlersSurvive

LEMMA RevocationInvNext ==
  ASSUME RevocationInv, [Next]_vars
  PROVE  RevocationInv'
<1>1. RotationInv'
  BY RotationInvNext DEF RevocationInv
<1>2. ASSUME NEW r \in Request, RequestStep(r) PROVE RevocationInv'
  <2>1. CASE RevokeFamily(r)
    BY <1>1, <2>1, RevokeFamilyKeeps
  <2>2. CASE ~RevokeFamily(r)
    <3>1. Calm
      BY <1>2, <2>2, CalmRequestStep, ExchangeCodeCalm, ConsumeCalm,
         RereadCalm, IssueTokensCalm DEF RequestStep
    <3> QED
      BY <1>1, <3>1, CalmKeeps
  <2> QED
    BY <2>1, <2>2
<1>3. ASSUME NEW h \in AdminCall, AdminStep(h) PROVE RevocationInv'
  <2>1. CASE AccountStep(h) /\ UNCHANGED <<tokenVars, historyVars>>
    BY <1>1, <2>1, CalmOtherStep, CalmKeeps
  <2>2. CASE ResetRevokes(h)
    BY <1>1, <2>2, ResetRevokesKeeps
  <2>3. CASE DisableRevokes(h)
    BY <1>1, <2>3, DisableRevokesKeeps
  <2>4. CASE UpdateCommits(h)
    BY <1>1, <2>4, UpdateCommitsKeeps
  <2>5. CASE CallCrashes(h)
    BY <1>1, <2>5, CallCrashesKeeps
  <2> QED
    BY <1>3, <2>1, <2>2, <2>3, <2>4, <2>5 DEF AdminStep
<1>4. CASE StoreStep \/ UNCHANGED vars
  BY <1>1, <1>4, CalmOtherStep, CalmKeeps
<1> QED
  BY <1>2, <1>3, <1>4 DEF Next

THEOREM RevocationInvariant == Spec => []RevocationInv
<1> QED
  BY RevocationInvInit, RevocationInvNext, PTL DEF Spec

(* Whatever requests, account handlers, revocations and cleanups overlap,  *)
(* a family revoked as a whole stays dead unless a request held one of its *)
(* grants at that moment.                                                  *)
THEOREM OnlyStraddlersSurviveHolds == Spec => []OnlyStraddlersSurvive
<1>1. RevocationInv => OnlyStraddlersSurvive
  BY DEF RevocationInv
<1> QED
  BY <1>1, RevocationInvariant, PTL
=============================================================================
