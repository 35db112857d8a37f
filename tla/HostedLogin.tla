---------------------------- MODULE HostedLogin ----------------------------
(***************************************************************************)
(* The hosted login: oauth/authorize (OidcController), oauth/login and the *)
(* logouts (LoginController), the login transactions they share            *)
(* (HostedLoginTransactionService) and the code they end in                *)
(* (AuthorizeFlowService).                                                 *)
(*                                                                         *)
(* A visit is one request that may end in a code.  It carries the session  *)
(* cookie of its browser as it was when the request was sent; the response *)
(* may set it.  A browser has many tabs, so visits of one browser overlap. *)
(* A transaction expires at any time.  Errors that change nothing are      *)
(* requests that are not made; parameters, pages and PKCE are left out.    *)
(***************************************************************************)
EXTENDS Naturals

CONSTANTS Browser,
          Transaction, \* the login transactions ever made
          Visit,       \* the visits that may be under way
          User,        \* the accounts
          MaxCode,     \* bounds the codes that are counted
          NoUser,      \* no session, and other unset values
          NoTransaction

ASSUME UserAssumption == NoUser \notin User /\ NoTransaction \notin Transaction

ASSUME MaxCodeAssumption == MaxCode \in Nat

VARIABLES transaction, \* token_records of type authorization_login
          cookie,      \* the session cookie of each browser
          barred,      \* accounts that are disabled or must reset
          client,      \* whether the OIDC client and its service are active
          visit,       \* the local state of each visit
          codes        \* history: the codes each transaction ended in

loginVars == <<transaction, cookie, barred, client, visit, codes>>

(* account is that of the session at authorize; browser holds the nonce.   *)
TransactionRow == [status  : {"none", "active", "gone"},
                   browser : Browser \cup {NoUser},
                   account : User \cup {NoUser},
                   select  : BOOLEAN] \* prompt=select_account

NoRow == [status |-> "none", browser |-> NoUser, account |-> NoUser,
          select |-> FALSE]

(* how: with the browser's session, or with a password; remember: whether  *)
(* the response sets the cookie; disturbed is history: what changed since  *)
(* the visit's checks.                                                     *)
VisitState == [pc          : {"idle", "authenticate", "consume", "finish"},
               transaction : Transaction \cup {NoTransaction},
               browser     : Browser \cup {NoUser},
               how         : {"session", "password"},
               account     : User \cup {NoUser},
               remember    : BOOLEAN,
               disturbed   : SUBSET {"cookie", "client"}]

NoVisit == [pc |-> "idle", transaction |-> NoTransaction, browser |-> NoUser,
            how |-> "session", account |-> NoUser, remember |-> FALSE,
            disturbed |-> {}]

-----------------------------------------------------------------------------
Step(v, state) == visit' = [visit EXCEPT ![v] = state]

(* What v does next, and the visits it disturbs by setting the cookie of   *)
(* its browser.                                                            *)
StepSetting(v, b, state) ==
  visit' = [w \in Visit |->
    IF w = v THEN state
    ELSE IF visit[w].browser = b
    THEN [visit[w] EXCEPT !.disturbed = @ \cup {"cookie"}] ELSE visit[w]]

-----------------------------------------------------------------------------
(* validateRequest: the parameters were valid when the transaction was      *)
(* made and are kept in it; the client or its service may be disabled.      *)
ValidRequest == client

(* authorize makes a transaction if the account is to be selected or there *)
(* is no session; the nonce goes to the browser.                           *)
AuthorizePage(b, t, select) ==
  /\ ValidRequest
  /\ select \/ cookie[b] = NoUser
  /\ transaction[t] = NoRow
  /\ transaction' = [transaction EXCEPT
       ![t] = [status |-> "active", browser |-> b, account |-> cookie[b],
               select |-> select]]
  /\ UNCHANGED <<cookie, barred, client, visit, codes>>

(* authorize with a session goes straight on to the code.                  *)
AuthorizeSession(v, b) ==
  /\ visit[v].pc = "idle"
  /\ ValidRequest
  /\ cookie[b] # NoUser
  /\ Step(v, [NoVisit EXCEPT !.pc = "finish", !.browser = b,
                             !.account = cookie[b]])
  /\ UNCHANGED <<transaction, cookie, barred, client, codes>>

(* Mutant of SameSession: the session is not compared.                     *)
SameSessionAny(t, b) == TRUE

SameSession(t, b) == transaction[t].account = cookie[b]

(* hostedLogin up to the choice of an account: find, for the browser with  *)
(* the nonce; the client is validated again and the session compared with  *)
(* that of the transaction.                                                *)
Submit(v, b, t, state) ==
  /\ visit[v].pc = "idle"
  /\ transaction[t].status = "active"
  /\ transaction[t].browser = b
  /\ ValidRequest
  /\ SameSession(t, b)
  /\ Step(v, [state EXCEPT !.browser = b, !.transaction = t,
                           !.remember = ~transaction[t].select])
  /\ UNCHANGED <<transaction, cookie, barred, client, codes>>

(* With a password; only a login that is no selection sets the cookie.     *)
SubmitPassword(v, b, t) ==
  Submit(v, b, t, [NoVisit EXCEPT !.pc = "authenticate", !.how = "password"])

(* completeAccountSelection of the current session.                        *)
SubmitCurrent(v, b, t) ==
  /\ transaction[t].select
  /\ transaction[t].account # NoUser
  /\ Submit(v, b, t, [NoVisit EXCEPT !.pc = "consume",
                                     !.account = transaction[t].account])

(* accounts.authenticate: some account; or the page is shown again.        *)
Authenticate(v, a) ==
  /\ visit[v].pc = "authenticate"
  /\ a \notin barred
  /\ Step(v, [visit[v] EXCEPT !.pc = "consume", !.account = a])
  /\ UNCHANGED <<transaction, cookie, barred, client, codes>>

AuthenticateFail(v) ==
  /\ visit[v].pc = "authenticate"
  /\ Step(v, NoVisit)
  /\ UNCHANGED <<transaction, cookie, barred, client, codes>>

(* Mutant of Consume: the row is not deleted.                              *)
ConsumeNot(v) ==
  LET t == visit[v].transaction IN
  /\ visit[v].pc = "consume"
  /\ Step(v, IF transaction[t].status = "active"
             THEN [visit[v] EXCEPT !.pc = "finish"] ELSE NoVisit)
  /\ UNCHANGED <<transaction, cookie, barred, client, codes>>

(* consume: DELETE ... RETURNING; without a row the visit ends.            *)
Consume(v) ==
  LET t == visit[v].transaction IN
  /\ visit[v].pc = "consume"
  /\ IF transaction[t].status = "active"
     THEN /\ transaction' = [transaction EXCEPT ![t].status = "gone"]
          /\ Step(v, [visit[v] EXCEPT !.pc = "finish"])
     ELSE Step(v, NoVisit) /\ UNCHANGED transaction
  /\ UNCHANGED <<cookie, barred, client, codes>>

(* authorizeWithAccount and the response: access_denied or a code, and the *)
(* cookie of a login that was no selection.                                *)
Finish(v) ==
  LET b == visit[v].browser
      t == visit[v].transaction
      a == visit[v].account
  IN
  /\ visit[v].pc = "finish"
  /\ \/ UNCHANGED codes
     \/ /\ a \notin barred
        /\ IF t = NoTransaction THEN UNCHANGED codes
           ELSE codes[t] < MaxCode /\ codes' = [codes EXCEPT ![t] = @ + 1]
  /\ cookie' = IF visit[v].remember THEN [cookie EXCEPT ![b] = a] ELSE cookie
  /\ IF visit[v].remember THEN StepSetting(v, b, NoVisit) ELSE Step(v, NoVisit)
  /\ UNCHANGED <<transaction, barred, client>>

-----------------------------------------------------------------------------
(* The cookie of b becomes a, NoUser when it is cleared.                   *)
SetCookie(b, a) ==
  /\ cookie[b] # a
  /\ cookie' = [cookie EXCEPT ![b] = a]
  /\ visit' = [w \in Visit |->
       IF visit[w].browser = b
       THEN [visit[w] EXCEPT !.disturbed = @ \cup {"cookie"}] ELSE visit[w]]
  /\ UNCHANGED <<transaction, barred, client, codes>>

(* logout and logoutPage.                                                  *)
LogoutBrowser(b) == SetCookie(b, NoUser)

(* completePasswordReset.                                                  *)
CompleteReset(b, a) == a \notin barred /\ SetCookie(b, a)

ExpireTransaction(t) ==
  /\ transaction[t].status = "active"
  /\ transaction' = [transaction EXCEPT ![t].status = "gone"]
  /\ UNCHANGED <<cookie, barred, client, visit, codes>>

(* The client or the service is disabled, or enabled.                      *)
ChangeClient ==
  /\ client' = ~client
  /\ visit' = [w \in Visit |->
       IF visit[w].pc = "idle" THEN visit[w]
       ELSE [visit[w] EXCEPT !.disturbed = @ \cup {"client"}]]
  /\ UNCHANGED <<transaction, cookie, barred, codes>>

(* An account is disabled, enabled, given a temporary password or resets.  *)
ChangeUser(a) ==
  /\ barred' = IF a \in barred THEN barred \ {a} ELSE barred \cup {a}
  /\ UNCHANGED <<transaction, cookie, client, visit, codes>>

(* The process dies, or its answer is lost.                                *)
VisitCrash(v) == /\ visit[v].pc # "idle"
                 /\ Step(v, NoVisit)
                 /\ UNCHANGED <<transaction, cookie, barred, client, codes>>

LoginInit ==
  /\ transaction = [t \in Transaction |-> NoRow]
  /\ cookie = [b \in Browser |-> NoUser]
  /\ barred = {}
  /\ client = TRUE
  /\ visit = [v \in Visit |-> NoVisit]
  /\ codes = [t \in Transaction |-> 0]

LoginNext ==
  \/ \E b \in Browser :
       \/ \E t \in Transaction, select \in BOOLEAN : AuthorizePage(b, t, select)
       \/ \E v \in Visit : AuthorizeSession(v, b)
       \/ \E v \in Visit, t \in Transaction : \/ SubmitPassword(v, b, t)
                                              \/ SubmitCurrent(v, b, t)
       \/ LogoutBrowser(b)
       \/ \E a \in User : CompleteReset(b, a)
  \/ \E v \in Visit : \/ \E a \in User : Authenticate(v, a)
                      \/ AuthenticateFail(v)
                      \/ Consume(v)
                      \/ Finish(v)
                      \/ VisitCrash(v)
  \/ \E t \in Transaction : ExpireTransaction(t)
  \/ ChangeClient
  \/ \E a \in User : ChangeUser(a)

LoginSpec == LoginInit /\ [][LoginNext]_loginVars

-----------------------------------------------------------------------------
(* Type invariant of the login.                                            *)
LoginTypeOK ==
  /\ transaction \in [Transaction -> TransactionRow]
  /\ cookie \in [Browser -> User \cup {NoUser}]
  /\ barred \subseteq User
  /\ client \in BOOLEAN
  /\ visit \in [Visit -> VisitState]
  /\ codes \in [Transaction -> 0..MaxCode]

(* A login page ends in one code at most, however often it is sent and     *)
(* however the requests overlap (consume deletes the row it returns).      *)
OneCodePerTransaction == \A t \in Transaction : codes[t] <= 1

(* A visit that consumed its transaction or had none, and enters without a *)
(* password, is for the account signed in in its browser, and its client   *)
(* is active, but for what changed while the visit was under way; a login  *)
(* page left open in another tab does not count as under way (login        *)
(* controller: "Login session changed during authorization").              *)
CodeFollowsSession ==
  \A v \in Visit :
    visit[v].pc = "finish"
      => /\ \/ visit[v].how = "password"
            \/ cookie[visit[v].browser] = visit[v].account
            \/ "cookie" \in visit[v].disturbed
         /\ client \/ "client" \in visit[v].disturbed
=============================================================================
