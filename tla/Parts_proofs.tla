---------------------------- MODULE Parts_proofs ----------------------------
(* The components of MCParts, for any number of processes, requests,       *)
(* sessions, transactions and keys: each one's invariant and what follows  *)
(* from it.                                                                *)
EXTENDS MCParts, FiniteSetTheorems, TLAPS

-----------------------------------------------------------------------------
(* Signing keys.  A process that is not behind knows every key.            *)
KnowsAll(p) == process[p].behind \/ process[p].known = 1..stored

KeyInv ==
  /\ KeyTypeOK
  /\ \A p \in Process :
       /\ process[p].pc # "down" => KnowsAll(p)
       /\ process[p].pc = "insert" => process[p].known = {}
       /\ process[p].pc = "running"
            => process[p].active \in process[p].known \cap 1..stored

LEMMA KeyInvStep ==
  ASSUME KeyInv, [KeyNext]_keyVars
  PROVE  KeyInv'
<1> USE MaxKeyAssumption
<1>1. ASSUME NEW p \in Process, LoadKeys(p)
      PROVE  KeyInv'
  <2>1. KeyTypeOK'
    <3> stored \in 0..MaxKey /\ process \in [Process -> ProcessState]
      BY DEF KeyInv, KeyTypeOK
    <3>1. CASE stored = 0
      BY <1>1, <3>1 DEF KeyTypeOK, LoadKeys, ProcessState, Down
    <3>2. CASE stored # 0
      <4>1. stored \in Key /\ 1..stored \subseteq Key
        BY <3>2 DEF Key
      <4> QED BY <1>1, <3>2, <4>1 DEF KeyTypeOK, LoadKeys, ProcessState, Down
    <3> QED BY <3>1, <3>2
  <2>2. ASSUME NEW q \in Process
        PROVE  /\ process'[q].pc # "down" => KnowsAll(q)'
               /\ process'[q].pc = "insert" => process'[q].known = {}
               /\ process'[q].pc = "running"
                    => process'[q].active \in process'[q].known \cap 1..stored'
    <3>1. CASE q = p
      BY <1>1, <3>1 DEF KeyInv, KeyTypeOK, KnowsAll, LoadKeys, ProcessState, Down, Key
    <3>2. CASE q # p
      BY <1>1, <3>2 DEF KeyInv, KeyTypeOK, KnowsAll, LoadKeys
    <3> QED BY <3>1, <3>2
  <2> QED BY <2>1, <2>2 DEF KeyInv
<1>2. ASSUME NEW p \in Process, InsertKey(p)
      PROVE  KeyInv'
  <2> stored \in Nat /\ stored' = stored + 1 /\ stored' \in 0..MaxKey
    BY <1>2 DEF KeyInv, KeyTypeOK, InsertKey
  <2>1. KeyTypeOK'
    <3> stored + 1 \in Key
      BY <1>2 DEF InsertKey, Key
    <3> QED BY <1>2, ZenonT(60) DEF KeyInv, KeyTypeOK, InsertKey, ProcessState
  <2>2. ASSUME NEW q \in Process
        PROVE  /\ process'[q].pc # "down" => KnowsAll(q)'
               /\ process'[q].pc = "insert" => process'[q].known = {}
               /\ process'[q].pc = "running"
                    => process'[q].active \in process'[q].known \cap 1..stored'
    <3>1. CASE q = p
      <4>1. process[p].pc = "insert" /\ process[p] \in ProcessState
        BY <1>2 DEF InsertKey, KeyInv, KeyTypeOK
      <4>2. process'[q] = [process[p] EXCEPT !.pc = "running",
                             !.active = stored + 1, !.known = {stored + 1}]
        BY <1>2, <3>1 DEF InsertKey
      <4>3. /\ process'[q].pc = "running"
            /\ process'[q].active = stored + 1
            /\ process'[q].known = {stored + 1}
            /\ process'[q].behind = process[p].behind
        BY <4>1, <4>2 DEF ProcessState
      <4>4. process[p].behind \/ 1..stored = {}
        BY <4>1 DEF KeyInv, KnowsAll
      <4>5. process[p].behind \/ stored = 0
        <5>1. 1..stored = {} => ~(1 \in 1..stored)
          OBVIOUS
        <5> QED BY <4>4, <5>1
      <4>6. process[p].behind \/ {stored + 1} = 1..stored'
        BY <4>5
      <4> QED BY <4>3, <4>6 DEF KnowsAll
    <3>2. CASE q # p
      <4>1. process'[q] = [process[q] EXCEPT !.behind = process[q].pc # "down"]
        BY <1>2, <3>2 DEF InsertKey
      <4>2. process[q] \in ProcessState
        BY DEF KeyInv, KeyTypeOK
      <4>3. /\ process'[q].pc = process[q].pc
            /\ process'[q].active = process[q].active
            /\ process'[q].known = process[q].known
            /\ process'[q].behind = (process[q].pc # "down")
        BY <4>1, <4>2 DEF ProcessState
      <4>4. process'[q].pc # "down" => KnowsAll(q)'
        BY <4>3 DEF KnowsAll
      <4>5. 1..stored \subseteq 1..stored'
        OBVIOUS
      <4> QED BY <4>3, <4>4, <4>5 DEF KeyInv
    <3> QED BY <3>1, <3>2
  <2> QED BY <2>1, <2>2 DEF KeyInv
<1>3. ASSUME NEW p \in Process, StopProcess(p)
      PROVE  KeyInv'
  BY <1>3 DEF KeyInv, KeyTypeOK, KnowsAll, StopProcess, ProcessState, Down, Key
<1>4. CASE UNCHANGED keyVars
  BY <1>4 DEF KeyInv, KeyTypeOK, KnowsAll, keyVars
<1> QED BY <1>1, <1>2, <1>3, <1>4 DEF KeyNext

LEMMA KeyInvInit == KeyInit => KeyInv
BY MaxKeyAssumption
   DEF KeyInit, KeyInv, KeyTypeOK, KnowsAll, ProcessState, Down, Key

(* Whatever processes start, stop and insert, in any order, one of them    *)
(* fails to know another's key only if it is behind (loadOrCreate).        *)
THEOREM KeysKnownHolds == KeySpec => []KeysKnown
<1>1. KeyInv => KeysKnown
  BY DEF KeyInv, KnowsAll, KeysKnown, Running
<1> QED BY <1>1, KeyInvInit, KeyInvStep, PTL DEF KeySpec

-----------------------------------------------------------------------------
(* Sessions.  A request that will write null over a revocation, or is      *)
(* about to find one, was overtaken by the logout.                         *)
RequestInv(r) ==
  request[r].pc # "idle"
    => /\ request[r].session \in Session
       /\ session[request[r].session].exists
       /\ request[r].idle <= accepted[request[r].session] + IdleTime
       /\ request[r].pc = "select" /\ session[request[r].session].revoked
            => request[r].overtaken
       /\ request[r].pc = "commit" /\ request[r].revoke => request[r].overtaken

AcceptedInv(s) == /\ accepted[s] <= clock
                  /\ session[s].revoked => session[s].exists
                  /\ session[s].exists => session[s].idle <= accepted[s] + IdleTime

SessionInv == /\ SessionTypeOK
              /\ \A r \in AdminRequest : RequestInv(r)
              /\ \A s \in Session : AcceptedInv(s)

LEMMA SessionInvStep ==
  ASSUME SessionInv, [SessionNext]_sessionVars
  PROVE  SessionInv'
<1> USE SessionTimeAssumption
<1> /\ session \in [Session -> SessionRow]
    /\ request \in [AdminRequest -> Validation]
    /\ accepted \in [Session -> 0..LastTime]
    /\ clock \in 0..LastTime
    /\ admin \in BOOLEAN
  BY DEF SessionInv, SessionTypeOK
<1>1. ASSUME NEW s \in Session, IssueAdminSession(s) PROVE SessionInv'
  <2>1. SessionTypeOK'
    <3>1. clock + IdleTime \in SessionTime /\ clock + AbsoluteTime \in SessionTime
      BY DEF SessionTime
    <3>2. session' \in [Session -> SessionRow]
      BY <1>1, <3>1 DEF IssueAdminSession, SessionRow
    <3> QED BY <1>1, <3>2 DEF IssueAdminSession, SessionTypeOK
  <2>2. ASSUME NEW r \in AdminRequest PROVE RequestInv(r)'
    BY <1>1 DEF SessionInv, RequestInv, IssueAdminSession, SessionRow, SessionTime
  <2>3. ASSUME NEW t \in Session PROVE AcceptedInv(t)'
    BY <1>1 DEF SessionInv, AcceptedInv, IssueAdminSession, SessionRow, SessionTime
  <2> QED BY <2>1, <2>2, <2>3 DEF SessionInv
<1>2. ASSUME NEW s \in Session, Logout(s) PROVE SessionInv'
  <2>1. request' \in [AdminRequest -> Validation]
    BY <1>2, ZenonT(60) DEF Logout, Validation
  <2>2. session' \in [Session -> SessionRow]
    BY <1>2 DEF Logout, SessionRow
  <2>3. SessionTypeOK'
    BY <1>2, <2>1, <2>2 DEF Logout, SessionTypeOK
  <2>4. ASSUME NEW r \in AdminRequest PROVE RequestInv(r)'
    <3>1. CASE request[r].pc = "select" /\ request[r].session = s
      <4>1. request'[r] = [request[r] EXCEPT !.overtaken = TRUE]
        BY <1>2, <3>1 DEF Logout
      <4> QED BY <1>2, <3>1, <4>1
                DEF SessionInv, RequestInv, Logout, SessionRow, Validation
    <3>2. CASE ~(request[r].pc = "select" /\ request[r].session = s)
      <4>1. request'[r] = request[r]
        BY <1>2, <3>2 DEF Logout
      <4> QED BY <1>2, <3>2, <4>1 DEF SessionInv, RequestInv, Logout, SessionRow
    <3> QED BY <3>1, <3>2
  <2>5. ASSUME NEW t \in Session PROVE AcceptedInv(t)'
    BY <1>2 DEF SessionInv, AcceptedInv, Logout, SessionRow
  <2> QED BY <2>3, <2>4, <2>5 DEF SessionInv
<1>3. ASSUME NEW s \in Session, NEW r \in AdminRequest, ValidateFind(r, s)
      PROVE  SessionInv'
  <2> DEFINE idle == Least(clock + IdleTime, session[s].absolute)
  <2>1. session[s].absolute \in SessionTime
    BY DEF SessionRow
  <2>2. idle \in SessionTime /\ idle <= clock + IdleTime
    BY <2>1 DEF Least, SessionTime
  <2> HIDE DEF idle
  <2>3. request' = [request EXCEPT ![r] =
            [NoValidation EXCEPT !.pc = "select", !.session = s, !.idle = idle]]
    BY <1>3 DEF ValidateFind, idle
  <2>4. SessionTypeOK'
    <3>1. request' \in [AdminRequest -> Validation]
      BY <2>2, <2>3 DEF Validation, NoValidation
    <3> QED BY <1>3, <3>1 DEF ValidateFind, SessionTypeOK
  <2>5. accepted' = [accepted EXCEPT ![s] = clock] /\ accepted[s] <= clock
    BY <1>3 DEF ValidateFind, SessionInv, AcceptedInv
  <2>6. ASSUME NEW q \in AdminRequest PROVE RequestInv(q)'
    <3>1. CASE q = r
      <4>1. /\ request'[q].pc = "select"
            /\ request'[q].session = s
            /\ request'[q].idle = idle
        BY <2>3, <3>1 DEF NoValidation
      <4>2. session[s].exists /\ ~session[s].revoked /\ session' = session
        BY <1>3 DEF ValidateFind, Usable
      <4>3. accepted'[s] = clock
        BY <2>5
      <4> QED BY <2>2, <4>1, <4>2, <4>3 DEF RequestInv
    <3>2. CASE q # r
      BY <1>3, <2>3, <2>5, <3>2
         DEF ValidateFind, SessionInv, RequestInv, Validation, SessionTime
    <3> QED BY <3>1, <3>2
  <2>7. ASSUME NEW t \in Session PROVE AcceptedInv(t)'
    BY <1>3, <2>5 DEF ValidateFind, SessionInv, AcceptedInv, SessionRow, SessionTime
  <2> QED BY <2>4, <2>6, <2>7 DEF SessionInv
<1>4. ASSUME NEW r \in AdminRequest, ValidateSelect(r) PROVE SessionInv'
  <2>1. RequestInv(r) /\ request[r].session \in Session
    BY <1>4 DEF SessionInv, RequestInv, ValidateSelect
  <2>2. session[request[r].session].revoked \in BOOLEAN
    BY <2>1 DEF SessionRow
  <2>3. request' = [request EXCEPT ![r].pc = "commit",
                      ![r].revoke = session[request[r].session].revoked]
    BY <1>4 DEF ValidateSelect
  <2>4. SessionTypeOK'
    <3>1. request' \in [AdminRequest -> Validation]
      BY <2>2, <2>3, ZenonT(60) DEF Validation
    <3> QED BY <1>4, <3>1 DEF ValidateSelect, SessionTypeOK
  <2>5. ASSUME NEW q \in AdminRequest PROVE RequestInv(q)'
    <3>1. CASE q = r
      BY <1>4, <2>1, <2>3, <3>1 DEF ValidateSelect, RequestInv, Validation
    <3>2. CASE q # r
      BY <1>4, <2>3, <3>2 DEF ValidateSelect, SessionInv, RequestInv
    <3> QED BY <3>1, <3>2
  <2>6. ASSUME NEW t \in Session PROVE AcceptedInv(t)'
    BY <1>4 DEF ValidateSelect, SessionInv, AcceptedInv
  <2> QED BY <2>4, <2>5, <2>6 DEF SessionInv
<1>5. ASSUME NEW r \in AdminRequest, ValidateWrite(r) PROVE SessionInv'
  <2> DEFINE s == request[r].session
  <2>1. /\ s \in Session
        /\ session[s].exists
        /\ request[r].idle <= accepted[s] + IdleTime
        /\ request[r].idle \in SessionTime
    BY <1>5 DEF SessionInv, RequestInv, ValidateWrite, Validation
  <2> HIDE DEF s
  <2>2. session' = [session EXCEPT ![s].idle = request[r].idle,
                      ![s].revoked = IF request[r].revoke THEN FALSE ELSE @]
    BY <1>5 DEF ValidateWrite, s
  <2>3. SessionTypeOK'
    <3>1. session' \in [Session -> SessionRow]
      BY <2>1, <2>2, ZenonT(60) DEF SessionRow
    <3>2. request' \in [AdminRequest -> Validation]
      BY <1>5 DEF ValidateWrite, Validation, NoValidation, SessionTime
    <3> QED BY <1>5, <3>1, <3>2 DEF ValidateWrite, SessionTypeOK
  <2>4. ASSUME NEW t \in Session
        PROVE  /\ session'[t].exists = session[t].exists
               /\ session'[t].revoked => session[t].revoked
               /\ session'[t].idle
                    = IF t = s THEN request[r].idle ELSE session[t].idle
    BY <2>1, <2>2 DEF SessionRow
  <2>5. ASSUME NEW q \in AdminRequest PROVE RequestInv(q)'
    <3>1. CASE q = r
      BY <1>5, <3>1 DEF ValidateWrite, RequestInv, NoValidation
    <3>2. CASE q # r
      <4>1. request'[q] = request[q] /\ accepted' = accepted
        BY <1>5, <3>2 DEF ValidateWrite
      <4> QED BY <2>4, <4>1 DEF SessionInv, RequestInv
    <3> QED BY <3>1, <3>2
  <2>6. ASSUME NEW t \in Session PROVE AcceptedInv(t)'
    BY <1>5, <2>1, <2>4 DEF ValidateWrite, SessionInv, AcceptedInv
  <2> QED BY <2>3, <2>5, <2>6 DEF SessionInv
<1>6. ASSUME NEW r \in AdminRequest, RequestCrash(r) PROVE SessionInv'
  <2>1. SessionTypeOK'
    BY <1>6 DEF RequestCrash, SessionTypeOK, Validation, NoValidation, SessionTime
  <2>2. ASSUME NEW q \in AdminRequest PROVE RequestInv(q)'
    BY <1>6 DEF RequestCrash, SessionInv, RequestInv, NoValidation
  <2>3. ASSUME NEW t \in Session PROVE AcceptedInv(t)'
    BY <1>6 DEF RequestCrash, SessionInv, AcceptedInv
  <2> QED BY <2>1, <2>2, <2>3 DEF SessionInv
<1>7. CASE ChangeAdmin
  BY <1>7 DEF ChangeAdmin, SessionInv, SessionTypeOK, RequestInv, AcceptedInv
<1>8. CASE SessionTick
  <2>1. SessionTypeOK'
    BY <1>8 DEF SessionTick, SessionTypeOK
  <2>2. ASSUME NEW q \in AdminRequest PROVE RequestInv(q)'
    BY <1>8 DEF SessionTick, SessionInv, RequestInv
  <2>3. ASSUME NEW t \in Session PROVE AcceptedInv(t)'
    BY <1>8 DEF SessionTick, SessionInv, AcceptedInv
  <2> QED BY <2>1, <2>2, <2>3 DEF SessionInv
<1>9. CASE UNCHANGED sessionVars
  BY <1>9 DEF sessionVars, SessionInv, SessionTypeOK, RequestInv, AcceptedInv
<1> QED BY <1>1, <1>2, <1>3, <1>4, <1>5, <1>6, <1>7, <1>8, <1>9 DEF SessionNext

LEMMA SessionInvInit == SessionInit => SessionInv
BY SessionTimeAssumption
   DEF SessionInit, SessionInv, SessionTypeOK, SessionRow, SessionTime,
       Validation, NoValidation, RequestInv, AcceptedInv

LEMMA SessionInvHolds == SessionSpec => []SessionInv
BY SessionInvInit, SessionInvStep, PTL DEF SessionSpec

(* However many requests validate a session at the same time, nobody is    *)
(* let in later than the idle time after the last one that was             *)
(* (validateRequest).                                                      *)
THEOREM IdleSessionsEndHolds == SessionSpec => []IdleSessionsEnd
<1>1. SessionInv => IdleSessionsEnd
  <2> SUFFICES ASSUME SessionInv, NEW s \in Session, Usable(s)
               PROVE  clock < accepted[s] + IdleTime
    BY DEF IdleSessionsEnd
  <2>1. /\ session[s].idle <= accepted[s] + IdleTime
        /\ clock < session[s].idle
    BY DEF SessionInv, AcceptedInv, Usable
  <2>2. clock \in Nat /\ session[s].idle \in Int /\ accepted[s] \in Nat
    BY SessionTimeAssumption
       DEF SessionInv, SessionTypeOK, SessionRow, SessionTime
  <2> QED BY <2>1, <2>2, SessionTimeAssumption
<1> QED BY <1>1, SessionInvHolds, PTL

(* A revocation is taken back by the save of a validation that found it.   *)
LEMMA RevivalIsASave ==
  ASSUME SessionInv, [SessionNext]_sessionVars, NEW s \in Session,
         session[s].revoked, ~session'[s].revoked
  PROVE  \E r \in AdminRequest : /\ request[r].pc = "commit"
                                 /\ request[r].session = s
                                 /\ request[r].revoke
                                 /\ request[r].overtaken
<1> session \in [Session -> SessionRow] /\ request \in [AdminRequest -> Validation]
  BY DEF SessionInv, SessionTypeOK
<1>1. PICK r \in AdminRequest : ValidateWrite(r)
  <2>1. ASSUME NEW t \in Session, IssueAdminSession(t) PROVE FALSE
    <3>1. t # s => session'[s] = session[s]
      BY <2>1 DEF IssueAdminSession
    <3>2. session[s].exists
      BY DEF SessionInv, AcceptedInv
    <3>3. ~session[t].exists
      BY <2>1 DEF IssueAdminSession
    <3> QED BY <3>1, <3>2, <3>3
  <2>2. ASSUME NEW t \in Session, Logout(t) PROVE FALSE
    BY <2>2 DEF Logout, SessionRow
  <2> QED BY <2>1, <2>2
          DEF SessionNext, sessionVars, ValidateFind, ValidateSelect,
              RequestCrash, ChangeAdmin, SessionTick
<1>2. request[r].session = s /\ request[r].revoke
  BY <1>1 DEF ValidateWrite, SessionRow
<1> QED BY <1>1, <1>2 DEF ValidateWrite, SessionInv, RequestInv

(* Nobody comes to be about to revive a session that is logged out.        *)
LEMMA LoggedOutStays ==
  ASSUME SessionInv, [SessionNext]_sessionVars, NEW s \in Session, LoggedOut(s)
  PROVE  LoggedOut(s)'
<1> session \in [Session -> SessionRow] /\ request \in [AdminRequest -> Validation]
  BY DEF SessionInv, SessionTypeOK
<1>1. session'[s].revoked
  BY RevivalIsASave DEF LoggedOut
<1>2. ASSUME NEW r \in AdminRequest, request'[r].session = s
      PROVE  request'[r].pc # "select" /\ ~request'[r].revoke
  <2>1. CASE request'[r] = request[r]
    BY <1>2, <2>1 DEF LoggedOut
  <2>2. CASE request'[r] # request[r]
    <3>1. ASSUME NEW q \in AdminRequest, NEW t \in Session, ValidateFind(q, t)
          PROVE  FALSE
      <4>1. q = r
        BY <2>2, <3>1 DEF ValidateFind
      <4>2. request'[r].session = t
        BY <3>1, <4>1 DEF ValidateFind, NoValidation
      <4> QED BY <1>2, <3>1, <4>2 DEF LoggedOut, ValidateFind, Usable
    <3>2. ASSUME NEW q \in AdminRequest, ValidateSelect(q) PROVE FALSE
      <4>1. q = r
        BY <2>2, <3>2 DEF ValidateSelect
      <4>2. request'[r].session = request[r].session
        BY <3>2, <4>1 DEF ValidateSelect, Validation
      <4> QED BY <1>2, <3>2, <4>1, <4>2 DEF LoggedOut, ValidateSelect
    <3>3. ASSUME NEW t \in Session, Logout(t) PROVE FALSE
      <4>1. request[r].pc = "select" /\ request[r].session = t
        BY <2>2, <3>3 DEF Logout
      <4>2. request'[r] = [request[r] EXCEPT !.overtaken = TRUE]
        BY <3>3, <4>1 DEF Logout
      <4>3. request'[r].session = request[r].session
        BY <4>2 DEF Validation
      <4> QED BY <1>2, <4>1, <4>3 DEF LoggedOut
    <3>4. CASE \E q \in AdminRequest : ValidateWrite(q) \/ RequestCrash(q)
      <4>1. request'[r] = NoValidation
        BY <2>2, <3>4 DEF ValidateWrite, RequestCrash
      <4> QED BY <4>1 DEF NoValidation
    <3> QED BY <2>2, <3>1, <3>2, <3>3, <3>4
            DEF SessionNext, sessionVars, IssueAdminSession, ChangeAdmin,
                SessionTick
  <2> QED BY <2>1, <2>2
<1> QED BY <1>1, <1>2 DEF LoggedOut

(* With any number of requests and sessions, only a request that the       *)
(* logout came upon between its load and its SELECT takes a logout back;   *)
(* with none left, nothing does (validateRequest, logout).                 *)
THEOREM LogoutFinalHolds == SessionSpec => LogoutFinal
<1> DEFINE Final == \A s \in Session :
              /\ session[s].revoked /\ ~session'[s].revoked
                   => \E r \in AdminRequest : /\ request[r].pc = "commit"
                                              /\ request[r].session = s
                                              /\ request[r].overtaken
              /\ LoggedOut(s) => LoggedOut(s)'
<1>1. SessionInv /\ [SessionNext]_sessionVars => [Final]_sessionVars
  BY RevivalIsASave, LoggedOutStays
<1> QED BY <1>1, SessionInvHolds, PTL DEF SessionSpec, LogoutFinal

-----------------------------------------------------------------------------
(* Hosted login.  A visit past its checks has a browser; one without a     *)
(* password is for that browser's session; one past its transaction has    *)
(* the only claim to the transaction's code.                               *)
Claims(v, t) == visit[v].pc = "finish" /\ visit[v].transaction = t

VisitInv(v) ==
  visit[v].pc # "idle"
    => /\ visit[v].browser \in Browser
       /\ visit[v].pc = "authenticate" => visit[v].how = "password"
       /\ visit[v].pc \in {"authenticate", "consume"}
            => visit[v].transaction \in Transaction
       /\ \/ visit[v].how = "password"
          \/ cookie[visit[v].browser] = visit[v].account
          \/ "cookie" \in visit[v].disturbed
       /\ client \/ "client" \in visit[v].disturbed

TransactionInv(t) ==
  /\ codes[t] <= 1
  /\ codes[t] > 0 => transaction[t].status = "gone"
  /\ \A v \in Visit : Claims(v, t) => /\ transaction[t].status = "gone"
                                      /\ codes[t] = 0
  /\ \A v, w \in Visit : Claims(v, t) /\ Claims(w, t) => v = w

LoginInv == /\ LoginTypeOK
            /\ \A v \in Visit : VisitInv(v)
            /\ \A t \in Transaction : TransactionInv(t)

(* A step that moves one visit and leaves the transactions alone keeps     *)
(* them, unless the visit comes to claim one.                              *)
LEMMA VisitStep ==
  ASSUME LoginInv, NEW v \in Visit, NEW state \in VisitState, Step(v, state),
         UNCHANGED <<transaction, cookie, barred, client, codes>>,
         state.pc = "finish" => state.transaction = NoTransaction,
         VisitInv(v)'
  PROVE  LoginInv'
<1> USE UserAssumption, MaxCodeAssumption
<1>1. visit' = [visit EXCEPT ![v] = state] /\ visit \in [Visit -> VisitState]
  BY DEF Step, LoginInv, LoginTypeOK
<1>2. LoginTypeOK'
  BY <1>1 DEF LoginInv, LoginTypeOK
<1>3. ASSUME NEW w \in Visit PROVE VisitInv(w)'
  BY <1>1 DEF LoginInv, VisitInv
<1>4. ASSUME NEW w \in Visit, NEW t \in Transaction, Claims(w, t)'
      PROVE  Claims(w, t)
  BY <1>1, <1>4 DEF Claims
<1>5. ASSUME NEW t \in Transaction PROVE TransactionInv(t)'
  BY <1>4 DEF LoginInv, TransactionInv
<1> QED BY <1>2, <1>3, <1>5 DEF LoginInv

(* A step that leaves the visits where they are, and their claims with     *)
(* them, but may disturb them.                                             *)
LEMMA DisturbStep ==
  ASSUME LoginInv,
         visit' \in [Visit -> VisitState],
         \A v \in Visit : /\ visit'[v].pc = visit[v].pc
                          /\ visit'[v].transaction = visit[v].transaction,
         UNCHANGED <<transaction, codes>>
  PROVE  \A t \in Transaction : TransactionInv(t)'
<1>1. \A v \in Visit, t \in Transaction : Claims(v, t)' <=> Claims(v, t)
  BY DEF Claims
<1> QED BY <1>1 DEF LoginInv, TransactionInv

LEMMA LoginInvStep ==
  ASSUME LoginInv, [LoginNext]_loginVars
  PROVE  LoginInv'
<1> USE UserAssumption, MaxCodeAssumption
<1> /\ visit \in [Visit -> VisitState]
    /\ transaction \in [Transaction -> TransactionRow]
    /\ cookie \in [Browser -> User \cup {NoUser}]
    /\ codes \in [Transaction -> 0..MaxCode]
    /\ client \in BOOLEAN
    /\ barred \subseteq User
  BY DEF LoginInv, LoginTypeOK
<1>0. NoVisit \in VisitState
  BY DEF NoVisit, VisitState
<1>1. ASSUME NEW b \in Browser, NEW t \in Transaction, NEW select \in BOOLEAN,
             AuthorizePage(b, t, select)
      PROVE  LoginInv'
  <2>1. LoginTypeOK'
    BY <1>1 DEF AuthorizePage, LoginInv, LoginTypeOK, TransactionRow
  <2>2. ASSUME NEW v \in Visit PROVE VisitInv(v)'
    BY <1>1 DEF AuthorizePage, LoginInv, VisitInv
  <2>3. ASSUME NEW u \in Transaction PROVE TransactionInv(u)'
    <3>1. visit' = visit /\ codes' = codes /\ (u # t => transaction'[u] = transaction[u])
      BY <1>1 DEF AuthorizePage
    <3>2. transaction[t].status = "none"
      BY <1>1 DEF AuthorizePage, NoRow
    <3>3. TransactionInv(u) /\ codes[u] \in Nat
      BY DEF LoginInv
    <3>4. u = t => codes[u] = 0 /\ \A v \in Visit : ~Claims(v, u)
      BY <3>2, <3>3 DEF TransactionInv
    <3>5. \A v \in Visit : Claims(v, u)' <=> Claims(v, u)
      BY <3>1 DEF Claims
    <3> QED BY <3>1, <3>3, <3>4, <3>5 DEF TransactionInv
  <2> QED BY <2>1, <2>2, <2>3 DEF LoginInv
<1>2. ASSUME NEW v \in Visit, NEW b \in Browser, AuthorizeSession(v, b)
      PROVE  LoginInv'
  <2> DEFINE state == [NoVisit EXCEPT !.pc = "finish", !.browser = b,
                                      !.account = cookie[b]]
  <2>1. /\ state \in VisitState /\ state.transaction = NoTransaction
        /\ state.browser = b /\ state.account = cookie[b]
    BY DEF NoVisit, VisitState
  <2> HIDE DEF state
  <2>2. Step(v, state) /\ client
        /\ UNCHANGED <<transaction, cookie, barred, client, codes>>
    BY <1>2 DEF AuthorizeSession, ValidRequest, state
  <2>3. state.pc = "finish"
    BY DEF state, NoVisit
  <2>4. VisitInv(v)'
    BY <2>1, <2>2, <2>3 DEF Step, VisitInv
  <2> QED BY <2>1, <2>2, <2>4, VisitStep
<1>3. ASSUME NEW v \in Visit, NEW b \in Browser, NEW t \in Transaction,
             SubmitPassword(v, b, t)
      PROVE  LoginInv'
  <2> DEFINE state == [[NoVisit EXCEPT !.pc = "authenticate", !.how = "password"]
                         EXCEPT !.browser = b, !.transaction = t,
                                !.remember = ~transaction[t].select]
  <2>1. /\ state \in VisitState /\ state.pc = "authenticate"
        /\ state.browser = b /\ state.transaction = t /\ state.how = "password"
    BY DEF NoVisit, VisitState, TransactionRow
  <2> HIDE DEF state
  <2>2. Step(v, state) /\ client
        /\ UNCHANGED <<transaction, cookie, barred, client, codes>>
    BY <1>3 DEF SubmitPassword, Submit, ValidRequest, state
  <2>3. VisitInv(v)'
    BY <2>1, <2>2 DEF Step, VisitInv
  <2> QED BY <2>1, <2>2, <2>3, VisitStep
<1>4. ASSUME NEW v \in Visit, NEW b \in Browser, NEW t \in Transaction,
             SubmitCurrent(v, b, t)
      PROVE  LoginInv'
  <2> DEFINE state == [[NoVisit EXCEPT !.pc = "consume",
                                       !.account = transaction[t].account]
                         EXCEPT !.browser = b, !.transaction = t,
                                !.remember = ~transaction[t].select]
  <2>1. /\ state \in VisitState /\ state.pc = "consume"
        /\ state.browser = b /\ state.transaction = t
        /\ state.account = transaction[t].account
    BY DEF NoVisit, VisitState, TransactionRow
  <2> HIDE DEF state
  <2>2. Step(v, state) /\ client
        /\ UNCHANGED <<transaction, cookie, barred, client, codes>>
        /\ transaction[t].account = cookie[b]
    BY <1>4 DEF SubmitCurrent, Submit, ValidRequest, SameSession, state
  <2>3. VisitInv(v)'
    BY <2>1, <2>2 DEF Step, VisitInv
  <2> QED BY <2>1, <2>2, <2>3, VisitStep
<1>5. ASSUME NEW v \in Visit, NEW a \in User, Authenticate(v, a)
      PROVE  LoginInv'
  <2> DEFINE state == [visit[v] EXCEPT !.pc = "consume", !.account = a]
  <2>1. /\ state \in VisitState /\ state.pc = "consume"
        /\ state.browser = visit[v].browser /\ state.how = visit[v].how
        /\ state.transaction = visit[v].transaction
        /\ state.disturbed = visit[v].disturbed
    <3>1. visit[v] \in VisitState
      BY DEF LoginInv, LoginTypeOK
    <3> QED BY <3>1 DEF VisitState
  <2> HIDE DEF state
  <2>2. Step(v, state) /\ visit[v].pc = "authenticate"
        /\ UNCHANGED <<transaction, cookie, barred, client, codes>>
    BY <1>5 DEF Authenticate, state
  <2>3. VisitInv(v)'
    BY <2>1, <2>2 DEF Step, VisitInv, LoginInv
  <2> QED BY <2>1, <2>2, <2>3, VisitStep
<1>6. ASSUME NEW v \in Visit, AuthenticateFail(v) \/ VisitCrash(v)
      PROVE  LoginInv'
  <2>1. Step(v, NoVisit) /\ UNCHANGED <<transaction, cookie, barred, client, codes>>
    BY <1>6 DEF AuthenticateFail, VisitCrash
  <2>2. VisitInv(v)' /\ NoVisit.pc = "idle"
    BY <2>1 DEF Step, VisitInv, NoVisit
  <2> QED BY <1>0, <2>1, <2>2, VisitStep
<1>7. ASSUME NEW v \in Visit, Consume(v)
      PROVE  LoginInv'
  <2> DEFINE t == visit[v].transaction
  <2>0. t \in Transaction
    BY <1>7 DEF Consume, LoginInv, VisitInv
  <2>1. CASE transaction[t].status # "active"
    <3>1. Step(v, NoVisit) /\ UNCHANGED <<transaction, cookie, barred, client, codes>>
      BY <1>7, <2>1 DEF Consume
    <3>2. VisitInv(v)' /\ NoVisit.pc = "idle"
      BY <3>1 DEF Step, VisitInv, NoVisit
    <3> QED BY <1>0, <3>1, <3>2, VisitStep
  <2>2. CASE transaction[t].status = "active"
    <3> HIDE DEF t
    <3>1. /\ transaction' = [transaction EXCEPT ![t].status = "gone"]
          /\ visit' = [visit EXCEPT ![v] = [visit[v] EXCEPT !.pc = "finish"]]
          /\ UNCHANGED <<cookie, barred, client, codes>>
          /\ visit[v].pc = "consume"
      BY <1>7, <2>2 DEF Consume, Step, t
    <3>2. visit' \in [Visit -> VisitState]
      BY <3>1 DEF VisitState
    <3>3. LoginTypeOK'
      BY <2>0, <3>1, <3>2 DEF LoginInv, LoginTypeOK, TransactionRow
    <3>4. ASSUME NEW w \in Visit
          PROVE  /\ visit'[w].pc = IF w = v THEN "finish" ELSE visit[w].pc
                 /\ visit'[w].transaction = visit[w].transaction
                 /\ visit'[w].browser = visit[w].browser
                 /\ visit'[w].how = visit[w].how
                 /\ visit'[w].account = visit[w].account
                 /\ visit'[w].disturbed = visit[w].disturbed
      BY <3>1 DEF VisitState
    <3>5. ASSUME NEW w \in Visit PROVE VisitInv(w)'
      BY <3>1, <3>4 DEF LoginInv, VisitInv
    <3>6. codes[t] = 0 /\ \A w \in Visit : ~Claims(w, t)
      BY <2>0, <2>2 DEF LoginInv, TransactionInv
    <3>7. ASSUME NEW u \in Transaction PROVE TransactionInv(u)'
      <4>1. TransactionInv(u)
        BY DEF LoginInv
      <4>2. CASE u = t
        <5>1. \A w \in Visit : Claims(w, u)' => w = v
          BY <3>4, <3>6, <4>2 DEF Claims
        <5>2. transaction'[u].status = "gone"
          BY <2>0, <3>1, <4>2 DEF TransactionRow
        <5> QED BY <3>1, <3>6, <4>2, <5>1, <5>2 DEF TransactionInv
      <4>3. CASE u # t
        <5>1. \A w \in Visit : Claims(w, u)' => Claims(w, u)
          BY <3>4, <4>3 DEF Claims, t
        <5>2. transaction'[u] = transaction[u]
          BY <3>1, <4>3
        <5> QED BY <3>1, <4>1, <5>1, <5>2 DEF TransactionInv
      <4> QED BY <4>2, <4>3
    <3> QED BY <3>3, <3>5, <3>7 DEF LoginInv
  <2> QED BY <2>1, <2>2
<1>8. ASSUME NEW v \in Visit, Finish(v)
      PROVE  LoginInv'
  <2> DEFINE b == visit[v].browser
             t == visit[v].transaction
             a == visit[v].account
             rest(w) == [visit[w] EXCEPT !.disturbed = @ \cup {"cookie"}]
  <2>0. b \in Browser /\ visit[v].pc = "finish" /\ t \in Transaction \cup {NoTransaction}
        /\ a \in User \cup {NoUser}
    BY <1>8 DEF Finish, LoginInv, VisitInv, VisitState
  <2>1. cookie' = IF visit[v].remember THEN [cookie EXCEPT ![b] = a] ELSE cookie
    BY <1>8 DEF Finish
  <2>2. visit'[v] = NoVisit
        /\ \A w \in Visit \ {v} :
             \/ visit'[w] = visit[w] /\ (cookie' = cookie \/ visit[w].browser # b)
             \/ visit'[w] = rest(w)
    BY <1>8 DEF Finish, Step, StepSetting
  <2>3. visit' \in [Visit -> VisitState]
    <3>1. \A w \in Visit : rest(w) \in VisitState
      BY DEF VisitState
    <3>2. \E f : visit' = [w \in Visit |-> f[w]]
      <4>1. visit' = [w \in Visit |-> visit'[w]]
        BY <1>8 DEF Finish, Step, StepSetting
      <4> QED BY <4>1
    <3> QED BY <1>0, <2>2, <3>1, <3>2, ZenonT(60)
  <2>4. /\ UNCHANGED <<transaction, barred, client>>
        /\ codes' \in [Transaction -> 0..MaxCode]
        /\ \A u \in Transaction : codes'[u] # codes[u]
                                    => u = t /\ codes'[u] = codes[u] + 1
    <3>1. UNCHANGED <<transaction, barred, client>>
      BY <1>8 DEF Finish
    <3>2. CASE UNCHANGED codes
      BY <3>1, <3>2
    <3>3. CASE t # NoTransaction /\ codes[t] < MaxCode /\ codes' = [codes EXCEPT ![t] = @ + 1]
      <4>1. t \in Transaction /\ codes[t] + 1 \in 0..MaxCode
        BY <2>0, <3>3
      <4> QED BY <3>1, <3>3, <4>1
    <3> QED BY <1>8, <3>2, <3>3 DEF Finish
  <2>5. LoginTypeOK'
    BY <2>0, <2>1, <2>3, <2>4 DEF LoginInv, LoginTypeOK
  <2>6. ASSUME NEW w \in Visit \ {v}
        PROVE  /\ visit'[w].pc = visit[w].pc
               /\ visit'[w].transaction = visit[w].transaction
               /\ visit'[w].browser = visit[w].browser
               /\ visit'[w].how = visit[w].how
               /\ visit'[w].account = visit[w].account
               /\ visit[w].disturbed \subseteq visit'[w].disturbed
               /\ \/ cookie' = cookie \/ visit[w].browser # b
                  \/ "cookie" \in visit'[w].disturbed
    <3>1. CASE visit'[w] = visit[w] /\ (cookie' = cookie \/ visit[w].browser # b)
      BY <3>1
    <3>2. CASE visit'[w] = rest(w)
      BY <3>2 DEF VisitState
    <3> QED BY <2>2, <3>1, <3>2
  <2> HIDE DEF b, t, a, rest
  <2>7. ASSUME NEW w \in Visit PROVE VisitInv(w)'
    <3>1. CASE w = v
      BY <2>2, <3>1 DEF VisitInv, NoVisit
    <3>2. CASE w # v
      <4>1. VisitInv(w)
        BY DEF LoginInv
      <4>2. visit[w].browser # b => cookie'[visit[w].browser] = cookie[visit[w].browser]
        BY <2>1
      <4> QED BY <2>4, <2>6, <3>2, <4>1, <4>2 DEF VisitInv
    <3> QED BY <3>1, <3>2
  <2>8. ASSUME NEW u \in Transaction PROVE TransactionInv(u)'
    <3>1. TransactionInv(u) /\ codes[u] \in Nat
      BY DEF LoginInv
    <3>2. \A w \in Visit : Claims(w, u)' => Claims(w, u) /\ w # v
      BY <2>2, <2>6 DEF Claims, NoVisit
    <3>3. CASE u = t
      <4>1. Claims(v, u)
        BY <2>0, <3>3 DEF Claims, t
      <4>2. \A w \in Visit : ~Claims(w, u)'
        BY <3>1, <3>2, <4>1 DEF TransactionInv
      <4>3. codes[u] = 0 /\ transaction[u].status = "gone"
        BY <3>1, <4>1 DEF TransactionInv
      <4> QED BY <2>4, <4>2, <4>3 DEF TransactionInv
    <3>4. CASE u # t
      BY <2>4, <3>1, <3>2, <3>4 DEF TransactionInv
    <3> QED BY <3>3, <3>4
  <2> QED BY <2>5, <2>7, <2>8 DEF LoginInv
<1>9. ASSUME NEW b \in Browser, NEW a \in User \cup {NoUser}, SetCookie(b, a)
      PROVE  LoginInv'
  <2>1. visit' \in [Visit -> VisitState]
    BY <1>9 DEF SetCookie, VisitState
  <2>2. LoginTypeOK'
    BY <1>9, <2>1 DEF SetCookie, LoginInv, LoginTypeOK
  <2>3. ASSUME NEW v \in Visit
        PROVE  /\ visit'[v].pc = visit[v].pc
               /\ visit'[v].transaction = visit[v].transaction
               /\ visit'[v].browser = visit[v].browser
               /\ visit'[v].how = visit[v].how
               /\ visit'[v].account = visit[v].account
               /\ visit[v].disturbed \subseteq visit'[v].disturbed
               /\ \/ visit[v].browser # b
                  \/ "cookie" \in visit'[v].disturbed
    BY <1>9 DEF SetCookie, VisitState
  <2>4. ASSUME NEW v \in Visit PROVE VisitInv(v)'
    BY <1>9, <2>3 DEF SetCookie, LoginInv, VisitInv
  <2>5. \A t \in Transaction : TransactionInv(t)'
    BY <1>9, <2>1, <2>3, DisturbStep DEF SetCookie
  <2> QED BY <2>2, <2>4, <2>5 DEF LoginInv
<1>10. ASSUME NEW t \in Transaction, ExpireTransaction(t)
       PROVE  LoginInv'
  <2>1. LoginTypeOK'
    BY <1>10 DEF ExpireTransaction, LoginInv, LoginTypeOK, TransactionRow
  <2>2. ASSUME NEW v \in Visit PROVE VisitInv(v)'
    BY <1>10 DEF ExpireTransaction, LoginInv, VisitInv
  <2>3. ASSUME NEW u \in Transaction PROVE TransactionInv(u)'
    <3>1. TransactionInv(u) /\ visit' = visit /\ codes' = codes
      BY <1>10 DEF ExpireTransaction, LoginInv
    <3>2. \A v \in Visit : Claims(v, u)' <=> Claims(v, u)
      BY <3>1 DEF Claims
    <3>3. transaction[u].status = "gone" => transaction'[u].status = "gone"
      BY <1>10 DEF ExpireTransaction, TransactionRow
    <3> QED BY <3>1, <3>2, <3>3 DEF TransactionInv
  <2> QED BY <2>1, <2>2, <2>3 DEF LoginInv
<1>11. CASE ChangeClient
  <2> DEFINE marked(v) == [visit[v] EXCEPT !.disturbed = @ \cup {"client"}]
  <2>0. ASSUME NEW v \in Visit
        PROVE  /\ visit[v] \in VisitState
               /\ marked(v) \in VisitState
               /\ marked(v).pc = visit[v].pc
               /\ marked(v).transaction = visit[v].transaction
               /\ marked(v).browser = visit[v].browser
               /\ marked(v).how = visit[v].how
               /\ marked(v).account = visit[v].account
               /\ marked(v).disturbed = visit[v].disturbed \cup {"client"}
    <3>1. visit[v] \in VisitState
      BY DEF LoginInv, LoginTypeOK
    <3> QED BY <3>1 DEF VisitState
  <2>. visit' = [v \in Visit |-> IF visit[v].pc = "idle" THEN visit[v]
                                  ELSE marked(v)]
    BY <1>11 DEF ChangeClient
  <2> HIDE DEF marked
  <2>1. visit' \in [Visit -> VisitState]
    BY <2>0
  <2>2. LoginTypeOK'
    BY <1>11, <2>1 DEF ChangeClient, LoginInv, LoginTypeOK
  <2>3. ASSUME NEW v \in Visit
        PROVE  /\ visit'[v].pc = visit[v].pc
               /\ visit'[v].transaction = visit[v].transaction
               /\ visit'[v].browser = visit[v].browser
               /\ visit'[v].how = visit[v].how
               /\ visit'[v].account = visit[v].account
               /\ visit[v].disturbed \subseteq visit'[v].disturbed
               /\ visit[v].pc # "idle" => "client" \in visit'[v].disturbed
    BY <2>0
  <2>4. ASSUME NEW v \in Visit PROVE VisitInv(v)'
    BY <1>11, <2>3 DEF ChangeClient, LoginInv, VisitInv
  <2>5. \A t \in Transaction : TransactionInv(t)'
    BY <1>11, <2>1, <2>3, DisturbStep DEF ChangeClient
  <2> QED BY <2>2, <2>4, <2>5 DEF LoginInv
<1>12. ASSUME NEW a \in User, ChangeUser(a)
       PROVE  LoginInv'
  BY <1>12 DEF ChangeUser, LoginInv, LoginTypeOK, VisitInv, TransactionInv, Claims
<1>13. CASE UNCHANGED loginVars
  BY <1>13 DEF loginVars, LoginInv, LoginTypeOK, VisitInv, TransactionInv, Claims
<1>14. ASSUME NEW b \in Browser, LogoutBrowser(b) \/ \E a \in User : CompleteReset(b, a)
       PROVE  LoginInv'
  BY <1>9, <1>14 DEF LogoutBrowser, CompleteReset
<1> QED BY <1>1, <1>2, <1>3, <1>4, <1>5, <1>6, <1>7, <1>8, <1>10, <1>11, <1>12,
           <1>13, <1>14 DEF LoginNext

LEMMA LoginInvInit == LoginInit => LoginInv
BY UserAssumption, MaxCodeAssumption
   DEF LoginInit, LoginInv, LoginTypeOK, TransactionRow, NoRow, VisitState,
       NoVisit, VisitInv, TransactionInv, Claims

LEMMA LoginInvHolds == LoginSpec => []LoginInv
BY LoginInvInit, LoginInvStep, PTL DEF LoginSpec

(* A login page ends in one code at most, with any number of submissions   *)
(* of it under way (HostedLoginTransactionService.consume).                *)
THEOREM OneCodePerTransactionHolds ==
  LoginSpec => []OneCodePerTransaction
<1>1. LoginInv => OneCodePerTransaction
  BY DEF LoginInv, TransactionInv, OneCodePerTransaction
<1> QED BY <1>1, LoginInvHolds, PTL

(* A code without a password is for the account signed in in the browser,  *)
(* for any number of browsers, tabs and accounts (hostedLogin).            *)
THEOREM CodeFollowsSessionHolds ==
  LoginSpec => []CodeFollowsSession
<1>1. LoginInv => CodeFollowsSession
  BY DEF LoginInv, VisitInv, CodeFollowsSession
<1> QED BY <1>1, LoginInvHolds, PTL

-----------------------------------------------------------------------------
(* Notification sending.  A send that found no valid record holds the lock *)
(* on its key, so there is none until it commits.                          *)
Holds(s) == sender[s].pc \in {"find", "check", "commit"}

SenderInv(s) ==
  /\ sender[s].pc # "idle" => sender[s].payload \in Payload
  /\ Holds(s) => keyLock[sender[s].key] = s
  /\ sender[s].pc \in {"check", "commit"}
       => record[sender[s].key].status # "valid"

RecordInv(k) ==
  IF record[k].status = "valid"
  THEN /\ answers[k] \subseteq {<<record[k].payload, record[k].response>>}
       /\ sent[k] <= 1
  ELSE answers[k] = {} /\ sent[k] = 0

SendingInv == /\ SendingTypeOK
              /\ \A s \in Sender : SenderInv(s)
              /\ \A k \in IdempotencyKey : RecordInv(k)

(* The local state that the end of a transaction leaves.                   *)
LEMMA FinishedType ==
  ASSUME sender \in [Sender -> SenderState], NEW s \in Sender
  PROVE  /\ Finished(s) \in [Sender -> SenderState]
         /\ Finished(s)[s].pc = "idle"
         /\ \A t \in Sender \ {s} : Finished(s)[t] = sender[t]
<1> DEFINE state == [sender[s] EXCEPT !.pc = "idle", !.payload = NoPayload,
                                      !.devices = {}]
<1>1. sender[s] \in SenderState
  OBVIOUS
<1>2. state \in SenderState /\ state.pc = "idle"
  BY <1>1 DEF SenderState
<1>3. Finished(s) = [sender EXCEPT ![s] = state]
  BY DEF Finished
<1> HIDE DEF state
<1> QED BY <1>2, <1>3

(* A step that only ends the transaction of s.                             *)
LEMMA FinishedStep ==
  ASSUME SendingInv, NEW s \in Sender, sender' = Finished(s), Unlock(s),
         UNCHANGED <<record, reachVars, sent>>,
         answers' \in [IdempotencyKey -> SUBSET (Payload \X Response)],
         \A k \in IdempotencyKey : RecordInv(k)'
  PROVE  SendingInv'
<1> USE SenderAssumption
<1> /\ sender \in [Sender -> SenderState]
    /\ keyLock \in [IdempotencyKey -> Sender \cup {NoSender}]
  BY DEF SendingInv, SendingTypeOK
<1>1. sender' \in [Sender -> SenderState]
  BY FinishedType
<1>2. keyLock' \in [IdempotencyKey -> Sender \cup {NoSender}]
  BY DEF Unlock
<1>3. SendingTypeOK'
  BY <1>1, <1>2 DEF SendingInv, SendingTypeOK, reachVars
<1>4. ASSUME NEW t \in Sender PROVE SenderInv(t)'
  <2>1. CASE t = s
    <3>1. sender'[t].pc = "idle"
      BY <2>1 DEF Finished, SenderState
    <3> QED BY <3>1 DEF SenderInv, Holds
  <2>2. CASE t # s
    <3>1. sender'[t] = sender[t] /\ SenderInv(t) /\ sender[t].key \in IdempotencyKey
      BY <2>2 DEF Finished, SendingInv, SenderState
    <3>2. Holds(t) => keyLock'[sender[t].key] = t
      BY <2>2, <3>1 DEF Unlock, SenderInv
    <3> QED BY <3>1, <3>2 DEF SenderInv, Holds
  <2> QED BY <2>1, <2>2
<1> QED BY <1>3, <1>4 DEF SendingInv

LEMMA SendingInvStep ==
  ASSUME SendingInv, [SendingNext]_sendingVars
  PROVE  SendingInv'
<1> USE SenderAssumption
<1> /\ record \in [IdempotencyKey -> Record]
    /\ sender \in [Sender -> SenderState]
    /\ keyLock \in [IdempotencyKey -> Sender \cup {NoSender}]
    /\ answers \in [IdempotencyKey -> SUBSET (Payload \X Response)]
    /\ sent \in [IdempotencyKey -> Nat]
  BY DEF SendingInv, SendingTypeOK
<1>1. ASSUME NEW s \in Sender, NEW k \in IdempotencyKey, NEW p \in Payload,
             SendStart(s, k, p)
      PROVE  SendingInv'
  <2>1. SendingTypeOK'
    BY <1>1 DEF SendStart, SendingInv, SendingTypeOK, SenderState, reachVars
  <2>2. ASSUME NEW t \in Sender PROVE SenderInv(t)'
    BY <1>1 DEF SendStart, SendingInv, SenderInv, Holds
  <2>3. ASSUME NEW j \in IdempotencyKey PROVE RecordInv(j)'
    BY <1>1 DEF SendStart, SendingInv, RecordInv
  <2> QED BY <2>1, <2>2, <2>3 DEF SendingInv
<1>2. ASSUME NEW s \in Sender, SendLock(s)
      PROVE  SendingInv'
  <2>1. SendingTypeOK'
    BY <1>2, ZenonT(60) DEF SendLock, SendingInv, SendingTypeOK, SenderState, reachVars
  <2>2. ASSUME NEW t \in Sender PROVE SenderInv(t)'
    <3>1. SenderInv(t) /\ sender[t].key \in IdempotencyKey
      BY DEF SendingInv, SenderState
    <3>2. CASE t = s
      <4>1. /\ sender'[t].pc = "find" /\ sender'[t].key = sender[t].key
            /\ sender'[t].payload = sender[t].payload
        BY <1>2, <3>2 DEF SendLock, SenderState
      <4> QED BY <1>2, <3>1, <3>2, <4>1 DEF SendLock, SenderInv, Holds
    <3>3. CASE t # s
      BY <1>2, <3>1, <3>3 DEF SendLock, SenderInv, Holds
    <3> QED BY <3>2, <3>3
  <2>3. ASSUME NEW j \in IdempotencyKey PROVE RecordInv(j)'
    BY <1>2 DEF SendLock, SendingInv, RecordInv
  <2> QED BY <2>1, <2>2, <2>3 DEF SendingInv
<1>3. ASSUME NEW s \in Sender, SendFind(s)
      PROVE  SendingInv'
  <2> DEFINE k == sender[s].key
  <2>0. k \in IdempotencyKey /\ sender[s].pc = "find" /\ SenderInv(s) /\ RecordInv(k)
    BY <1>3 DEF SendFind, SendingInv, SenderState
  <2>1. CASE record[k].status = "valid"
    <3>1. /\ sender' = Finished(s) /\ Unlock(s)
          /\ UNCHANGED <<record, reachVars, sent>>
          /\ \/ UNCHANGED answers
             \/ /\ record[k].payload = sender[s].payload
                /\ Answer(k, record[k].payload, record[k].response)
      BY <1>3, <2>1 DEF SendFind
    <3>2. answers' \in [IdempotencyKey -> SUBSET (Payload \X Response)]
      BY <2>0, <3>1 DEF Answer, SenderInv, Record
    <3>3. ASSUME NEW j \in IdempotencyKey PROVE RecordInv(j)'
      BY <2>0, <2>1, <3>1 DEF Answer, RecordInv, SendingInv
    <3> QED BY <3>1, <3>2, <3>3, FinishedStep
  <2>2. CASE record[k].status # "valid"
    <3>1. /\ sender' = [sender EXCEPT ![s].pc = "check"]
          /\ UNCHANGED <<record, keyLock, reachVars, answers, sent>>
      BY <1>3, <2>2 DEF SendFind
    <3>2. SendingTypeOK'
      BY <3>1 DEF SendingInv, SendingTypeOK, SenderState, reachVars
    <3>3. ASSUME NEW t \in Sender PROVE SenderInv(t)'
      <4>1. SenderInv(t) /\ sender'[t].key = sender[t].key
            /\ sender'[t].payload = sender[t].payload
            /\ sender'[t].pc = IF t = s THEN "check" ELSE sender[t].pc
        BY <3>1 DEF SendingInv, SenderState
      <4> QED BY <2>0, <2>2, <3>1, <4>1 DEF SenderInv, Holds
    <3>4. ASSUME NEW j \in IdempotencyKey PROVE RecordInv(j)'
      BY <3>1 DEF SendingInv, RecordInv
    <3> QED BY <3>2, <3>3, <3>4 DEF SendingInv
  <2> QED BY <2>1, <2>2
<1>4. ASSUME NEW s \in Sender, SendCheck(s)
      PROVE  SendingInv'
  <2> DEFINE asked == Destination[sender[s].payload]
  <2>0. /\ sender[s].pc = "check" /\ SenderInv(s) /\ asked \subseteq Device
        /\ eligible \subseteq Device
    BY <1>4, DestinationAssumption DEF SendCheck, SendingInv, SenderInv, SendingTypeOK
  <2>1. CASE allowed /\ asked \subseteq eligible
    <3> DEFINE devices == IF asked = {} THEN eligible ELSE asked
    <3>1. /\ sender' = [sender EXCEPT ![s].pc = "commit", ![s].devices = devices]
          /\ UNCHANGED <<record, keyLock, reachVars, answers, sent>>
          /\ devices \subseteq Device
      BY <1>4, <2>0, <2>1 DEF SendCheck
    <3> HIDE DEF devices
    <3>2. SendingTypeOK'
      BY <3>1, ZenonT(60) DEF SendingInv, SendingTypeOK, SenderState, reachVars
    <3>3. ASSUME NEW t \in Sender PROVE SenderInv(t)'
      <4>1. SenderInv(t) /\ sender'[t].key = sender[t].key
            /\ sender'[t].payload = sender[t].payload
            /\ sender'[t].pc = IF t = s THEN "commit" ELSE sender[t].pc
        BY <3>1 DEF SendingInv, SenderState
      <4> QED BY <2>0, <3>1, <4>1 DEF SenderInv, Holds
    <3>4. ASSUME NEW j \in IdempotencyKey PROVE RecordInv(j)'
      BY <3>1 DEF SendingInv, RecordInv
    <3> QED BY <3>2, <3>3, <3>4 DEF SendingInv
  <2>2. CASE ~(allowed /\ asked \subseteq eligible)
    <3>1. /\ sender' = Finished(s) /\ Unlock(s)
          /\ UNCHANGED <<record, reachVars, answers, sent>>
      BY <1>4, <2>2 DEF SendCheck
    <3>2. ASSUME NEW j \in IdempotencyKey PROVE RecordInv(j)'
      BY <3>1 DEF SendingInv, RecordInv
    <3> QED BY <3>1, <3>2, FinishedStep
  <2> QED BY <2>1, <2>2
<1>5. ASSUME NEW s \in Sender, SendCommit(s)
      PROVE  SendingInv'
  <2> DEFINE k == sender[s].key
             p == sender[s].payload
             response == IF sender[s].devices = {} THEN "no_destinations"
                         ELSE "accepted"
             row == [status |-> "valid", payload |-> p, response |-> response]
             more == IF response = "accepted" THEN 1 ELSE 0
  <2>0. /\ k \in IdempotencyKey /\ p \in Payload /\ SenderInv(s) /\ RecordInv(k)
        /\ sender[s].pc = "commit"
    BY <1>5 DEF SendCommit, SendingInv, SenderState, SenderInv
  <2>1. /\ record' = [record EXCEPT ![k] = row]
        /\ sent' = [sent EXCEPT ![k] = @ + more]
        /\ answers' = [answers EXCEPT ![k] = @ \cup {<<p, response>>}]
        /\ sender' = Finished(s) /\ Unlock(s) /\ UNCHANGED reachVars
    BY <1>5 DEF SendCommit, Answer
  <2>2. /\ row \in Record /\ row.status = "valid" /\ row.payload = p
        /\ row.response = response /\ response \in Response /\ more \in 0..1
    BY <2>0 DEF Record, Response
  <2> HIDE DEF row, response, more
  <2>3. answers[k] = {} /\ sent[k] = 0
    BY <2>0 DEF RecordInv, SenderInv
  <2>4. SendingTypeOK'
    <3>1. record' \in [IdempotencyKey -> Record]
      BY <2>1, <2>2
    <3>2. sent' \in [IdempotencyKey -> Nat]
      <4>1. sent[k] + more \in Nat
        BY <2>2, <2>3
      <4> QED BY <2>1, <4>1
    <3>3. answers' \in [IdempotencyKey -> SUBSET (Payload \X Response)]
      BY <2>0, <2>1, <2>2
    <3>4. sender' \in [Sender -> SenderState]
      BY <2>1, FinishedType
    <3>5. keyLock' \in [IdempotencyKey -> Sender \cup {NoSender}]
      BY <2>1 DEF Unlock
    <3> QED BY <2>1, <3>1, <3>2, <3>3, <3>4, <3>5
            DEF SendingInv, SendingTypeOK, reachVars
  <2>5. ASSUME NEW t \in Sender PROVE SenderInv(t)'
    <3>1. CASE t = s
      <4>1. sender'[t].pc = "idle"
        BY <2>1, <3>1 DEF Finished, SenderState
      <4> QED BY <4>1 DEF SenderInv, Holds
    <3>2. CASE t # s
      <4>1. sender'[t] = sender[t] /\ SenderInv(t) /\ sender[t].key \in IdempotencyKey
        BY <2>1, <3>2 DEF Finished, SendingInv, SenderState
      <4>2. Holds(t) => sender[t].key # k /\ keyLock'[sender[t].key] = t
        BY <2>0, <2>1, <3>2, <4>1 DEF Unlock, SenderInv, Holds
      <4>3. sender[t].key # k => record'[sender[t].key] = record[sender[t].key]
        BY <2>1, <4>1
      <4> QED BY <4>1, <4>2, <4>3 DEF SenderInv, Holds
    <3> QED BY <3>1, <3>2
  <2>6. ASSUME NEW j \in IdempotencyKey PROVE RecordInv(j)'
    <3>1. CASE j = k
      <4>1. record'[j] = row /\ answers'[j] = {<<p, response>>} /\ sent'[j] = more
        BY <2>0, <2>1, <2>2, <2>3, <3>1
      <4> QED BY <2>2, <4>1 DEF RecordInv
    <3>2. CASE j # k
      BY <2>1, <3>2 DEF SendingInv, RecordInv
    <3> QED BY <3>1, <3>2
  <2> QED BY <2>4, <2>5, <2>6 DEF SendingInv
<1>6. ASSUME NEW s \in Sender, SendCrash(s)
      PROVE  SendingInv'
  <2>1. ASSUME NEW j \in IdempotencyKey PROVE RecordInv(j)'
    BY <1>6 DEF SendCrash, SendingInv, RecordInv
  <2> QED BY <1>6, <2>1, FinishedStep DEF SendCrash
<1>7. ASSUME NEW k \in IdempotencyKey, ExpireRecord(k)
      PROVE  SendingInv'
  <2>1. SendingTypeOK'
    BY <1>7 DEF ExpireRecord, SendingInv, SendingTypeOK, Record, reachVars
  <2>2. ASSUME NEW t \in Sender PROVE SenderInv(t)'
    <3>1. SenderInv(t) /\ sender[t].key \in IdempotencyKey
      BY DEF SendingInv, SenderState
    <3>2. record[sender[t].key].status # "valid"
            => record'[sender[t].key].status # "valid"
      BY <1>7, <3>1 DEF ExpireRecord, Record
    <3> QED BY <1>7, <3>1, <3>2 DEF ExpireRecord, SenderInv, Holds
  <2>3. ASSUME NEW j \in IdempotencyKey PROVE RecordInv(j)'
    <3>1. CASE j = k
      <4>1. record'[j].status = "expired" /\ answers'[j] = {} /\ sent'[j] = 0
        BY <1>7, <3>1 DEF ExpireRecord, Record
      <4> QED BY <4>1 DEF RecordInv
    <3>2. CASE j # k
      BY <1>7, <3>2 DEF ExpireRecord, SendingInv, RecordInv
    <3> QED BY <3>1, <3>2
  <2> QED BY <2>1, <2>2, <2>3 DEF SendingInv
<1>8. ASSUME NEW k \in IdempotencyKey, PurgeRecord(k)
      PROVE  SendingInv'
  <2>0. NoRecord \in Record /\ NoRecord.status = "none"
    BY DEF NoRecord, Record, Response
  <2>1. SendingTypeOK'
    BY <1>8, <2>0 DEF PurgeRecord, SendingInv, SendingTypeOK, reachVars
  <2>2. ASSUME NEW t \in Sender PROVE SenderInv(t)'
    BY <1>8, <2>0 DEF PurgeRecord, SendingInv, SenderInv, SenderState, Holds
  <2>3. ASSUME NEW j \in IdempotencyKey PROVE RecordInv(j)'
    BY <1>8, <2>0 DEF PurgeRecord, SendingInv, RecordInv
  <2> QED BY <2>1, <2>2, <2>3 DEF SendingInv
<1>9. CASE ChangeReach
  <2>1. SendingTypeOK'
    BY <1>9 DEF ChangeReach, SendingInv, SendingTypeOK
  <2>2. ASSUME NEW t \in Sender PROVE SenderInv(t)'
    BY <1>9 DEF ChangeReach, SendingInv, SenderInv, Holds
  <2>3. ASSUME NEW j \in IdempotencyKey PROVE RecordInv(j)'
    BY <1>9 DEF ChangeReach, SendingInv, RecordInv
  <2> QED BY <2>1, <2>2, <2>3 DEF SendingInv
<1>10. CASE UNCHANGED sendingVars
  BY <1>10 DEF sendingVars, reachVars, SendingInv, SendingTypeOK, SenderInv,
               Holds, RecordInv
<1> QED BY <1>1, <1>2, <1>3, <1>4, <1>5, <1>6, <1>7, <1>8, <1>9, <1>10
        DEF SendingNext

LEMMA SendingInvInit == SendingInit => SendingInv
BY SenderAssumption
   DEF SendingInit, SendingInv, SendingTypeOK, SenderInv, Holds, RecordInv,
       NoRecord, Record, Response, SenderState

LEMMA SendingInvHolds == SendingSpec => []SendingInv
BY SendingInvInit, SendingInvStep, PTL DEF SendingSpec

(* A key has one answer and one notification until its record expires,     *)
(* with any number of retries under way (NotificationSendService.send).    *)
THEOREM OneAnswerPerKeyHolds == SendingSpec => []OneAnswerPerKey
<1>1. SendingInv => OneAnswerPerKey
  <2> SUFFICES ASSUME SendingInv, NEW k \in IdempotencyKey
               PROVE  Cardinality(answers[k]) <= 1 /\ sent[k] <= 1
    BY DEF OneAnswerPerKey
  <2> DEFINE one == {<<record[k].payload, record[k].response>>}
  <2>1. answers[k] \subseteq one /\ sent[k] <= 1
    BY DEF SendingInv, RecordInv
  <2>2. IsFiniteSet(one) /\ Cardinality(one) = 1
    BY FS_Singleton
  <2>3. Cardinality(answers[k]) <= Cardinality(one)
    BY <2>1, <2>2, FS_Subset
  <2> QED BY <2>1, <2>2, <2>3
<1> QED BY <1>1, SendingInvHolds, PTL

-----------------------------------------------------------------------------
(* Registration.  While there is a super admin, a bootstrap past its check *)
(* was overtaken by another.                                               *)
BootstrapInv ==
  /\ DOMAIN registrant = Registrant
  /\ \A h \in Registrant :
       /\ {"pc", "overtaken"} \subseteq DOMAIN registrant[h]
       /\ registrant[h].pc \in {"lookup", "bootstrap"} /\ admins # {}
            => registrant[h].overtaken

LEMMA BootstrapInvStep ==
  ASSUME BootstrapInv, [RegistrationNext]_registrationVars
  PROVE  BootstrapInv'
<1> DOMAIN registrant = Registrant
  BY DEF BootstrapInv
<1>1. ASSUME NEW h \in Registrant, NEW state, Go(h, state), admins' = admins,
             {"pc", "overtaken"} \subseteq DOMAIN state,
             state.pc \in {"lookup", "bootstrap"} => admins = {}
      PROVE  BootstrapInv'
  BY <1>1 DEF Go, BootstrapInv
<1>2. ASSUME NEW h \in Registrant, NEW e \in Email, StartSignup(h, e)
      PROVE  BootstrapInv'
  <2> DEFINE state == [[NoRegistrant EXCEPT !.pc = "insert", !.email = e]
                         EXCEPT !.op = "start"]
  <2>1. Go(h, state) /\ admins' = admins /\ state.pc = "insert"
        /\ {"pc", "overtaken"} \subseteq DOMAIN state
    BY <1>2 DEF StartSignup, Enter, accountRowVars, NoRegistrant
  <2> QED BY <1>1, <2>1
<1>3. ASSUME NEW h \in Registrant, CommitBootstrap(h)
      PROVE  BootstrapInv'
  <2>1. CASE Go(h, NoRegistrant) /\ admins' = admins
    BY <1>1, <2>1 DEF NoRegistrant
  <2>2. CASE registrant' = [g \in Registrant |->
               IF g = h THEN NoRegistrant
               ELSE IF registrant[g].pc \in {"lookup", "bootstrap"}
               THEN [registrant[g] EXCEPT !.overtaken = TRUE] ELSE registrant[g]]
    BY <2>2 DEF NoRegistrant, BootstrapInv
  <2> QED BY <1>3, <2>1, <2>2 DEF CommitBootstrap, accountRowVars
<1>4. ASSUME NEW h \in Registrant, NEW e \in Email, NEW op, EnterCode(h, e, op)
      PROVE  BootstrapInv'
  <2> DEFINE state == [[NoRegistrant EXCEPT !.pc = "find", !.email = e]
                         EXCEPT !.op = op]
  <2>1. Go(h, state) /\ admins' = admins /\ state.pc = "find"
        /\ {"pc", "overtaken"} \subseteq DOMAIN state
    BY <1>4 DEF EnterCode, Enter, accountRowVars, NoRegistrant
  <2> QED BY <1>1, <2>1
<1>5. ASSUME NEW h \in Registrant, NEW c \in Challenge, NEW e \in Email,
             StartBootstrap(h, c, e)
      PROVE  BootstrapInv'
  <2> DEFINE state == [[NoRegistrant EXCEPT !.pc = "challenge", !.email = e,
                                            !.challenge = c]
                         EXCEPT !.op = "startBootstrap"]
  <2>1. Go(h, state) /\ admins' = admins /\ state.pc = "challenge"
        /\ {"pc", "overtaken"} \subseteq DOMAIN state
    BY <1>5 DEF StartBootstrap, Enter, accountRowVars, NoRegistrant
  <2> QED BY <1>1, <2>1
<1>6. ASSUME NEW h \in Registrant, NEW c \in Challenge, CompleteBootstrap(h, c)
      PROVE  BootstrapInv'
  <2> DEFINE state == [[NoRegistrant EXCEPT !.pc = "lookup", !.challenge = c]
                         EXCEPT !.op = "completeBootstrap"]
  <2>1. Go(h, state) /\ admins' = admins /\ admins = {}
        /\ {"pc", "overtaken"} \subseteq DOMAIN state
    BY <1>6 DEF CompleteBootstrap, BootstrapOpen, Enter, accountRowVars,
                NoRegistrant
  <2> QED BY <1>1, <2>1
<1>7. ASSUME NEW h \in Registrant, NEW right \in BOOLEAN, FindCode(h, right)
      PROVE  BootstrapInv'
  <2>1. admins' = admins
    BY <1>7 DEF FindCode, accountRowVars
  <2>2. CASE Go(h, NoRegistrant)
    BY <1>1, <2>1, <2>2 DEF NoRegistrant
  <2>3. ASSUME NEW r \in Latest(registrant[h].email),
               Go(h, [registrant[h] EXCEPT
                        !.pc = "select", !.row = r,
                        !.attempts = code[r].attempts + IF right THEN 0 ELSE 1,
                        !.consumed = right])
        PROVE  BootstrapInv'
    <3> DEFINE state == [registrant[h] EXCEPT
                        !.pc = "select", !.row = r,
                        !.attempts = code[r].attempts + IF right THEN 0 ELSE 1,
                        !.consumed = right]
    <3>1. state.pc = "select" /\ {"pc", "overtaken"} \subseteq DOMAIN state
      BY DEF BootstrapInv
    <3> HIDE DEF state
    <3>2. Go(h, state)
      BY <2>3 DEF state
    <3> QED BY <1>1, <2>1, <3>1, <3>2
  <2> QED BY <1>7, <2>2, <2>3 DEF FindCode
<1>8. ASSUME NEW h \in Registrant, SelectCode(h)
      PROVE  BootstrapInv'
  <2> DEFINE c == registrant[h]
             columns == (IF c.attempts # code[c.row].attempts THEN {"attempts"} ELSE {})
                        \cup (IF c.consumed \/ code[c.row].consumed
                              THEN {"consumed"} ELSE {})
             state == [c EXCEPT !.pc = "commit", !.columns = columns]
  <2>1. Go(h, state) /\ admins' = admins
    BY <1>8 DEF SelectCode, accountRowVars
  <2> HIDE DEF columns
  <2>2. state.pc = "commit" /\ {"pc", "overtaken"} \subseteq DOMAIN state
    BY DEF BootstrapInv
  <2> QED BY <1>1, <2>1, <2>2
<1>9. ASSUME NEW h \in Registrant, WriteCode(h)
      PROVE  BootstrapInv'
  <2>1. admins' = admins
    BY <1>9 DEF WriteCode, accountRowVars
  <2> DEFINE state == IF registrant[h].consumed
                      THEN [registrant[h] EXCEPT !.pc = "create"]
                      ELSE NoRegistrant
  <2>2. Go(h, state)
    BY <1>9 DEF WriteCode
  <2>3. /\ state.pc \notin {"lookup", "bootstrap"}
        /\ {"pc", "overtaken"} \subseteq DOMAIN state
    BY DEF BootstrapInv, NoRegistrant
  <2> QED BY <1>1, <2>1, <2>2, <2>3
<1>13. ASSUME NEW h \in Registrant, FindChallenge(h) PROVE BootstrapInv'
  <2>1. admins' = admins /\ registrant[h].pc = "lookup"
    BY <1>13 DEF FindChallenge, accountRowVars
  <2>2. CASE Go(h, NoRegistrant)
    BY <1>1, <2>1, <2>2 DEF NoRegistrant
  <2>3. CASE Go(h, [registrant[h] EXCEPT !.pc = "bootstrap"])
    BY <2>1, <2>3 DEF Go, BootstrapInv
  <2> QED BY <1>13, <2>2, <2>3 DEF FindChallenge
<1>10. ASSUME NEW h \in Registrant, \/ InsertCode(h) \/ CreateAccount(h)
                                    \/ InsertChallenge(h) \/ RegistrantCrash(h)
       PROVE  BootstrapInv'
  <2>1. Go(h, NoRegistrant) /\ admins' = admins
    BY <1>10 DEF InsertCode, CreateAccount, InsertChallenge, RegistrantCrash,
                 accountRowVars
  <2> QED BY <1>1, <2>1 DEF NoRegistrant
<1>11. ASSUME NEW e \in Email, \/ LoseAdmin(e)
                               \/ \E super \in BOOLEAN : AdminCreates(e, super)
       PROVE  BootstrapInv'
  BY <1>11 DEF LoseAdmin, AdminCreates, BootstrapInv
<1>12. ASSUME \/ \E r \in CodeRow : AgeCode(r)
              \/ \E c \in Challenge : ExpireChallenge(c)
              \/ UNCHANGED registrationVars
       PROVE  BootstrapInv'
  BY <1>12 DEF AgeCode, ExpireChallenge, registrationVars, accountRowVars,
               BootstrapInv
<1> QED BY <1>2, <1>3, <1>4, <1>5, <1>6, <1>7, <1>8, <1>9, <1>10, <1>11, <1>12,
           <1>13
        DEF RegistrationNext

LEMMA BootstrapInvHolds == RegistrationSpec => []BootstrapInv
<1>1. RegistrationInit => BootstrapInv
  BY DEF RegistrationInit, BootstrapInv, NoRegistrant
<1> QED BY <1>1, BootstrapInvStep, PTL DEF RegistrationSpec

(* A bootstrap makes a super admin where there is one only when another    *)
(* ended since its check, with any number of requests                      *)
(* (AdminAuthService.completeBootstrap).                                   *)
THEOREM BootstrapOnceHolds == RegistrationSpec => BootstrapOnce
<1>1. BootstrapInv /\ [RegistrationNext]_registrationVars
        => [\A h \in Registrant :
              registrant[h].pc = "bootstrap" /\ registrant'[h].pc = "idle"
                /\ challenge' # challenge
                /\ admins # {}
                => registrant[h].overtaken]_registrationVars
  BY DEF BootstrapInv
<1> QED BY <1>1, BootstrapInvHolds, PTL DEF RegistrationSpec, BootstrapOnce

-----------------------------------------------------------------------------
(* What a request of the registration carries.                             *)
WholeRegistrant(c) ==
  /\ c \in RegistrantState
  /\ c.pc \in {"select", "commit"} => c.row \in CodeRow
  /\ c.pc \in {"insert", "find", "select", "commit", "create", "challenge"}
       => c.email \in Email
  /\ c.pc \in {"challenge", "lookup"} => c.challenge \in Challenge
  /\ c.pc = "bootstrap" => c.challenge \in Challenge
                           /\ challenge[c.challenge].status # "none"
  /\ c.pc = "commit" /\ c.consumed => "consumed" \in c.columns

ChallengesWhole ==
  \A c \in Challenge : challenge[c].status # "none" => challenge[c].email \in Email

RegistrantsWhole == \A h \in Registrant : WholeRegistrant(registrant[h])

RegistrationInv == RegistrationTypeOK /\ RegistrantsWhole /\ ChallengesWhole

LEMMA NoRegistrantWhole ==
  NoRegistrant \in RegistrantState /\ WholeRegistrant(NoRegistrant)
<1>1. 0 \in 0..MaxCodes /\ 0 \in 0..AttemptLimit
  BY RegistrationAssumption
<1>2. NoRegistrant \in RegistrantState
  BY <1>1 DEF NoRegistrant, RegistrantState, RegistrationOp
<1> QED
  BY <1>2 DEF NoRegistrant, WholeRegistrant

LEMMA CodeTypes ==
  /\ NoCode \in Code
  /\ \A row \in Code, e \in Email : [row EXCEPT !.email = e] \in Code
  /\ \A row \in Code : [row EXCEPT !.age = IF @ = "valid" THEN "expired" ELSE "old"] \in Code
  /\ \A row \in Code, n \in 0..AttemptLimit, b \in BOOLEAN :
       [row EXCEPT !.attempts = n, !.consumed = b] \in Code
<1>1. 0 \in 0..AttemptLimit
  BY RegistrationAssumption
<1> QED
  BY <1>1 DEF NoCode, Code

(* A request steps to a state that is whole, the rest keeps its type.      *)
LEMMA GoKeeps ==
  ASSUME RegistrationInv, NEW h \in Registrant, NEW c, WholeRegistrant(c),
         Go(h, c), UNCHANGED <<runs, challenge>>,
         account' \subseteq Email, admins' \subseteq account',
         code' \in [CodeRow -> Code], guesses' \in [CodeRow -> Nat],
         passes' \in [CodeRow -> Nat], raced' \in [CodeRow -> 0..MaxRaced]
  PROVE  RegistrationInv'
<1>1. registrant' = [registrant EXCEPT ![h] = c]
  BY DEF Go
<1>2. \A g \in Registrant : registrant'[g] = IF g = h THEN c ELSE registrant[g]
  BY <1>1 DEF RegistrationInv, RegistrationTypeOK
<1>3. registrant' \in [Registrant -> RegistrantState]
  BY <1>1 DEF RegistrationInv, RegistrationTypeOK, WholeRegistrant
<1>4. RegistrantsWhole'
  BY <1>2 DEF RegistrationInv, RegistrantsWhole, WholeRegistrant
<1>5. RegistrationTypeOK' /\ ChallengesWhole'
  BY <1>3 DEF RegistrationInv, RegistrationTypeOK, ChallengesWhole
<1> QED
  BY <1>4, <1>5 DEF RegistrationInv

(* There is one newest code that is not consumed.                          *)
LEMMA LatestUnique ==
  ASSUME NEW e, NEW q \in Latest(e), NEW r \in Latest(e)
  PROVE  q = r
<1>1. q \in Nat /\ r \in Nat
  BY RegistrationAssumption DEF Latest, Sent, CodeRow
<1>2. ~(q < r) /\ ~(r < q)
  BY <1>1 DEF Latest
<1> QED
  BY <1>1, <1>2

(* findValidVerification drops the request or has it save the newest code, *)
(* which had attempts left.                                                *)
LEMMA FindCodeCases ==
  ASSUME RegistrationInv, NEW h \in Registrant, NEW right \in BOOLEAN,
         FindCode(h, right)
  PROVE  /\ registrant[h].pc = "find"
         /\ UNCHANGED <<runs, account, admins, code, challenge, guesses, passes>>
         /\ raced' \in [CodeRow -> 0..MaxRaced]
         /\ \A r \in CodeRow : raced'[r] >= raced[r]
         /\ \/ Go(h, NoRegistrant)
            \/ \E r \in CodeRow, c \in RegistrantState :
                 /\ Go(h, c)
                 /\ WholeRegistrant(c)
                 /\ c.pc = "select" /\ c.row = r /\ c.consumed = right
                 /\ c.attempts = code[r].attempts + IF right THEN 0 ELSE 1
                 /\ ~code[r].consumed
                 /\ (\E g \in Registrant \ {h} : Saving(g, r))
                      => raced'[r] = raced[r] + 1
<1>1. /\ registrant[h].pc = "find" /\ registrant[h].email \in Email
      /\ registrant[h] \in RegistrantState
      /\ UNCHANGED <<runs, account, admins, code, challenge, guesses, passes>>
  BY DEF FindCode, accountRowVars, RegistrationInv, RegistrantsWhole,
         WholeRegistrant
<1>2. raced \in [CodeRow -> 0..MaxRaced] /\ MaxRaced \in Nat
  BY RegistrationAssumption DEF RegistrationInv, RegistrationTypeOK
<1>3. \/ Go(h, NoRegistrant) /\ UNCHANGED raced
      \/ \E r \in Latest(registrant[h].email) :
           /\ ~Exhausted(r)
           /\ Go(h, [registrant[h] EXCEPT
                       !.pc = "select", !.row = r,
                       !.attempts = code[r].attempts + IF right THEN 0 ELSE 1,
                       !.consumed = right])
           /\ IF \E g \in Registrant \ {h} : Saving(g, r)
              THEN raced[r] < MaxRaced /\ raced' = [raced EXCEPT ![r] = @ + 1]
              ELSE UNCHANGED raced
  BY LatestUnique DEF FindCode
<1>4. CASE Go(h, NoRegistrant) /\ UNCHANGED raced
  BY <1>1, <1>2, <1>4
<1>5. ASSUME NEW r \in Latest(registrant[h].email),
             ~Exhausted(r),
             Go(h, [registrant[h] EXCEPT
                      !.pc = "select", !.row = r,
                      !.attempts = code[r].attempts + IF right THEN 0 ELSE 1,
                      !.consumed = right]),
             IF \E g \in Registrant \ {h} : Saving(g, r)
             THEN raced[r] < MaxRaced /\ raced' = [raced EXCEPT ![r] = @ + 1]
             ELSE UNCHANGED raced
      PROVE  /\ raced' \in [CodeRow -> 0..MaxRaced]
             /\ \A q \in CodeRow : raced'[q] >= raced[q]
             /\ \/ Go(h, NoRegistrant)
                \/ \E c \in RegistrantState :
                     /\ Go(h, c)
                     /\ WholeRegistrant(c)
                     /\ c.pc = "select" /\ c.row = r /\ c.consumed = right
                     /\ c.attempts = code[r].attempts + IF right THEN 0 ELSE 1
                     /\ ~code[r].consumed
                     /\ (\E g \in Registrant \ {h} : Saving(g, r))
                          => raced'[r] = raced[r] + 1
  <2>1. r \in CodeRow /\ ~code[r].consumed
    BY DEF Latest, Sent
  <2>2. code[r].attempts \in 0..AttemptLimit /\ AttemptLimit \in Nat
    BY <2>1, RegistrationAssumption DEF RegistrationInv, RegistrationTypeOK, Code
  <2>3. PICK n : n = code[r].attempts + IF right THEN 0 ELSE 1
    OBVIOUS
  <2>4. n \in 0..AttemptLimit
    BY <1>5, <2>2, <2>3 DEF Exhausted
  <2>5. PICK c : c = [registrant[h] EXCEPT !.pc = "select", !.row = r,
                                           !.attempts = n, !.consumed = right]
    OBVIOUS
  <2>6. r \in 0..MaxCodes
    BY <2>1, RegistrationAssumption DEF CodeRow
  <2>7. /\ c \in RegistrantState /\ c.pc = "select" /\ c.row = r
        /\ c.attempts = n /\ c.consumed = right
        /\ c.email = registrant[h].email
    BY <1>1, <2>4, <2>5, <2>6 DEF RegistrantState
  <2>8. WholeRegistrant(c)
    BY <1>1, <2>1, <2>7 DEF WholeRegistrant
  <2>9. Go(h, c)
    BY <1>5, <2>3, <2>5
  <2>10. raced[r] \in 0..MaxRaced
    BY <1>2, <2>1
  <2>11. /\ raced' \in [CodeRow -> 0..MaxRaced]
         /\ \A q \in CodeRow : raced'[q] >= raced[q]
         /\ (\E g \in Registrant \ {h} : Saving(g, r))
              => raced'[r] = raced[r] + 1
    <3>1. CASE UNCHANGED raced /\ ~\E g \in Registrant \ {h} : Saving(g, r)
      BY <1>2, <3>1
    <3>2. CASE raced[r] < MaxRaced /\ raced' = [raced EXCEPT ![r] = @ + 1]
      BY <1>2, <2>1, <2>10, <3>2
    <3> QED
      BY <1>5, <3>1, <3>2
  <2> QED
    BY <2>1, <2>3, <2>7, <2>8, <2>9, <2>11
<1>6. \A r \in Latest(registrant[h].email) : r \in CodeRow
  BY DEF Latest, Sent
<1> QED
  BY <1>1, <1>3, <1>4, <1>5, <1>6

LEMMA SelectCodeCases ==
  ASSUME RegistrationInv, NEW h \in Registrant, SelectCode(h)
  PROVE  /\ registrant[h].pc = "select"
         /\ UNCHANGED <<runs, account, admins, code, challenge, guesses, passes,
                        raced>>
         /\ \E c \in RegistrantState :
              /\ Go(h, c)
              /\ WholeRegistrant(c)
              /\ c.pc = "commit" /\ c.row = registrant[h].row
              /\ c.attempts = registrant[h].attempts
              /\ c.consumed = registrant[h].consumed
              /\ "attempts" \notin c.columns
                   => code[c.row].attempts = c.attempts
<1>1. PICK C \in SUBSET {"attempts", "consumed"} :
        C = (IF registrant[h].attempts # code[registrant[h].row].attempts
             THEN {"attempts"} ELSE {})
            \cup (IF registrant[h].consumed \/ code[registrant[h].row].consumed
                  THEN {"consumed"} ELSE {})
  OBVIOUS
<1>2. PICK c : c = [registrant[h] EXCEPT !.pc = "commit", !.columns = C]
  OBVIOUS
<1>3. /\ registrant[h].pc = "select" /\ Go(h, c)
      /\ UNCHANGED <<runs, account, admins, code, challenge, guesses, passes,
                     raced>>
  BY <1>1, <1>2 DEF SelectCode, accountRowVars, codeHistory
<1>4. registrant[h] \in RegistrantState /\ WholeRegistrant(registrant[h])
  BY DEF RegistrationInv, RegistrantsWhole, WholeRegistrant
<1>5. /\ c \in RegistrantState /\ c.pc = "commit" /\ c.row = registrant[h].row
      /\ c.attempts = registrant[h].attempts /\ c.email = registrant[h].email
      /\ c.consumed = registrant[h].consumed /\ c.columns = C
  BY <1>2, <1>4 DEF RegistrantState
<1>6. WholeRegistrant(c)
  BY <1>1, <1>3, <1>4, <1>5 DEF WholeRegistrant
<1>7. "attempts" \notin C => code[c.row].attempts = c.attempts
  BY <1>1, <1>5
<1> QED
  BY <1>3, <1>5, <1>6, <1>7

(* The UPDATE of a save writes what it has, or leaves what is there.       *)
LEMMA WriteCodeCases ==
  ASSUME RegistrationInv, NEW h \in Registrant, WriteCode(h),
         NEW r, r = registrant[h].row
  PROVE  /\ registrant[h].pc = "commit" /\ r \in CodeRow
         /\ UNCHANGED <<runs, account, admins, challenge, raced>>
         /\ code' \in [CodeRow -> Code]
         /\ \A q \in CodeRow : q # r => code'[q] = code[q]
         /\ code'[r].attempts = IF "attempts" \in registrant[h].columns
                                THEN registrant[h].attempts
                                ELSE code[r].attempts
         /\ code'[r].consumed = IF "consumed" \in registrant[h].columns
                                THEN registrant[h].consumed
                                ELSE code[r].consumed
         /\ guesses' \in [CodeRow -> Nat]
         /\ passes' \in [CodeRow -> Nat]
         /\ \A q \in CodeRow :
              /\ guesses'[q] = IF q = r /\ ~registrant[h].consumed
                               THEN guesses[q] + 1 ELSE guesses[q]
              /\ passes'[q] = IF q = r /\ registrant[h].consumed
                              THEN passes[q] + 1 ELSE passes[q]
         /\ \E c \in RegistrantState : /\ Go(h, c)
                                       /\ WholeRegistrant(c)
                                       /\ c.pc \in {"create", "idle"}
<1>1. /\ registrant[h] \in RegistrantState /\ WholeRegistrant(registrant[h])
      /\ code \in [CodeRow -> Code]
      /\ guesses \in [CodeRow -> Nat] /\ passes \in [CodeRow -> Nat]
  BY DEF RegistrationInv, RegistrantsWhole, WholeRegistrant, RegistrationTypeOK
<1>2. /\ registrant[h].pc = "commit" /\ r \in CodeRow
      /\ UNCHANGED <<runs, account, admins, challenge, raced>>
  BY <1>1 DEF WriteCode, accountRowVars, WholeRegistrant
<1>3. /\ code[r] \in Code
      /\ registrant[h].attempts \in 0..AttemptLimit
      /\ registrant[h].consumed \in BOOLEAN
      /\ code[r].attempts \in 0..AttemptLimit /\ code[r].consumed \in BOOLEAN
  BY <1>1, <1>2 DEF RegistrantState, Code
<1>4. PICK n \in 0..AttemptLimit :
        n = IF "attempts" \in registrant[h].columns THEN registrant[h].attempts
            ELSE code[r].attempts
  BY <1>3
<1>5. PICK b \in BOOLEAN :
        b = IF "consumed" \in registrant[h].columns THEN registrant[h].consumed
            ELSE code[r].consumed
  BY <1>3
<1>6. PICK row : row = [code[r] EXCEPT !.attempts = n, !.consumed = b]
  OBVIOUS
<1>7. row \in Code /\ row.attempts = n /\ row.consumed = b
  <2>1. row \in Code
    BY <1>3, <1>6, CodeTypes
  <2> QED
    BY <1>3, <1>6, <2>1 DEF Code
<1>8. code' = [code EXCEPT ![r] = row]
  <2>1. code' = [code EXCEPT ![r].attempts = n, ![r].consumed = b]
    BY <1>1, <1>2, <1>3, <1>4, <1>5 DEF WriteCode
  <2> QED
    BY <1>1, <1>2, <1>6, <2>1
<1>9. /\ code' \in [CodeRow -> Code] /\ code'[r] = row
      /\ \A q \in CodeRow : q # r => code'[q] = code[q]
  BY <1>1, <1>2, <1>7, <1>8
<1>10. /\ guesses' = [guesses EXCEPT ![r] = @ + IF registrant[h].consumed
                                                THEN 0 ELSE 1]
       /\ passes' = [passes EXCEPT ![r] = @ + IF registrant[h].consumed
                                              THEN 1 ELSE 0]
  BY DEF WriteCode
<1>11. guesses[r] \in Nat /\ passes[r] \in Nat
  BY <1>1, <1>2
<1>12. /\ guesses' \in [CodeRow -> Nat]
       /\ \A q \in CodeRow :
            guesses'[q] = IF q = r /\ ~registrant[h].consumed
                          THEN guesses[q] + 1 ELSE guesses[q]
  BY <1>1, <1>2, <1>10, <1>11
<1>13. /\ passes' \in [CodeRow -> Nat]
       /\ \A q \in CodeRow :
            passes'[q] = IF q = r /\ registrant[h].consumed
                         THEN passes[q] + 1 ELSE passes[q]
  BY <1>1, <1>2, <1>10, <1>11
<1>14. \E c \in RegistrantState :
         Go(h, c) /\ WholeRegistrant(c) /\ c.pc \in {"create", "idle"}
  <2>1. PICK d : d = [registrant[h] EXCEPT !.pc = "create"]
    OBVIOUS
  <2>2. /\ d \in RegistrantState /\ d.pc = "create"
        /\ d.email = registrant[h].email
    BY <1>1, <2>1 DEF RegistrantState
  <2>3. WholeRegistrant(d)
    BY <1>1, <1>2, <2>2 DEF WholeRegistrant
  <2>4. Go(h, d) \/ Go(h, NoRegistrant)
    BY <2>1 DEF WriteCode
  <2>5. NoRegistrant.pc = "idle"
    BY DEF NoRegistrant
  <2> QED
    BY <2>2, <2>3, <2>4, <2>5, NoRegistrantWhole
<1> QED
  BY <1>2, <1>4, <1>5, <1>7, <1>9, <1>12, <1>13, <1>14

-----------------------------------------------------------------------------
LEMMA EnterKeeps ==
  ASSUME RegistrationInv, NEW h \in Registrant, NEW c, WholeRegistrant(c),
         Go(h, c),
         UNCHANGED <<runs, account, admins, code, challenge, codeHistory>>
  PROVE  RegistrationInv'
BY GoKeeps DEF RegistrationInv, RegistrationTypeOK, codeHistory

LEMMA BeginKeeps ==
  ASSUME RegistrationInv, NEW h \in Registrant,
         \/ \E e \in Email :
              \/ StartSignup(h, e)
              \/ \E op \in {"verify", "complete"} : EnterCode(h, e, op)
              \/ \E c \in Challenge : StartBootstrap(h, c, e)
         \/ \E c \in Challenge : CompleteBootstrap(h, c)
  PROVE  RegistrationInv'
<1>1. ASSUME NEW op, NEW s, NEW pc,
             Enter(h, op, s),
             UNCHANGED <<runs, account, admins, code, challenge, codeHistory>>,
             op \in RegistrationOp, WholeRegistrant(s), s.pc = pc,
             pc \in {"insert", "find", "challenge", "lookup"}
      PROVE  RegistrationInv'
  <2>1. PICK c : c = [s EXCEPT !.op = op]
    OBVIOUS
  <2>2. /\ c \in RegistrantState /\ c.pc = pc /\ c.email = s.email
        /\ c.challenge = s.challenge
    BY <1>1, <2>1 DEF WholeRegistrant, RegistrantState
  <2>3. WholeRegistrant(c)
    BY <1>1, <2>2 DEF WholeRegistrant
  <2>4. Go(h, c)
    BY <1>1, <2>1 DEF Enter
  <2> QED
    BY <1>1, <2>3, <2>4, EnterKeeps
<1>2. ASSUME NEW e \in Email, StartSignup(h, e) PROVE RegistrationInv'
  <2>1. PICK s : s = [NoRegistrant EXCEPT !.pc = "insert", !.email = e]
    OBVIOUS
  <2>2. s \in RegistrantState /\ s.pc = "insert" /\ s.email = e
    BY <2>1, NoRegistrantWhole DEF NoRegistrant, RegistrantState
  <2>3. WholeRegistrant(s)
    BY <2>2 DEF WholeRegistrant
  <2>4. /\ Enter(h, "start", s)
        /\ UNCHANGED <<runs, account, admins, code, challenge, codeHistory>>
    BY <1>2, <2>1 DEF StartSignup, accountRowVars
  <2> QED
    BY <1>1, <2>2, <2>3, <2>4 DEF RegistrationOp
<1>3. ASSUME NEW e \in Email, NEW op \in {"verify", "complete"},
             EnterCode(h, e, op)
      PROVE  RegistrationInv'
  <2>1. PICK s : s = [NoRegistrant EXCEPT !.pc = "find", !.email = e]
    OBVIOUS
  <2>2. s \in RegistrantState /\ s.pc = "find" /\ s.email = e
    BY <2>1, NoRegistrantWhole DEF NoRegistrant, RegistrantState
  <2>3. WholeRegistrant(s)
    BY <2>2 DEF WholeRegistrant
  <2>4. /\ Enter(h, op, s)
        /\ UNCHANGED <<runs, account, admins, code, challenge, codeHistory>>
    BY <1>3, <2>1 DEF EnterCode, accountRowVars
  <2> QED
    BY <1>1, <2>2, <2>3, <2>4 DEF RegistrationOp
<1>4. ASSUME NEW e \in Email, NEW x \in Challenge, StartBootstrap(h, x, e)
      PROVE  RegistrationInv'
  <2>1. PICK s : s = [NoRegistrant EXCEPT !.pc = "challenge", !.email = e,
                                          !.challenge = x]
    OBVIOUS
  <2>2. /\ s \in RegistrantState /\ s.pc = "challenge" /\ s.email = e
        /\ s.challenge = x
    BY <2>1, NoRegistrantWhole DEF NoRegistrant, RegistrantState
  <2>3. WholeRegistrant(s)
    BY <2>2 DEF WholeRegistrant
  <2>4. /\ Enter(h, "startBootstrap", s)
        /\ UNCHANGED <<runs, account, admins, code, challenge, codeHistory>>
    BY <1>4, <2>1 DEF StartBootstrap, accountRowVars
  <2> QED
    BY <1>1, <2>2, <2>3, <2>4 DEF RegistrationOp
<1>5. ASSUME NEW x \in Challenge, CompleteBootstrap(h, x) PROVE RegistrationInv'
  <2>1. PICK s : s = [NoRegistrant EXCEPT !.pc = "lookup", !.challenge = x]
    OBVIOUS
  <2>2. s \in RegistrantState /\ s.pc = "lookup" /\ s.challenge = x
    BY <2>1, NoRegistrantWhole DEF NoRegistrant, RegistrantState
  <2>4. WholeRegistrant(s)
    BY <2>2 DEF WholeRegistrant
  <2>5. /\ Enter(h, "completeBootstrap", s)
        /\ UNCHANGED <<runs, account, admins, code, challenge, codeHistory>>
    BY <1>5, <2>1 DEF CompleteBootstrap, accountRowVars
  <2> QED
    BY <1>1, <2>2, <2>4, <2>5 DEF RegistrationOp
<1> QED
  BY <1>2, <1>3, <1>4, <1>5

LEMMA CodesKeep ==
  ASSUME RegistrationInv, NEW h \in Registrant,
         \/ InsertCode(h)
         \/ \E right \in BOOLEAN : FindCode(h, right)
         \/ SelectCode(h)
         \/ WriteCode(h)
         \/ CreateAccount(h)
         \/ FindChallenge(h)
         \/ RegistrantCrash(h)
  PROVE  RegistrationInv'
<1>1. /\ code \in [CodeRow -> Code] /\ admins \subseteq account
      /\ account \subseteq Email /\ guesses \in [CodeRow -> Nat]
      /\ passes \in [CodeRow -> Nat] /\ raced \in [CodeRow -> 0..MaxRaced]
      /\ WholeRegistrant(registrant[h]) /\ WholeRegistrant(NoRegistrant)
  BY NoRegistrantWhole DEF RegistrationInv, RegistrationTypeOK, RegistrantsWhole
<1>2. CASE InsertCode(h)
  <2>1. PICK r \in CodeRow :
          code' = [code EXCEPT ![r] = [NoCode EXCEPT !.email = registrant[h].email]]
    BY <1>2 DEF InsertCode
  <2>2. registrant[h].email \in Email
    BY <1>1, <1>2 DEF InsertCode, WholeRegistrant
  <2>3. [NoCode EXCEPT !.email = registrant[h].email] \in Code
    BY <2>2, CodeTypes
  <2>4. code' \in [CodeRow -> Code]
    BY <1>1, <2>1, <2>3
  <2> QED
    BY <1>1, <1>2, <2>4, GoKeeps DEF InsertCode, accountRowVars, codeHistory
<1>3. CASE \E right \in BOOLEAN : FindCode(h, right)
  <2>1. PICK right \in BOOLEAN : FindCode(h, right)
    BY <1>3
  <2>2. /\ UNCHANGED <<runs, account, admins, code, challenge, guesses, passes>>
        /\ raced' \in [CodeRow -> 0..MaxRaced]
        /\ \E c : Go(h, c) /\ WholeRegistrant(c)
    BY <1>1, <2>1, FindCodeCases
  <2> QED
    BY <1>1, <2>2, GoKeeps
<1>4. CASE SelectCode(h)
  <2>1. /\ UNCHANGED <<runs, account, admins, code, challenge, guesses, passes,
                       raced>>
        /\ \E c : Go(h, c) /\ WholeRegistrant(c)
    BY <1>4, SelectCodeCases
  <2> QED
    BY <1>1, <2>1, GoKeeps
<1>5. CASE WriteCode(h)
  <2>1. /\ UNCHANGED <<runs, account, admins, challenge, raced>>
        /\ code' \in [CodeRow -> Code]
        /\ guesses' \in [CodeRow -> Nat] /\ passes' \in [CodeRow -> Nat]
        /\ \E c : Go(h, c) /\ WholeRegistrant(c)
    BY <1>5, WriteCodeCases
  <2> QED
    BY <1>1, <2>1, GoKeeps
<1>6. CASE CreateAccount(h)
  <2>1. registrant[h].email \in Email
    BY <1>1, <1>6 DEF CreateAccount, WholeRegistrant
  <2>2. account' \subseteq Email /\ admins' \subseteq account'
    BY <1>1, <1>6, <2>1 DEF CreateAccount
  <2> QED
    BY <1>1, <1>6, <2>2, GoKeeps DEF CreateAccount, codeHistory
<1>7. CASE RegistrantCrash(h)
  BY <1>1, <1>7, EnterKeeps DEF RegistrantCrash, accountRowVars
<1>8. CASE FindChallenge(h)
  <2> DEFINE c == [registrant[h] EXCEPT !.pc = "bootstrap"]
  <2>1. /\ UNCHANGED <<runs, account, admins, code, challenge, guesses, passes,
                       raced>>
        /\ registrant[h].pc = "lookup"
        /\ \/ Go(h, NoRegistrant)
           \/ Go(h, c) /\ challenge[registrant[h].challenge].status = "open"
    BY <1>8 DEF FindChallenge, accountRowVars, codeHistory
  <2>2. registrant[h].challenge \in Challenge /\ registrant[h] \in RegistrantState
    BY <1>1, <2>1 DEF WholeRegistrant
  <2>3. c \in RegistrantState /\ c.pc = "bootstrap"
        /\ c.challenge = registrant[h].challenge
    BY <2>2 DEF RegistrantState
  <2>4. challenge[registrant[h].challenge].status = "open" => WholeRegistrant(c)
    BY <2>2, <2>3 DEF WholeRegistrant
  <2> QED
    BY <1>1, <2>1, <2>4, GoKeeps
<1> QED
  BY <1>2, <1>3, <1>4, <1>5, <1>6, <1>7, <1>8

(* A challenge that is there stays there.                                  *)
LEMMA ChallengeStepKeeps ==
  ASSUME RegistrationInv, NEW x \in Challenge, NEW row \in ChallengeRow,
         row.status # "none", row.email \in Email,
         challenge' = [challenge EXCEPT ![x] = row],
         registrant' \in [Registrant -> RegistrantState],
         \A h \in Registrant : WholeRegistrant(registrant'[h]),
         account' \subseteq Email, admins' \subseteq account',
         UNCHANGED <<runs, code, guesses, passes, raced>>
  PROVE  RegistrationInv'
<1>1. challenge \in [Challenge -> ChallengeRow]
  BY DEF RegistrationInv, RegistrationTypeOK
<1>2. /\ challenge' \in [Challenge -> ChallengeRow]
      /\ \A y \in Challenge : challenge'[y] = IF y = x THEN row ELSE challenge[y]
  BY <1>1
<1>3. ChallengesWhole'
  BY <1>2 DEF RegistrationInv, ChallengesWhole
<1>4. RegistrantsWhole'
  BY <1>2 DEF RegistrantsWhole, WholeRegistrant
<1>5. RegistrationTypeOK'
  BY <1>2 DEF RegistrationInv, RegistrationTypeOK
<1> QED
  BY <1>3, <1>4, <1>5 DEF RegistrationInv

LEMMA ChallengesKeep ==
  ASSUME RegistrationInv,
         \/ \E h \in Registrant : InsertChallenge(h) \/ CommitBootstrap(h)
         \/ \E c \in Challenge : ExpireChallenge(c)
  PROVE  RegistrationInv'
<1>1. /\ challenge \in [Challenge -> ChallengeRow] /\ admins \subseteq account
      /\ account \subseteq Email
      /\ registrant \in [Registrant -> RegistrantState]
      /\ \A h \in Registrant : WholeRegistrant(registrant[h])
      /\ NoRegistrant \in RegistrantState /\ WholeRegistrant(NoRegistrant)
  BY NoRegistrantWhole DEF RegistrationInv, RegistrationTypeOK, RegistrantsWhole
<1>2. ASSUME NEW h \in Registrant, InsertChallenge(h) PROVE RegistrationInv'
  <2>1. PICK x : x = registrant[h].challenge
    OBVIOUS
  <2>2. x \in Challenge /\ registrant[h].email \in Email
    BY <1>1, <1>2, <2>1 DEF InsertChallenge, WholeRegistrant
  <2>3. PICK row : row = [email |-> registrant[h].email, status |-> "open"]
    OBVIOUS
  <2>4. row \in ChallengeRow /\ row.status = "open" /\ row.email \in Email
    BY <2>2, <2>3 DEF ChallengeRow
  <2>5. /\ challenge' = [challenge EXCEPT ![x] = row]
        /\ registrant' = [registrant EXCEPT ![h] = NoRegistrant]
        /\ UNCHANGED <<runs, account, admins, code, guesses, passes, raced>>
    BY <1>2, <2>1, <2>3 DEF InsertChallenge, Go, accountRowVars, codeHistory
  <2>6. /\ registrant' \in [Registrant -> RegistrantState]
        /\ \A g \in Registrant : WholeRegistrant(registrant'[g])
    BY <1>1, <2>5
  <2> QED
    BY <1>1, <2>2, <2>4, <2>5, <2>6, ChallengeStepKeeps
<1>3. ASSUME NEW h \in Registrant, CommitBootstrap(h) PROVE RegistrationInv'
  <2>1. PICK x : x = registrant[h].challenge
    OBVIOUS
  <2>2. x \in Challenge /\ challenge[x].email \in Email
    BY <1>1, <1>3, <2>1
    DEF CommitBootstrap, WholeRegistrant, RegistrationInv, ChallengesWhole
  <2>3. CASE challenge[x].email \in account
    BY <1>1, <1>3, <2>1, <2>3, EnterKeeps DEF CommitBootstrap, accountRowVars
  <2>4. CASE challenge[x].email \notin account
    <3>1. PICK row : row = [challenge[x] EXCEPT !.status = "consumed"]
      OBVIOUS
    <3>2. /\ row \in ChallengeRow /\ row.status = "consumed"
          /\ row.email = challenge[x].email
      BY <1>1, <2>2, <3>1 DEF ChallengeRow
    <3>3. /\ account' = account \cup {challenge[x].email}
          /\ admins' = admins \cup {challenge[x].email}
          /\ registrant' = [g \in Registrant |->
               IF g = h THEN NoRegistrant
               ELSE IF registrant[g].pc \in {"lookup", "bootstrap"}
               THEN [registrant[g] EXCEPT !.overtaken = TRUE] ELSE registrant[g]]
          /\ UNCHANGED <<runs, code, guesses, passes, raced>>
      BY <1>3, <2>1, <2>4 DEF CommitBootstrap, codeHistory
    <3>4. challenge' = [challenge EXCEPT ![x].status = "consumed"]
      BY <1>3, <2>1, <2>4 DEF CommitBootstrap
    <3>5. challenge' = [challenge EXCEPT ![x] = row]
      BY <1>1, <2>2, <3>1, <3>4
    <3>6. ASSUME NEW g \in Registrant,
                 registrant[g].pc \in {"lookup", "bootstrap"}
          PROVE  WholeRegistrant([registrant[g] EXCEPT !.overtaken = TRUE])
      <4>1. PICK c : c = [registrant[g] EXCEPT !.overtaken = TRUE]
        OBVIOUS
      <4>2. /\ c \in RegistrantState /\ c.pc = registrant[g].pc
            /\ c.challenge = registrant[g].challenge
        BY <1>1, <3>6, <4>1 DEF RegistrantState
      <4>3. WholeRegistrant(c)
        BY <1>1, <3>6, <4>2 DEF WholeRegistrant
      <4> QED
        BY <4>1, <4>3
    <3>7. /\ \A g \in Registrant : WholeRegistrant(registrant'[g])
          /\ registrant' \in [Registrant -> RegistrantState]
      <4>1. \A g \in Registrant : WholeRegistrant(registrant'[g])
        BY <1>1, <3>3, <3>6
      <4>2. \A g \in Registrant : registrant'[g] \in RegistrantState
        BY <4>1 DEF WholeRegistrant
      <4> QED
        BY <3>3, <4>1, <4>2
    <3> QED
      BY <1>1, <2>2, <3>2, <3>3, <3>5, <3>7, ChallengeStepKeeps
  <2> QED
    BY <2>3, <2>4
<1>4. ASSUME NEW x \in Challenge, ExpireChallenge(x) PROVE RegistrationInv'
  <2>1. PICK row : row = [challenge[x] EXCEPT !.status = "expired"]
    OBVIOUS
  <2>2. /\ row \in ChallengeRow /\ row.status = "expired"
        /\ row.email = challenge[x].email
    BY <1>1, <2>1 DEF ChallengeRow
  <2>3. row.email \in Email
    BY <1>4, <2>2 DEF ExpireChallenge, RegistrationInv, ChallengesWhole
  <2>4. /\ challenge' = [challenge EXCEPT ![x] = row]
        /\ UNCHANGED <<runs, account, admins, code, registrant, guesses, passes,
                       raced>>
    BY <1>1, <1>4, <2>1 DEF ExpireChallenge, accountRowVars, codeHistory
  <2> QED
    BY <1>1, <2>2, <2>3, <2>4, ChallengeStepKeeps
<1> QED
  BY <1>2, <1>3, <1>4

LEMMA RegistrationInvStep ==
  ASSUME RegistrationInv, [RegistrationNext]_registrationVars
  PROVE  RegistrationInv'
<1>1. /\ code \in [CodeRow -> Code] /\ admins \subseteq account
      /\ account \subseteq Email
  BY DEF RegistrationInv, RegistrationTypeOK
<1>2. ASSUME UNCHANGED <<runs, challenge, registrant, guesses, passes, raced>>,
             account' \subseteq Email, admins' \subseteq account',
             code' \in [CodeRow -> Code]
      PROVE  RegistrationInv'
  <2>1. RegistrationTypeOK' /\ ChallengesWhole'
    BY <1>2 DEF RegistrationInv, RegistrationTypeOK, ChallengesWhole
  <2>2. RegistrantsWhole'
    BY <1>2 DEF RegistrationInv, RegistrantsWhole, WholeRegistrant
  <2> QED
    BY <2>1, <2>2 DEF RegistrationInv
<1>3. ASSUME NEW e \in Email, LoseAdmin(e) PROVE RegistrationInv'
  BY <1>1, <1>2, <1>3 DEF LoseAdmin, codeHistory
<1>4. ASSUME NEW e \in Email, NEW super \in BOOLEAN, AdminCreates(e, super)
      PROVE  RegistrationInv'
  BY <1>1, <1>2, <1>4 DEF AdminCreates, codeHistory
<1>5. ASSUME NEW r \in CodeRow, AgeCode(r) PROVE RegistrationInv'
  <2>1. [code[r] EXCEPT !.age = IF @ = "valid" THEN "expired" ELSE "old"] \in Code
    BY <1>1, CodeTypes
  <2>2. code' = [code EXCEPT ![r] = [code[r] EXCEPT !.age = IF @ = "valid" THEN "expired" ELSE "old"]]
    BY <1>1, <1>5 DEF AgeCode
  <2>3. code' \in [CodeRow -> Code]
    BY <1>1, <2>1, <2>2
  <2> QED
    BY <1>1, <1>2, <1>5, <2>3 DEF AgeCode, accountRowVars, codeHistory
<1>6. CASE UNCHANGED registrationVars
  BY <1>1, <1>2, <1>6 DEF registrationVars, accountRowVars, codeHistory
<1> QED
  BY <1>3, <1>4, <1>5, <1>6, BeginKeeps, CodesKeep, ChallengesKeep
  DEF RegistrationNext

LEMMA RegistrationInvInit ==
  RegistrationInit => RegistrationInv
<1> SUFFICES ASSUME RegistrationInit PROVE RegistrationInv
  OBVIOUS
<1>1. 0 \in 0..MaxRaced
  BY RegistrationAssumption
<1>2. [email |-> NoEmail, status |-> "none"] \in ChallengeRow
  BY DEF ChallengeRow
<1>3. RegistrationTypeOK
  BY <1>1, <1>2, NoRegistrantWhole, CodeTypes
  DEF RegistrationInit, RegistrationTypeOK
<1>4. RegistrantsWhole
  BY NoRegistrantWhole DEF RegistrationInit, RegistrantsWhole
<1>5. ChallengesWhole
  BY DEF RegistrationInit, ChallengesWhole
<1> QED
  BY <1>3, <1>4, <1>5 DEF RegistrationInv

LEMMA RegistrationInvHolds ==
  RegistrationSpec => []RegistrationInv
BY RegistrationInvInit, RegistrationInvStep, PTL DEF RegistrationSpec

(* The type invariant of the registration.                                 *)
THEOREM RegistrationTypeCorrect ==
  RegistrationSpec => []RegistrationTypeOK
<1>1. RegistrationInv => RegistrationTypeOK
  BY DEF RegistrationInv
<1> QED
  BY <1>1, RegistrationInvHolds, PTL

-----------------------------------------------------------------------------
(* Guesses and passes.  The requests that are to save a code are charged   *)
(* to it with the guesses it had: neither the count in the row nor the     *)
(* count that any of them carries is behind by more than the code was      *)
(* raced.  They are charged with a pass each as well: the first to load a  *)
(* code finds it unconsumed, so it was raced for every pass, and each that *)
(* joins it races the code once more.                                      *)
Savers(r) == {h \in Registrant : Saving(h, r)}

Charged(r) == guesses[r] + Cardinality(Savers(r))

Charges(r) ==
  /\ Charged(r) <= code[r].attempts + raced[r] + IF Savers(r) = {} THEN 0 ELSE 1
  /\ \A h \in Savers(r) :
       /\ Charged(r) <= registrant[h].attempts + raced[r]
                          + IF registrant[h].consumed THEN 1 ELSE 0
       /\ registrant[h].pc = "commit" /\ ~registrant[h].consumed
            /\ "attempts" \notin registrant[h].columns
            => Charged(r) <= code[r].attempts + raced[r]

Spends(r) ==
  /\ passes[r] <= raced[r] + 1
  /\ Savers(r) # {} => passes[r] + Cardinality(Savers(r)) <= raced[r] + 1
  /\ Savers(r) = {} /\ ~code[r].consumed => passes[r] <= raced[r]

Saved(r) == IsFiniteSet(Savers(r)) /\ Charges(r) /\ Spends(r)

SavesInv == \A r \in CodeRow : Saved(r)

LEMMA SaverTypes ==
  ASSUME RegistrationInv, NEW r \in CodeRow, IsFiniteSet(Savers(r))
  PROVE  /\ code[r].attempts \in Nat /\ code[r].consumed \in BOOLEAN
         /\ guesses[r] \in Nat /\ passes[r] \in Nat /\ raced[r] \in Nat
         /\ Cardinality(Savers(r)) \in Nat
         /\ Charged(r) \in Nat
         /\ \A h \in Registrant : /\ registrant[h].attempts \in Nat
                                  /\ registrant[h].consumed \in BOOLEAN
<1>1. Cardinality(Savers(r)) \in Nat
  BY FS_CardinalityType
<1>2. /\ code[r] \in Code /\ guesses[r] \in Nat /\ passes[r] \in Nat
      /\ raced[r] \in 0..MaxRaced
      /\ \A h \in Registrant : registrant[h] \in RegistrantState
  BY DEF RegistrationInv, RegistrationTypeOK
<1>3. /\ code[r].attempts \in Nat /\ code[r].consumed \in BOOLEAN
      /\ raced[r] \in Nat
      /\ \A h \in Registrant : /\ registrant[h].attempts \in Nat
                               /\ registrant[h].consumed \in BOOLEAN
  BY <1>2, RegistrationAssumption DEF Code, RegistrantState
<1> QED
  BY <1>1, <1>2, <1>3 DEF Charged

(* A step that leaves a code and the requests that are to save it alone.   *)
LEMMA SavedKept ==
  ASSUME RegistrationInv, RegistrationInv', NEW r \in CodeRow, Saved(r),
         \A g \in Registrant : /\ Saving(g, r)' <=> Saving(g, r)
                               /\ Saving(g, r) => registrant'[g] = registrant[g],
         code'[r].attempts = code[r].attempts,
         code'[r].consumed = code[r].consumed,
         guesses'[r] = guesses[r], passes'[r] = passes[r], raced'[r] >= raced[r]
  PROVE  Saved(r)'
<1>1. Savers(r)' = Savers(r)
  BY DEF Savers
<1>2. /\ code[r].attempts \in Nat /\ raced[r] \in Nat /\ Charged(r) \in Nat
      /\ \A h \in Registrant : registrant[h].attempts \in Nat
  BY SaverTypes DEF Saved
<1>3. raced'[r] \in Nat
  BY RegistrationAssumption DEF RegistrationInv, RegistrationTypeOK
<1>4. Charged(r)' = Charged(r)
  BY <1>1 DEF Charged
<1>5. \A h \in Savers(r) : h \in Registrant /\ registrant'[h] = registrant[h]
  BY DEF Savers
<1>6. Charges(r)'
  <2>1. Charged(r)' <= code'[r].attempts + raced'[r]
                         + IF Savers(r)' = {} THEN 0 ELSE 1
    BY <1>1, <1>2, <1>3, <1>4 DEF Saved, Charges
  <2>2. ASSUME NEW h \in Savers(r)
        PROVE  /\ Charged(r)' <= registrant'[h].attempts + raced'[r]
                                   + IF registrant'[h].consumed THEN 1 ELSE 0
               /\ registrant'[h].pc = "commit" /\ ~registrant'[h].consumed
                    /\ "attempts" \notin registrant'[h].columns
                    => Charged(r)' <= code'[r].attempts + raced'[r]
    BY <1>2, <1>3, <1>4, <1>5 DEF Saved, Charges
  <2> QED
    BY <1>1, <2>1, <2>2 DEF Charges
<1>7. Spends(r)'
  <2>1. passes[r] \in Nat /\ Cardinality(Savers(r)) \in Nat
    BY SaverTypes DEF Saved
  <2> QED
    BY <1>1, <1>2, <1>3, <2>1 DEF Saved, Spends
<1> QED
  BY <1>1, <1>6, <1>7 DEF Saved

(* A request that steps from and to a place where it saves no code r.      *)
LEMMA SavedBeside ==
  ASSUME RegistrationInv, RegistrationInv', NEW r \in CodeRow, Saved(r),
         NEW h \in Registrant, NEW c, Go(h, c), ~Saving(h, r),
         c.pc \notin {"select", "commit"} \/ c.row # r,
         code'[r].attempts = code[r].attempts,
         code'[r].consumed = code[r].consumed,
         guesses'[r] = guesses[r], passes'[r] = passes[r], raced'[r] >= raced[r]
  PROVE  Saved(r)'
<1>1. \A g \in Registrant : registrant'[g] = IF g = h THEN c ELSE registrant[g]
  BY DEF Go, RegistrationInv, RegistrationTypeOK
<1>2. \A g \in Registrant : /\ Saving(g, r)' <=> Saving(g, r)
                            /\ Saving(g, r) => registrant'[g] = registrant[g]
  BY <1>1 DEF Saving
<1> QED
  BY <1>2, SavedKept

(* findValidVerification loads the code.                                   *)
LEMMA SavedLoaded ==
  ASSUME RegistrationInv, RegistrationInv', NEW r \in CodeRow, Saved(r),
         NEW h \in Registrant, NEW c, Go(h, c), ~Saving(h, r),
         c.pc = "select", c.row = r, c.consumed \in BOOLEAN,
         c.attempts = code[r].attempts + IF c.consumed THEN 0 ELSE 1,
         ~code[r].consumed,
         (\E g \in Registrant \ {h} : Saving(g, r)) => raced'[r] = raced[r] + 1,
         code'[r] = code[r],
         guesses'[r] = guesses[r], passes'[r] = passes[r], raced'[r] >= raced[r]
  PROVE  Saved(r)'
<1>1. \A g \in Registrant : registrant'[g] = IF g = h THEN c ELSE registrant[g]
  BY DEF Go, RegistrationInv, RegistrationTypeOK
<1>2. Savers(r)' = Savers(r) \cup {h} /\ h \notin Savers(r)
  BY <1>1 DEF Savers, Saving
<1>3. IsFiniteSet(Savers(r))'
  BY <1>2, FS_AddElement DEF Saved
<1>4. Cardinality(Savers(r))' = Cardinality(Savers(r)) + 1
  BY <1>2, FS_AddElement DEF Saved
<1>5. /\ code[r].attempts \in Nat /\ raced[r] \in Nat /\ Charged(r) \in Nat
      /\ guesses[r] \in Nat /\ Cardinality(Savers(r)) \in Nat /\ passes[r] \in Nat
      /\ \A g \in Registrant : registrant[g].attempts \in Nat
  BY SaverTypes DEF Saved
<1>6. raced'[r] \in Nat
  BY RegistrationAssumption DEF RegistrationInv, RegistrationTypeOK
<1>7. Charged(r)' = Charged(r) + 1
  BY <1>4, <1>5 DEF Charged
<1>8. Savers(r) # {} => raced'[r] = raced[r] + 1
  BY <1>2 DEF Savers
<1>9. Charged(r)' <= code[r].attempts + raced'[r] + 1
  BY <1>5, <1>6, <1>7, <1>8 DEF Saved, Charges
<1>10. Charges(r)'
  <2>1. Charged(r)' <= code'[r].attempts + raced'[r]
                         + IF Savers(r)' = {} THEN 0 ELSE 1
    BY <1>2, <1>9
  <2>2. ASSUME NEW g \in Savers(r)
        PROVE  /\ Charged(r)' <= registrant'[g].attempts + raced'[r]
                                   + IF registrant'[g].consumed THEN 1 ELSE 0
               /\ registrant'[g].pc = "commit" /\ ~registrant'[g].consumed
                    /\ "attempts" \notin registrant'[g].columns
                    => Charged(r)' <= code'[r].attempts + raced'[r]
    <3>1. g \in Registrant /\ g # h /\ registrant'[g] = registrant[g]
      BY <1>1, <1>2 DEF Savers
    <3>2. raced'[r] = raced[r] + 1
      BY <1>8
    <3>3. registrant[g].attempts \in Nat
      BY <1>5, <3>1
    <3>4. Charged(r)' <= registrant'[g].attempts + raced'[r]
                           + IF registrant'[g].consumed THEN 1 ELSE 0
      BY <1>5, <1>7, <3>1, <3>2, <3>3 DEF Saved, Charges
    <3>5. registrant'[g].pc = "commit" /\ ~registrant'[g].consumed
            /\ "attempts" \notin registrant'[g].columns
            => Charged(r)' <= code'[r].attempts + raced'[r]
      BY <1>5, <1>7, <3>1, <3>2 DEF Saved, Charges
    <3> QED
      BY <3>4, <3>5
  <2>3. registrant'[h] = c
    BY <1>1
  <2>4. /\ Charged(r)' <= registrant'[h].attempts + raced'[r]
                            + IF registrant'[h].consumed THEN 1 ELSE 0
        /\ registrant'[h].pc # "commit"
    <3>1. CASE c.consumed
      BY <1>5, <1>6, <1>9, <2>3, <3>1
    <3>2. CASE ~c.consumed
      BY <1>5, <1>6, <1>9, <2>3, <3>2
    <3> QED
      BY <3>1, <3>2
  <2> QED
    BY <1>2, <2>1, <2>2, <2>4 DEF Charges
<1>11. Spends(r)'
  <2>1. Savers(r)' # {}
    BY <1>2
  <2>2. passes[r] + Cardinality(Savers(r)) <= raced'[r]
    <3>1. CASE Savers(r) = {}
      <4>1. Cardinality(Savers(r)) = 0
        BY <3>1, FS_EmptySet
      <4> QED
        BY <1>5, <1>6, <3>1, <4>1 DEF Saved, Spends
    <3>2. CASE Savers(r) # {}
      BY <1>5, <1>6, <1>8, <3>2 DEF Saved, Spends
    <3> QED
      BY <3>1, <3>2
  <2> QED
    BY <1>4, <1>5, <1>6, <2>1, <2>2 DEF Spends
<1> QED
  BY <1>3, <1>10, <1>11 DEF Saved

(* The SELECT of a save: the request goes on with what it carries.         *)
LEMMA SavedSelected ==
  ASSUME RegistrationInv, RegistrationInv', NEW r \in CodeRow, Saved(r),
         NEW h \in Registrant, NEW c, Go(h, c), registrant[h].pc = "select",
         registrant[h].row = r, c.pc = "commit", c.row = r,
         c.attempts = registrant[h].attempts, c.consumed = registrant[h].consumed,
         "attempts" \notin c.columns => code[r].attempts = c.attempts,
         code'[r] = code[r], guesses'[r] = guesses[r], passes'[r] = passes[r],
         raced'[r] = raced[r]
  PROVE  Saved(r)'
<1>1. \A g \in Registrant : registrant'[g] = IF g = h THEN c ELSE registrant[g]
  BY DEF Go, RegistrationInv, RegistrationTypeOK
<1>2. Savers(r)' = Savers(r) /\ h \in Savers(r)
  BY <1>1 DEF Savers, Saving
<1>3. Charged(r)' = Charged(r)
  BY <1>2 DEF Charged
<1>4. /\ code[r].attempts \in Nat /\ raced[r] \in Nat /\ Charged(r) \in Nat
      /\ \A g \in Registrant : registrant[g].attempts \in Nat
  BY SaverTypes DEF Saved
<1>5. Charges(r)'
  <2>1. \A g \in Savers(r) :
          Charged(r)' <= registrant'[g].attempts + raced'[r]
                           + IF registrant'[g].consumed THEN 1 ELSE 0
    BY <1>1, <1>3 DEF Saved, Charges, Savers
  <2>2. ~c.consumed /\ "attempts" \notin c.columns
          => Charged(r) <= code[r].attempts + raced[r]
    BY <1>2, <1>4 DEF Saved, Charges
  <2>3. \A g \in Savers(r) :
          registrant'[g].pc = "commit" /\ ~registrant'[g].consumed
            /\ "attempts" \notin registrant'[g].columns
            => Charged(r)' <= code'[r].attempts + raced'[r]
    BY <1>1, <1>3, <2>2 DEF Saved, Charges, Savers
  <2> QED
    BY <1>2, <1>3, <2>1, <2>3 DEF Saved, Charges
<1>6. Spends(r)'
  BY <1>2 DEF Saved, Spends
<1> QED
  BY <1>2, <1>5, <1>6 DEF Saved

(* A request ends its save, or crashes before it.                          *)
LEMMA SavedLeft ==
  ASSUME RegistrationInv, RegistrationInv', NEW r \in CodeRow, Saved(r),
         NEW h \in Registrant, NEW c, Go(h, c), Saving(h, r),
         c.pc \notin {"select", "commit"}, raced'[r] = raced[r],
         \/ /\ code'[r] = code[r]
            /\ guesses'[r] = guesses[r] /\ passes'[r] = passes[r]
         \/ /\ registrant[h].pc = "commit"
            /\ code'[r].attempts = IF "attempts" \in registrant[h].columns
                                   THEN registrant[h].attempts
                                   ELSE code[r].attempts
            /\ code'[r].consumed = IF "consumed" \in registrant[h].columns
                                   THEN registrant[h].consumed
                                   ELSE code[r].consumed
            /\ guesses'[r] = IF ~registrant[h].consumed
                             THEN guesses[r] + 1 ELSE guesses[r]
            /\ passes'[r] = IF registrant[h].consumed
                            THEN passes[r] + 1 ELSE passes[r]
  PROVE  Saved(r)'
<1>1. \A g \in Registrant : registrant'[g] = IF g = h THEN c ELSE registrant[g]
  BY DEF Go, RegistrationInv, RegistrationTypeOK
<1>2. Savers(r)' = Savers(r) \ {h} /\ h \in Savers(r)
  BY <1>1 DEF Savers, Saving
<1>3. /\ IsFiniteSet(Savers(r))'
      /\ Cardinality(Savers(r))' = Cardinality(Savers(r)) - 1
  BY <1>2, FS_RemoveElement DEF Saved
<1>4. /\ code[r].attempts \in Nat /\ raced[r] \in Nat /\ Charged(r) \in Nat
      /\ guesses[r] \in Nat /\ Cardinality(Savers(r)) \in Nat /\ passes[r] \in Nat
      /\ code[r].consumed \in BOOLEAN
      /\ \A g \in Registrant : /\ registrant[g].attempts \in Nat
                               /\ registrant[g].consumed \in BOOLEAN
  BY SaverTypes DEF Saved
<1>5. registrant[h].pc = "commit" /\ registrant[h].consumed
        => "consumed" \in registrant[h].columns
  BY DEF RegistrationInv, RegistrantsWhole, WholeRegistrant
<1>6. /\ Charged(r) <= code[r].attempts + raced[r] + 1
      /\ Charged(r) <= registrant[h].attempts + raced[r]
                         + IF registrant[h].consumed THEN 1 ELSE 0
      /\ registrant[h].pc = "commit" /\ ~registrant[h].consumed
           /\ "attempts" \notin registrant[h].columns
           => Charged(r) <= code[r].attempts + raced[r]
  BY <1>2 DEF Saved, Charges
<1>7. /\ Charged(r)' \in Nat
      /\ Charged(r)' <= Charged(r)
      /\ Charged(r)' <= code'[r].attempts + raced[r]
  <2>1. CASE code'[r] = code[r] /\ guesses'[r] = guesses[r]
    <3>1. Charged(r)' = Charged(r) - 1
      BY <1>3, <1>4, <2>1 DEF Charged
    <3>2. Charged(r)' \in Nat
      BY <1>3, <1>4, <2>1, FS_CardinalityType DEF Charged
    <3> QED
      BY <1>4, <1>6, <2>1, <3>1, <3>2
  <2>2. CASE /\ registrant[h].pc = "commit"
             /\ code'[r].attempts = IF "attempts" \in registrant[h].columns
                                    THEN registrant[h].attempts
                                    ELSE code[r].attempts
             /\ guesses'[r] = IF ~registrant[h].consumed
                              THEN guesses[r] + 1 ELSE guesses[r]
    <3>1. Charged(r)' \in Nat
      BY <1>3, <1>4, <2>2, FS_CardinalityType DEF Charged
    <3>2. CASE registrant[h].consumed
      <4>1. Charged(r)' = Charged(r) - 1
        BY <1>3, <1>4, <2>2, <3>2 DEF Charged
      <4> QED
        BY <1>4, <1>6, <2>2, <3>1, <3>2, <4>1
    <3>3. CASE ~registrant[h].consumed
      <4>1. Charged(r)' = Charged(r)
        BY <1>3, <1>4, <2>2, <3>3 DEF Charged
      <4> QED
        BY <1>4, <1>6, <2>2, <3>3, <4>1
    <3> QED
      BY <3>2, <3>3
  <2> QED
    BY <2>1, <2>2
<1>8. code'[r].attempts \in Nat
  BY RegistrationAssumption DEF RegistrationInv, RegistrationTypeOK, Code
<1>9. Charges(r)'
  <2>1. \A g \in Savers(r)' :
          g \in Savers(r) /\ g \in Registrant /\ registrant'[g] = registrant[g]
    BY <1>1, <1>2 DEF Savers
  <2>2. \A g \in Savers(r)' :
          Charged(r)' <= registrant'[g].attempts + raced'[r]
                           + IF registrant'[g].consumed THEN 1 ELSE 0
    BY <1>4, <1>7, <2>1 DEF Saved, Charges
  <2> QED
    BY <1>4, <1>7, <1>8, <2>2 DEF Charges
<1>10. Spends(r)'
  <2>1. passes[r] + Cardinality(Savers(r)) <= raced[r] + 1
    BY <1>2 DEF Saved, Spends
  <2>2. /\ passes'[r] \in Nat
        /\ passes'[r] <= passes[r] + 1
        /\ passes'[r] = passes[r] \/ code'[r].consumed
    BY <1>4, <1>5
  <2>3. Cardinality(Savers(r))' \in Nat
    BY <1>3, FS_CardinalityType
  <2>4. Savers(r)' # {} => Cardinality(Savers(r))' # 0
    BY <1>3, FS_EmptySet
  <2>5. passes'[r] + Cardinality(Savers(r))' <= raced[r] + 1
    BY <1>3, <1>4, <2>1, <2>2
  <2>6. Savers(r)' = {} /\ ~code'[r].consumed => passes'[r] <= raced[r]
    BY <1>3, <1>4, <2>1, <2>2, FS_EmptySet
  <2> QED
    BY <1>4, <2>2, <2>3, <2>5, <2>6 DEF Spends
<1> QED
  BY <1>3, <1>9, <1>10 DEF Saved

-----------------------------------------------------------------------------
LEMMA BeginSaves ==
  ASSUME RegistrationInv, RegistrationInv', NEW r \in CodeRow, Saved(r),
         NEW h \in Registrant,
         \/ \E e \in Email :
              \/ StartSignup(h, e)
              \/ \E op \in {"verify", "complete"} : EnterCode(h, e, op)
              \/ \E c \in Challenge : StartBootstrap(h, c, e)
         \/ \E c \in Challenge : CompleteBootstrap(h, c)
  PROVE  Saved(r)'
<1>1. raced[r] \in Nat
  BY SaverTypes DEF Saved
<1>2. ASSUME NEW c, Go(h, c), registrant[h].pc = "idle",
             c.pc \notin {"select", "commit"}, UNCHANGED <<code, codeHistory>>
      PROVE  Saved(r)'
  <2>1. ~Saving(h, r)
    BY <1>2 DEF Saving
  <2> QED
    BY <1>1, <1>2, <2>1, SavedBeside DEF codeHistory
<1>3. ASSUME NEW e \in Email, StartSignup(h, e) PROVE Saved(r)'
  <2>1. PICK c : c = [[NoRegistrant EXCEPT !.pc = "insert", !.email = e]
                        EXCEPT !.op = "start"]
    OBVIOUS
  <2>2. c.pc = "insert"
    BY <2>1 DEF NoRegistrant
  <2>3. /\ registrant[h].pc = "idle" /\ Go(h, c)
        /\ UNCHANGED <<code, codeHistory>>
    BY <1>3, <2>1 DEF StartSignup, Enter
  <2> QED
    BY <1>2, <2>2, <2>3
<1>4. ASSUME NEW e \in Email, NEW op \in {"verify", "complete"},
             EnterCode(h, e, op)
      PROVE  Saved(r)'
  <2>1. PICK c : c = [[NoRegistrant EXCEPT !.pc = "find", !.email = e]
                        EXCEPT !.op = op]
    OBVIOUS
  <2>2. c.pc = "find"
    BY <2>1 DEF NoRegistrant
  <2>3. /\ registrant[h].pc = "idle" /\ Go(h, c)
        /\ UNCHANGED <<code, codeHistory>>
    BY <1>4, <2>1 DEF EnterCode, Enter
  <2> QED
    BY <1>2, <2>2, <2>3
<1>5. ASSUME NEW e \in Email, NEW x \in Challenge, StartBootstrap(h, x, e)
      PROVE  Saved(r)'
  <2>1. PICK c : c = [[NoRegistrant EXCEPT !.pc = "challenge", !.email = e,
                                           !.challenge = x]
                        EXCEPT !.op = "startBootstrap"]
    OBVIOUS
  <2>2. c.pc = "challenge"
    BY <2>1 DEF NoRegistrant
  <2>3. /\ registrant[h].pc = "idle" /\ Go(h, c)
        /\ UNCHANGED <<code, codeHistory>>
    BY <1>5, <2>1 DEF StartBootstrap, Enter
  <2> QED
    BY <1>2, <2>2, <2>3
<1>6. ASSUME NEW x \in Challenge, CompleteBootstrap(h, x) PROVE Saved(r)'
  <2>1. PICK c : c = [[NoRegistrant EXCEPT !.pc = "lookup", !.challenge = x]
                        EXCEPT !.op = "completeBootstrap"]
    OBVIOUS
  <2>2. c.pc = "lookup"
    BY <2>1 DEF NoRegistrant
  <2>3. /\ registrant[h].pc = "idle" /\ Go(h, c)
        /\ UNCHANGED <<code, codeHistory>>
    BY <1>6, <2>1 DEF CompleteBootstrap, Enter
  <2> QED
    BY <1>2, <2>2, <2>3
<1> QED
  BY <1>3, <1>4, <1>5, <1>6

LEMMA CodesSave ==
  ASSUME RegistrationInv, RegistrationInv', NEW r \in CodeRow, Saved(r),
         NEW h \in Registrant,
         \/ InsertCode(h)
         \/ \E right \in BOOLEAN : FindCode(h, right)
         \/ SelectCode(h)
         \/ WriteCode(h)
         \/ CreateAccount(h)
         \/ FindChallenge(h)
         \/ RegistrantCrash(h)
  PROVE  Saved(r)'
<1>1. /\ code \in [CodeRow -> Code] /\ raced[r] \in Nat
      /\ registrant[h] \in RegistrantState /\ WholeRegistrant(registrant[h])
      /\ NoRegistrant.pc = "idle"
  BY SaverTypes
  DEF Saved, RegistrationInv, RegistrationTypeOK, RegistrantsWhole, NoRegistrant
<1>2. CASE InsertCode(h)
  <2>1. PICK q \in CodeRow :
          /\ code[q] = NoCode
          /\ code' = [code EXCEPT
                        ![q] = [NoCode EXCEPT !.email = registrant[h].email]]
    BY <1>2 DEF InsertCode
  <2>2. /\ [NoCode EXCEPT !.email = registrant[h].email].attempts = NoCode.attempts
        /\ [NoCode EXCEPT !.email = registrant[h].email].consumed = NoCode.consumed
    BY DEF NoCode
  <2>3. /\ code'[r].attempts = code[r].attempts
        /\ code'[r].consumed = code[r].consumed
    BY <1>1, <2>1, <2>2
  <2>4. /\ ~Saving(h, r) /\ Go(h, NoRegistrant)
        /\ UNCHANGED <<guesses, passes, raced>>
    BY <1>2 DEF InsertCode, Saving, codeHistory
  <2> QED
    BY <1>1, <2>3, <2>4, SavedBeside
<1>3. CASE \E right \in BOOLEAN : FindCode(h, right)
  <2>1. PICK right \in BOOLEAN : FindCode(h, right)
    BY <1>3
  <2>2. /\ UNCHANGED <<code, guesses, passes>> /\ raced'[r] >= raced[r]
        /\ ~Saving(h, r)
    BY <2>1, FindCodeCases DEF Saving
  <2>3. CASE Go(h, NoRegistrant)
    BY <1>1, <2>2, <2>3, SavedBeside
  <2>4. ASSUME NEW q \in CodeRow, NEW c, Go(h, c),
               c.pc = "select" /\ c.row = q /\ c.consumed = right,
               c.attempts = code[q].attempts + IF right THEN 0 ELSE 1,
               ~code[q].consumed,
               (\E g \in Registrant \ {h} : Saving(g, q))
                 => raced'[q] = raced[q] + 1
        PROVE  Saved(r)'
    <3>1. CASE q = r
      BY <2>2, <2>4, <3>1, SavedLoaded
    <3>2. CASE q # r
      BY <2>2, <2>4, <3>2, SavedBeside
    <3> QED
      BY <3>1, <3>2
  <2>5. \/ Go(h, NoRegistrant)
        \/ \E q \in CodeRow, c \in RegistrantState :
             /\ Go(h, c)
             /\ c.pc = "select" /\ c.row = q /\ c.consumed = right
             /\ c.attempts = code[q].attempts + IF right THEN 0 ELSE 1
             /\ ~code[q].consumed
             /\ (\E g \in Registrant \ {h} : Saving(g, q))
                  => raced'[q] = raced[q] + 1
    BY <2>1, FindCodeCases
  <2> QED
    BY <2>3, <2>4, <2>5
<1>4. CASE SelectCode(h)
  <2>1. /\ registrant[h].pc = "select"
        /\ UNCHANGED <<code, guesses, passes, raced>>
    BY <1>4, SelectCodeCases
  <2>2. PICK c : /\ Go(h, c)
                 /\ c.pc = "commit" /\ c.row = registrant[h].row
                 /\ c.attempts = registrant[h].attempts
                 /\ c.consumed = registrant[h].consumed
                 /\ "attempts" \notin c.columns
                      => code[c.row].attempts = c.attempts
    BY <1>4, SelectCodeCases
  <2>3. CASE registrant[h].row = r
    BY <2>1, <2>2, <2>3, SavedSelected
  <2>4. CASE registrant[h].row # r
    BY <1>1, <2>1, <2>2, <2>4, SavedBeside DEF Saving
  <2> QED
    BY <2>3, <2>4
<1>5. CASE WriteCode(h)
  <2>1. PICK q : q = registrant[h].row
    OBVIOUS
  <2>2. /\ registrant[h].pc = "commit" /\ q \in CodeRow
        /\ UNCHANGED raced
        /\ \A p \in CodeRow : p # q => code'[p] = code[p]
        /\ code'[q].attempts = IF "attempts" \in registrant[h].columns
                               THEN registrant[h].attempts ELSE code[q].attempts
        /\ code'[q].consumed = IF "consumed" \in registrant[h].columns
                               THEN registrant[h].consumed ELSE code[q].consumed
        /\ \A p \in CodeRow :
             /\ guesses'[p] = IF p = q /\ ~registrant[h].consumed
                              THEN guesses[p] + 1 ELSE guesses[p]
             /\ passes'[p] = IF p = q /\ registrant[h].consumed
                             THEN passes[p] + 1 ELSE passes[p]
    BY <1>5, <2>1, WriteCodeCases
  <2>3. PICK c : Go(h, c) /\ c.pc \in {"create", "idle"}
    BY <1>5, <2>1, WriteCodeCases
  <2>4. CASE q = r
    <3>1. Saving(h, r)
      BY <2>1, <2>2, <2>4 DEF Saving
    <3>2. /\ guesses'[r] = IF ~registrant[h].consumed
                           THEN guesses[r] + 1 ELSE guesses[r]
          /\ passes'[r] = IF registrant[h].consumed
                          THEN passes[r] + 1 ELSE passes[r]
      BY <2>2, <2>4
    <3> QED
      BY <2>2, <2>3, <2>4, <3>1, <3>2, SavedLeft
  <2>5. CASE q # r
    <3>1. ~Saving(h, r)
      BY <2>1, <2>5 DEF Saving
    <3>2. guesses'[r] = guesses[r] /\ passes'[r] = passes[r]
      BY <2>2, <2>5
    <3> QED
      BY <1>1, <2>2, <2>3, <2>5, <3>1, <3>2, SavedBeside
  <2> QED
    BY <2>4, <2>5
<1>6. CASE CreateAccount(h)
  BY <1>1, <1>6, SavedBeside DEF CreateAccount, Saving, codeHistory
<1>8. CASE FindChallenge(h)
  <2>1. /\ registrant[h].pc = "lookup" /\ ~Saving(h, r)
        /\ UNCHANGED <<code, guesses, passes, raced>>
    BY <1>8 DEF FindChallenge, Saving, codeHistory
  <2>2. PICK c : Go(h, c) /\ c.pc \notin {"select", "commit"}
    <3>1. [registrant[h] EXCEPT !.pc = "bootstrap"].pc = "bootstrap"
      BY <1>1 DEF RegistrantState
    <3>2. \/ Go(h, NoRegistrant)
          \/ Go(h, [registrant[h] EXCEPT !.pc = "bootstrap"])
      BY <1>8 DEF FindChallenge
    <3> QED
      BY <1>1, <3>1, <3>2
  <2> QED
    BY <1>1, <2>1, <2>2, SavedBeside
<1>7. CASE RegistrantCrash(h)
  <2>1. Go(h, NoRegistrant) /\ UNCHANGED <<code, guesses, passes, raced>>
    BY <1>7 DEF RegistrantCrash, codeHistory
  <2>2. CASE Saving(h, r)
    BY <1>1, <2>1, <2>2, SavedLeft
  <2>3. CASE ~Saving(h, r)
    BY <1>1, <2>1, <2>3, SavedBeside
  <2> QED
    BY <2>2, <2>3
<1> QED
  BY <1>2, <1>3, <1>4, <1>5, <1>6, <1>7, <1>8

LEMMA SavesInvStep ==
  ASSUME RegistrationInv, SavesInv, [RegistrationNext]_registrationVars
  PROVE  SavesInv'
<1> SUFFICES ASSUME NEW r \in CodeRow PROVE Saved(r)'
  BY DEF SavesInv, CodeRow
<1>1. /\ RegistrationInv' /\ Saved(r) /\ raced[r] \in Nat
      /\ code \in [CodeRow -> Code]
      /\ registrant \in [Registrant -> RegistrantState]
  BY RegistrationInvStep, SaverTypes
  DEF SavesInv, Saved, RegistrationInv, RegistrationTypeOK
<1>2. ASSUME \A g \in Registrant : /\ Saving(g, r)' <=> Saving(g, r)
                                   /\ Saving(g, r)
                                        => registrant'[g] = registrant[g],
             code'[r].attempts = code[r].attempts,
             code'[r].consumed = code[r].consumed,
             UNCHANGED <<guesses, passes, raced>>
      PROVE  Saved(r)'
  BY <1>1, <1>2, SavedKept
<1>3. ASSUME UNCHANGED registrant
      PROVE  \A g \in Registrant : /\ Saving(g, r)' <=> Saving(g, r)
                                   /\ Saving(g, r)
                                        => registrant'[g] = registrant[g]
  BY <1>3 DEF Saving
<1>4. ASSUME NEW h \in Registrant, InsertChallenge(h) PROVE Saved(r)'
  <2>1. /\ Go(h, NoRegistrant) /\ ~Saving(h, r) /\ NoRegistrant.pc = "idle"
        /\ UNCHANGED <<code, guesses, passes, raced>>
    BY <1>4 DEF InsertChallenge, Saving, NoRegistrant, codeHistory
  <2> QED
    BY <1>1, <2>1, SavedBeside
<1>5. ASSUME NEW h \in Registrant, CommitBootstrap(h) PROVE Saved(r)'
  <2>1. /\ registrant[h].pc = "bootstrap"
        /\ UNCHANGED <<code, guesses, passes, raced>>
    BY <1>5 DEF CommitBootstrap, codeHistory
  <2>2. CASE Go(h, NoRegistrant)
    <3>1. ~Saving(h, r) /\ NoRegistrant.pc = "idle"
      BY <2>1 DEF Saving, NoRegistrant
    <3> QED
      BY <1>1, <2>1, <2>2, <3>1, SavedBeside
  <2>3. CASE registrant' = [g \in Registrant |->
               IF g = h THEN NoRegistrant
               ELSE IF registrant[g].pc \in {"lookup", "bootstrap"}
               THEN [registrant[g] EXCEPT !.overtaken = TRUE] ELSE registrant[g]]
    <3>1. ASSUME NEW g \in Registrant,
                 registrant[g].pc \in {"lookup", "bootstrap"}
          PROVE  registrant'[g].pc \notin {"select", "commit"}
      <4>1. [registrant[g] EXCEPT !.overtaken = TRUE].pc = registrant[g].pc
        BY <1>1, <3>1 DEF RegistrantState
      <4> QED
        BY <2>3, <3>1, <4>1 DEF NoRegistrant
    <3>2. \A g \in Registrant :
            registrant[g].pc \notin {"lookup", "bootstrap"}
              => registrant'[g] = registrant[g]
      BY <2>1, <2>3
    <3> QED
      BY <1>2, <2>1, <3>1, <3>2 DEF Saving
  <2> QED
    BY <1>5, <2>2, <2>3 DEF CommitBootstrap
<1>6. ASSUME NEW e \in Email, LoseAdmin(e) PROVE Saved(r)'
  BY <1>2, <1>3, <1>6 DEF LoseAdmin, codeHistory
<1>7. ASSUME NEW e \in Email, NEW super \in BOOLEAN, AdminCreates(e, super)
      PROVE  Saved(r)'
  BY <1>2, <1>3, <1>7 DEF AdminCreates, codeHistory
<1>8. ASSUME NEW q \in CodeRow, AgeCode(q) PROVE Saved(r)'
  <2>1. /\ [code[q] EXCEPT !.age = IF @ = "valid" THEN "expired" ELSE "old"].attempts = code[q].attempts
        /\ [code[q] EXCEPT !.age = IF @ = "valid" THEN "expired" ELSE "old"].consumed = code[q].consumed
    BY <1>1 DEF Code
  <2>2. code' = [code EXCEPT ![q] = [code[q] EXCEPT !.age = IF @ = "valid" THEN "expired" ELSE "old"]]
    BY <1>1, <1>8 DEF AgeCode
  <2>3. /\ code'[r].attempts = code[r].attempts
        /\ code'[r].consumed = code[r].consumed
    BY <1>1, <2>1, <2>2
  <2> QED
    BY <1>2, <1>3, <1>8, <2>3 DEF AgeCode, codeHistory
<1>9. ASSUME NEW x \in Challenge, ExpireChallenge(x) PROVE Saved(r)'
  BY <1>2, <1>3, <1>9 DEF ExpireChallenge, codeHistory
<1>10. CASE UNCHANGED registrationVars
  BY <1>2, <1>3, <1>10 DEF registrationVars, codeHistory
<1> QED
  BY <1>1, <1>4, <1>5, <1>6, <1>7, <1>8, <1>9, <1>10, BeginSaves, CodesSave
  DEF RegistrationNext

LEMMA SavesInvInit ==
  RegistrationInit => SavesInv
<1> SUFFICES ASSUME RegistrationInit, NEW r \in CodeRow PROVE Saved(r)
  BY DEF SavesInv
<1>1. Savers(r) = {}
  BY DEF RegistrationInit, Savers, Saving, NoRegistrant
<1>2. IsFiniteSet(Savers(r)) /\ Cardinality(Savers(r)) = 0
  BY <1>1, FS_EmptySet
<1>3. /\ code[r].attempts = 0 /\ code[r].consumed = FALSE
      /\ guesses[r] = 0 /\ passes[r] = 0 /\ raced[r] = 0
  BY DEF RegistrationInit, NoCode
<1> QED
  BY <1>1, <1>2, <1>3 DEF Saved, Charges, Charged, Spends

LEMMA SavesInvHolds ==
  RegistrationSpec => [](RegistrationInv /\ SavesInv)
BY RegistrationInvInit, RegistrationInvStep, SavesInvInit, SavesInvStep, PTL
DEF RegistrationSpec

(* A code is guessed wrongly as often as the limit says, and once more for *)
(* each time it was loaded while another request was to save it.           *)
THEOREM GuessesAreBounded ==
  RegistrationSpec => []GuessesBounded
<1>1. RegistrationInv /\ SavesInv => GuessesBounded
  <2> SUFFICES ASSUME RegistrationInv, SavesInv, NEW r \in CodeRow
               PROVE  guesses[r] <= AttemptLimit + raced[r]
    BY DEF GuessesBounded
  <2>1. /\ Saved(r) /\ guesses[r] \in Nat /\ raced[r] \in Nat
        /\ Cardinality(Savers(r)) \in Nat
    BY SaverTypes DEF SavesInv, Saved
  <2>2. code[r].attempts \in 0..AttemptLimit /\ AttemptLimit \in Nat
    BY RegistrationAssumption DEF RegistrationInv, RegistrationTypeOK, Code
  <2>3. Savers(r) # {} => Cardinality(Savers(r)) # 0
    BY <2>1, FS_EmptySet DEF Saved
  <2> QED
    BY <2>1, <2>2, <2>3 DEF Saved, Charges, Charged
<1> QED
  BY <1>1, SavesInvHolds, PTL

(* A code lets one signup through and one more at most for each time it    *)
(* was loaded while another request was to save it, with any number of     *)
(* requests and codes.                                                     *)
THEOREM CodesAreSpentOnce ==
  RegistrationSpec => []CodeSpentOnce
<1>1. RegistrationInv /\ SavesInv => CodeSpentOnce
  <2> SUFFICES ASSUME RegistrationInv, SavesInv, NEW r \in CodeRow
               PROVE  passes[r] <= 1 + raced[r]
    BY DEF CodeSpentOnce
  <2>1. Saved(r) /\ passes[r] \in Nat /\ raced[r] \in Nat
    BY SaverTypes DEF SavesInv, Saved
  <2> QED
    BY <2>1 DEF Saved, Spends
<1> QED
  BY <1>1, SavesInvHolds, PTL

-----------------------------------------------------------------------------
(* The five parts side by side: a step of one leaves the others alone, so  *)
(* the invariant of each holds in all of them.                             *)
THEOREM PartsTypeCorrect ==
  Spec => []PartsTypeOK
<1> DEFINE PartsInv == /\ KeyInv /\ SessionInv /\ LoginInv /\ SendingInv
                       /\ RegistrationInv
<1>1. Init => PartsInv
  BY KeyInvInit, SessionInvInit, LoginInvInit, SendingInvInit, RegistrationInvInit
  DEF Init
<1>2. PartsInv /\ [Next]_allVars => PartsInv'
  <2> SUFFICES ASSUME PartsInv, [Next]_allVars PROVE PartsInv'
    OBVIOUS
  <2>1. KeyInv'
    <3>1. [KeyNext]_keyVars
      BY DEF Next, allVars, KeyStep, SessionStep, LoginStep, SendingStep,
             RegistrationStep
    <3> QED
      BY <3>1, KeyInvStep
  <2>2. SessionInv'
    <3>1. [SessionNext]_sessionVars
      BY DEF Next, allVars, KeyStep, SessionStep, LoginStep, SendingStep,
             RegistrationStep
    <3> QED
      BY <3>1, SessionInvStep
  <2>3. LoginInv'
    <3>1. [LoginNext]_loginVars
      BY DEF Next, allVars, KeyStep, SessionStep, LoginStep, SendingStep,
             RegistrationStep
    <3> QED
      BY <3>1, LoginInvStep
  <2>4. SendingInv'
    <3>1. [SendingNext]_sendingVars
      BY DEF Next, allVars, KeyStep, SessionStep, LoginStep, SendingStep,
             RegistrationStep
    <3> QED
      BY <3>1, SendingInvStep
  <2>5. RegistrationInv'
    <3>1. [RegistrationNext]_registrationVars
      BY DEF Next, allVars, KeyStep, SessionStep, LoginStep, SendingStep,
             RegistrationStep
    <3> QED
      BY <3>1, RegistrationInvStep
  <2> QED
    BY <2>1, <2>2, <2>3, <2>4, <2>5
<1>3. PartsInv => PartsTypeOK
  BY DEF PartsTypeOK, KeyInv, SessionInv, LoginInv, SendingInv, RegistrationInv
<1> QED
  BY <1>1, <1>2, <1>3, PTL DEF Spec
=============================================================================
