------------------------- MODULE ServiceOnboarding -------------------------
(***************************************************************************)
(* The onboarding requests of one service key and the handlers of          *)
(* ServiceOnboardingService: create, update, approve and reject.  Composes *)
(* with ServiceSecrets: an approval creates or edits the service's rows    *)
(* one after the other, while administrators edit them.                    *)
(*                                                                         *)
(* There is no transaction anywhere.  create and update look for a pending *)
(* request and insert one later; approve and reject load a pending request *)
(* and save its decision later; an approval that fails half way leaves     *)
(* what it wrote, and its request pending.                                 *)
(*                                                                         *)
(* Every request asks for all items that are neither unused nor omitted;   *)
(* of credentials, for one, whichever row the approval then creates.  A    *)
(* check that throws ends a handler like Crash, unless it is written out.  *)
(* The switch PERMISSION_WEBHOOKS_ENABLED is on: with it off, an approval  *)
(* passes over a subscription that is to be off, and throws at any other.  *)
(* Secrets of requests, revisions and rate limits are left out.            *)
(***************************************************************************)
EXTENDS ServiceSecrets

VARIABLES request,  \* the status of each row of service_onboarding_requests
          made,     \* history: for which request a credential was created
          crossed   \* history: requests inserted while another create or
                    \* update was past its search for a pending one, and
                    \* what updates of these made

requestVars == <<request, made, crossed>>
vars == <<secretVars, requestVars>>

RequestStatus == {"none", "pending", "approved", "rejected", "superseded"}

Credentials == {i \in Item : kind[i] = "credential"}

Targets == {i \in Item : kind[i] = "target"}

Asked == {i \in Item : kind[i] # "unused"} \ work.omitted

(* What an approval goes through: also an omitted subscription.            *)
Visited == {i \in Item : kind[i] # "unused"} \ (work.omitted \cap Targets)

Open == {q \in Request : request[q] = "pending"}

(* Handler h goes on as c.                                                 *)
Continue(h, c) == call' = [call EXCEPT ![h] = c]

-----------------------------------------------------------------------------
(* Mutant of CreateSearch: it does not look for pending requests.          *)
CreateSearchNot(h) ==
  /\ Begin(h, "create")
  /\ Continue(h, [NoCall EXCEPT !.op = "create", !.pc = "exists"])
  /\ UNCHANGED <<rowVars, service, requestVars>>

(* create: assertNoPendingForService, then findByKey.                      *)
CreateSearch(h) ==
  /\ Begin(h, "create")
  /\ Open = {}
  /\ Continue(h, [NoCall EXCEPT !.op = "create", !.pc = "exists"])
  /\ UNCHANGED <<rowVars, service, requestVars>>

CreateFind(h) ==
  /\ call[h].pc = "exists"
  /\ service = "absent"
  /\ Continue(h, [call[h] EXCEPT !.pc = "request"])
  /\ UNCHANGED <<rowVars, service, requestVars>>

(* update of q: findById, then findOneBy finds no pending request, or q    *)
(* itself; if q was loaded as pending it is superseded first.              *)
UpdateFind(h, q) ==
  /\ Begin(h, "update")
  /\ request[q] # "none"
  /\ Continue(h, [NoCall EXCEPT
       !.op = "update", !.request = q,
       !.pc = IF request[q] = "pending" THEN "supersede" ELSE "revise"])
  /\ UNCHANGED <<rowVars, service, requestVars>>

UpdateSearch(h) ==
  /\ call[h].pc \in {"supersede", "revise"}
  /\ Open = {} \/ call[h].request \in Open
  /\ Continue(h, [call[h] EXCEPT
       !.pc = IF @ = "supersede" THEN "decide" ELSE "request"])
  /\ UNCHANGED <<rowVars, service, requestVars>>

(* A create or an update that has looked for a pending request.            *)
Searched(c) == /\ c.op \in {"create", "update"}
               /\ c.pc \in {"exists", "decide", "record", "request"}

(* INSERT of the new request.                                              *)
InsertRequest(h) ==
  /\ call[h].pc = "request"
  /\ \E q \in Request :
       /\ request[q] = "none"
       /\ request' = [request EXCEPT ![q] = "pending"]
       /\ crossed' = IF \/ \E g \in Handler \ {h} : Searched(call[g])
                        \/ call[h].request \in crossed
                     THEN crossed \cup {q} ELSE crossed
  /\ Continue(h, NoCall)
  /\ UNCHANGED <<rowVars, service, made>>

(* approve and reject: findPending.                                        *)
FindPending(h, q, op) ==
  /\ Begin(h, op)
  /\ request[q] = "pending"
  /\ Continue(h, [NoCall EXCEPT
       !.op = op, !.request = q,
       !.left = IF op = "approve" THEN Visited ELSE {},
       !.pc = IF op = "approve" THEN "service" ELSE "decide"])
  /\ UNCHANGED <<rowVars, service, requestVars>>

-----------------------------------------------------------------------------
(* upsertService: findByKey, then the service is created, unless another   *)
(* has created it (existsBy and the unique index), or made active.         *)
FindService(h) ==
  /\ call[h].pc = "service"
  /\ Continue(h, [call[h] EXCEPT
       !.pc = IF service = "absent" THEN "createService" ELSE "updateService"])
  /\ UNCHANGED <<rowVars, service, requestVars>>

CreateService(h) ==
  /\ call[h].pc = "createService"
  /\ IF service = "absent"
     THEN service' = "active" /\ Continue(h, [call[h] EXCEPT !.pc = "items"])
     ELSE UNCHANGED service /\ Continue(h, NoCall)
  /\ UNCHANGED <<rowVars, requestVars>>

UpdateService(h) ==
  /\ call[h].pc = "updateService"
  /\ service' = "active"
  /\ Continue(h, [call[h] EXCEPT !.pc = "items"])
  /\ UNCHANGED <<rowVars, requestVars>>

(* The order in which an approval serves the kinds; targets come last.     *)
Rank(i) == CHOOSE n \in 1..5 :
             <<"permission", "client", "credential", "subscription", "target">>[n]
               = kind[i]

Turn(h, i) == /\ call[h].pc = "items"
               /\ i \in call[h].left
               /\ \A j \in call[h].left : Rank(i) <= Rank(j)

(* h serves item i, or one of the credentials.                             *)
Serve(h, i) ==
  [NoCall EXCEPT !.op = "approve", !.request = call[h].request, !.item = i,
     !.left = call[h].left \ (IF kind[i] = "credential" THEN Credentials ELSE {i}),
     !.targets = call[h].targets \ {i}, !.overtaken = call[h].overtaken]

ServeInsert(h, i, e) == Continue(h, [Serve(h, i) EXCEPT !.pc = "insert", !.entity = e])

Wanted(i, status, type, s) == [status |-> status, type |-> type, secret |-> s]

(* Mutant of ServeClient: a client of another service is passed over.       *)
ServeClientSkips(h, i, type) ==
  LET s == IF type = "confidential" THEN Fresh(i) ELSE 0 IN
  /\ kind[i] = "client"
  /\ Turn(h, i)
  /\ IF row[i].status = "foreign"
     THEN Continue(h, [Serve(h, i) EXCEPT !.pc = "items"]) /\ UNCHANGED issued
     ELSE /\ Issue(i, s)
          /\ IF row[i] = NoRow
             THEN ServeInsert(h, i, Wanted(i, "active", type, s))
             ELSE Edit(h, i, Wanted(i, row[i].status, type, s), Serve(h, i))
  /\ UNCHANGED <<work, row, service, requestVars>>

(* A client: one of another service ends the approval; a confidential one  *)
(* gets a new secret, a public one none; an existing one keeps its status. *)
ServeClient(h, i, type) ==
  LET s == IF type = "confidential" THEN Fresh(i) ELSE 0 IN
  /\ kind[i] = "client"
  /\ Turn(h, i)
  /\ IF row[i].status = "foreign"
     THEN Continue(h, NoCall) /\ UNCHANGED issued
     ELSE /\ Issue(i, s)
          /\ IF row[i] = NoRow
             THEN ServeInsert(h, i, Wanted(i, "active", type, s))
             ELSE Edit(h, i, Wanted(i, row[i].status, type, s), Serve(h, i))
  /\ UNCHANGED <<work, row, service, requestVars>>

(* A credential is created anew by each approval.                          *)
ServeCredential(h, i) ==
  /\ kind[i] = "credential"
  /\ Turn(h, i)
  /\ row[i] = NoRow
  /\ Issue(i, Fresh(i))
  /\ ServeInsert(h, i, Wanted(i, "active", "confidential", Fresh(i)))
  /\ UNCHANGED <<work, row, service, requestVars>>

(* Item i is made or edited to be active.                                  *)
Activate(h, i, type, s) ==
  LET e == Wanted(i, "active", type, s) IN
  /\ Turn(h, i)
  /\ Issue(i, s)
  /\ IF row[i] = NoRow THEN ServeInsert(h, i, e) ELSE Edit(h, i, e, Serve(h, i))
  /\ UNCHANGED <<work, row, service, requestVars>>

ServePermission(h, i) == kind[i] = "permission" /\ Activate(h, i, "public", 0)

(* A subscription that is asked for has its secret from the environment,   *)
(* or a generated one: that which it has, or a new one.                    *)
ServeSubscription(h, i, type) ==
  /\ kind[i] = "subscription"
  /\ i \notin work.omitted
  /\ Activate(h, i, type,
              IF type = "public" THEN 0
              ELSE IF row[i].type = "confidential" /\ row[i].secret # 0
              THEN row[i].secret ELSE Fresh(i))

(* One that a request asks to be off is disabled.                          *)
OmitSubscription(h, i) ==
  /\ kind[i] = "subscription"
  /\ i \in work.omitted
  /\ Turn(h, i)
  /\ IF row[i] = NoRow
     THEN Continue(h, [Serve(h, i) EXCEPT !.pc = "items", !.item = None])
     ELSE Edit(h, i, [row[i] EXCEPT !.status = "disabled"], Serve(h, i))
  /\ UNCHANGED <<rowVars, service, requestVars>>

(* The rows with those of T disabled.                                      *)
Disabled(T) == [i \in Item |-> IF i \in T /\ Owned(i)
                              THEN [row[i] EXCEPT !.status = "disabled"]
                              ELSE row[i]]

(* The targets that are asked for are first disabled, by one UPDATE; all   *)
(* targets are read; each that is asked for is saved active; one UPDATE    *)
(* disables those that were read and not asked for.                        *)
DisableTargets(h) ==
  /\ call[h].pc = "items"
  /\ call[h].left \subseteq Targets
  /\ Targets # {}
  /\ Write(h, Disabled(call[h].left), [call[h] EXCEPT !.pc = "find"])
  /\ UNCHANGED <<work, issued, service, requestVars>>

FindTargets(h) ==
  /\ call[h].pc = "find"
  /\ Continue(h, [call[h] EXCEPT !.pc = "targets",
                                 !.targets = {i \in Targets : Owned(i)}])
  /\ UNCHANGED <<rowVars, service, requestVars>>

ServeTarget(h, i) ==
  LET e == Wanted(i, "active", "public", 0) IN
  /\ call[h].pc = "targets"
  /\ i \in call[h].left
  /\ IF i \in call[h].targets THEN Edit(h, i, e, Serve(h, i)) ELSE ServeInsert(h, i, e)
  /\ UNCHANGED <<rowVars, service, requestVars>>

OmitTargets(h) ==
  /\ call[h].pc = "targets"
  /\ call[h].left = {}
  /\ Write(h, Disabled(call[h].targets),
           [call[h] EXCEPT !.pc = "decide", !.targets = {}, !.overtaken = {}])
  /\ UNCHANGED <<work, issued, service, requestVars>>

(* No list of targets in the request.                                      *)
Served(h) ==
  /\ call[h].pc = "items"
  /\ call[h].left = {}
  /\ Targets = {}
  /\ Continue(h, [call[h] EXCEPT !.pc = "decide"])
  /\ UNCHANGED <<rowVars, service, requestVars>>

-----------------------------------------------------------------------------
(* The status a decision writes.  Mutant: that of a service.               *)
OutcomeActive(op) == IF op = "approve" THEN "active"
                     ELSE IF op = "reject" THEN "rejected" ELSE "superseded"

Outcome(op) == IF op = "approve" THEN "approved"
               ELSE IF op = "reject" THEN "rejected" ELSE "superseded"

(* save of the request that was loaded as pending: its SELECT and UPDATE.  *)
DecideSelect(h) ==
  /\ call[h].pc = "decide"
  /\ Continue(h, [call[h] EXCEPT
       !.pc = "record",
       !.columns = IF request[call[h].request] = Outcome(call[h].op)
                   THEN {} ELSE {"status"}])
  /\ UNCHANGED <<rowVars, service, requestVars>>

DecideWrite(h) ==
  LET q == call[h].request IN
  /\ call[h].pc = "record"
  /\ request' = [request EXCEPT
       ![q] = IF call[h].columns = {} THEN @ ELSE Outcome(call[h].op)]
  /\ Continue(h, IF call[h].op = "update"
                 THEN [call[h] EXCEPT !.pc = "request", !.columns = {}]
                 ELSE NoCall)
  /\ UNCHANGED <<rowVars, service, made, crossed>>

-----------------------------------------------------------------------------
Init == /\ SecretInit
        /\ request = [q \in Request |-> "none"]
        /\ made = [i \in Item |-> None]
        /\ crossed = {}

(* For which request a credential is created.                              *)
Makes(h) ==
  made' = [i \in Item |->
             IF row[i] = NoRow /\ row'[i] # NoRow THEN call[h].request ELSE made[i]]

RequestStep(h) ==
  \/ CreateSearch(h)
  \/ CreateFind(h)
  \/ \E q \in Request : \/ UpdateFind(h, q)
                        \/ \E op \in {"approve", "reject"} : FindPending(h, q, op)
  \/ UpdateSearch(h)
  \/ InsertRequest(h)
  \/ FindService(h)
  \/ CreateService(h)
  \/ UpdateService(h)
  \/ \E i \in Item : \/ \E type \in {"public", "confidential"} :
                          \/ ServeClient(h, i, type)
                          \/ ServeSubscription(h, i, type)
                     \/ ServeCredential(h, i)
                     \/ ServePermission(h, i)
                     \/ OmitSubscription(h, i)
                     \/ ServeTarget(h, i)
  \/ DisableTargets(h)
  \/ FindTargets(h)
  \/ OmitTargets(h)
  \/ Served(h)
  \/ DecideSelect(h)
  \/ DecideWrite(h)

Next ==
  \E h \in Handler : \/ RequestStep(h)
                     \/ AdminStep(h) /\ Makes(h) /\ UNCHANGED <<request, crossed>>
                     \/ Crash(h) /\ UNCHANGED requestVars

Spec == Init /\ [][Next]_vars

-----------------------------------------------------------------------------
(* Type invariant of the requests, with that of the rows.                  *)
TypeOK ==
  /\ SecretTypeOK
  /\ request \in [Request -> RequestStatus]
  /\ made \in [Item -> Request \cup {None}]
  /\ crossed \subseteq Request

(* A service key has one pending request, unless two handlers looked for   *)
(* it at the same time (service-onboarding.service.ts: "A pending          *)
(* onboarding request already exists for this service").                   *)
OneOpenRequest == \A p, q \in Open : p # q => {p, q} \cap crossed # {}

(* What an approved request asks for exists and is the service's own, a    *)
(* credential of its own among it, whatever failed, was repeated or ran at *)
(* the same time (approve saves the decision last).                        *)
ApprovedIsProvisioned ==
  \A q \in Request :
    request[q] = "approved"
      => /\ service # "absent"
         /\ \A i \in Asked \ Credentials : Owned(i)
         /\ Credentials # {} => \E i \in Credentials : made[i] = q

(* A save undoes what others wrote to a column it was not to change only   *)
(* if they wrote it between its load and its SELECT; what they write later *)
(* is kept (rotate, rotateSecret, setStatus, update, disable, approve).    *)
SavesKeepOthers ==
  [][\A h \in Handler :
       call[h].pc = "commit" /\ call'[h].pc # "commit" /\ row' # row
         => \A c \in Column :
              row'[call[h].item][c] # row[call[h].item][c]
                => \/ c \in call[h].edited
                   \/ call[h].item \in call[h].overtaken]_vars

(* A confidential client has a secret, for nobody is let in without one    *)
(* ("Confidential clients require a secret"), and so has a subscription    *)
(* with a generated one; only a save that another ran into, between its    *)
(* load and its SELECT or between that and its UPDATE, may leave it        *)
(* without.                                                                *)
LockedOut(i) == Owned(i) /\ row[i].type = "confidential" /\ row[i].secret = 0

ConfidentialHasSecret ==
  [][\A i \in Item :
       LockedOut(i)' /\ ~LockedOut(i)
         => \E h \in Handler : /\ call[h].pc = "commit"
                               /\ call[h].item = i
                               /\ \/ i \in call[h].overtaken
                                  \/ row'[i] # call[h].entity]_vars
=============================================================================
