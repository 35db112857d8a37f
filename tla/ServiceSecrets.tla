--------------------------- MODULE ServiceSecrets ---------------------------
(***************************************************************************)
(* What a service owns besides its permissions: its credentials            *)
(* (ServiceCredentialsService), OIDC clients (OidcClientsService), webhook *)
(* subscription (PermissionWebhooksService), notification action targets   *)
(* and permission definitions, and the administrators' handlers that write *)
(* them.                                                                   *)
(*                                                                         *)
(* Each handler loads a row, edits the entity, perhaps hashes a secret,    *)
(* and saves it without a transaction.  TypeORM's save is a SELECT, which  *)
(* fixes the columns in which the entity differs from the row, and an      *)
(* UPDATE of those: what others wrote between the load and the SELECT is   *)
(* undone, what they wrote later is kept.                                  *)
(*                                                                         *)
(* Approvals alone make rows (ServiceOnboarding).  Controllers call the    *)
(* operations on credentials, subscriptions and targets; no controller     *)
(* calls EditClient and RotateClient, the service's operations on clients. *)
(*                                                                         *)
(* Every hash of a secret is a new value, numbered for its row: hashing    *)
(* the same secret again makes the column differ too.  Names, scopes, URIs *)
(* and times are left out; disabled_at changes with the status.            *)
(***************************************************************************)
EXTENDS Naturals, FiniteSets

CONSTANTS Item,       \* the rows
          Workload,   \* what the items are and which operations run: a
                      \* behaviour has one of these
          MaxSecret,  \* bounds the secrets a row has in its life
          Handler,    \* the requests that may run at the same time
          Request,    \* rows of service_onboarding_requests
          None        \* an unset local

Kind == {"permission", "client", "credential", "subscription", "target",
         "unused"}

Op == {"edit", "rotate", "status", "create", "update", "approve", "reject"}

(* omitted: the subscription a request asks to be off (its webhook is      *)
(* null) and the targets that its list of targets does not name.           *)
ASSUME WorkloadAssumption ==
  /\ Workload \subseteq
       [kind : [Item -> Kind], omitted : SUBSET Item, operations : SUBSET Op]
  /\ \A w \in Workload :
       \A i \in w.omitted : w.kind[i] \in {"subscription", "target"}
ASSUME MaxSecretAssumption == MaxSecret \in Nat \ {0}
ASSUME NoneAssumption == None \notin Item \cup Request
ASSUME UnsetAssumption == None \notin {"public", "confidential", "active", "disabled"}

VARIABLES work,     \* the workload of the behaviour, fixed
          row,      \* the committed rows
          issued,   \* how many secrets were made for each row
          service,  \* the service: absent or active; nothing disables it
          call      \* the local state of each handler

rowVars == <<work, row, issued>>
secretVars == <<rowVars, service, call>>

Secret == 0..MaxSecret \* 0 is none

(* foreign: a client id that another service owns.                         *)
RowStatus == {"absent", "foreign", "active", "disabled"}

Column == {"status", "type", "secret"}

(* type: that of a client; a subscription whose secret is generated is     *)
(* confidential, one that has it from the environment public.              *)
Row == [status : RowStatus, type : {"public", "confidential"}, secret : Secret]

ForeignRow == [status |-> "foreign", type |-> "public", secret |-> 0]

NoRow == [status |-> "absent", type |-> "public", secret |-> 0]

(* A row without a secret, from an onboarding before the behaviour.        *)
EarlierRow == [status |-> "active", type |-> "public", secret |-> 0]

(* Where a handler stands.  select and commit are the statements of a save *)
(* of the item; the others are the steps of ServiceOnboarding.             *)
Call ==
  [pc        : {"idle", "select", "commit", "insert", "exists", "supersede",
                "revise", "service", "createService", "updateService", "items",
                "find", "targets", "decide", "record", "request"},
   op        : Op,
   item      : Item \cup {None},
   entity    : Row,
   edited    : SUBSET Column,  \* history: where the entity is not as loaded
   columns   : SUBSET Column,  \* what the UPDATE will write
   overtaken : SUBSET Item,    \* history: others wrote it before select
   request   : Request \cup {None},
   left      : SUBSET Item,    \* the items an approval has not yet served
   targets   : SUBSET Item]    \* the targets it found and has not yet saved

NoCall == [pc |-> "idle", op |-> "edit", item |-> None, entity |-> NoRow,
           edited |-> {}, columns |-> {}, overtaken |-> {},
           request |-> None, left |-> {}, targets |-> {}]

-----------------------------------------------------------------------------
kind == work.kind

Owned(i) == row[i].status \in {"active", "disabled"}

Differing(r, s) == {c \in Column : r[c] # s[c]}

Merged(i, entity, columns) ==
  LET From(c) == IF c \in columns THEN entity[c] ELSE row[i][c]
  IN [status |-> From("status"), type |-> From("type"), secret |-> From("secret")]

(* A number for a new secret of row i.                                     *)
Fresh(i) == issued[i] + 1

Issue(i, s) == IF s = Fresh(i)
               THEN issued[i] < MaxSecret /\ issued' = [issued EXCEPT ![i] = s]
               ELSE UNCHANGED issued

(* Handler h has loaded row i and changed it to entity e.                  *)
Edit(h, i, e, c) ==
  call' = [call EXCEPT ![h] =
             [c EXCEPT !.pc = "select", !.item = i, !.entity = e,
                       !.edited = Differing(e, row[i])]]

Begin(h, op) == call[h].pc = "idle" /\ op \in work.operations

-----------------------------------------------------------------------------
(* Mutant of EditClient: a client may become confidential without a secret. *)
EditClientUnchecked(h, i, type, give, status) ==
  LET r == row[i]
      s == IF give THEN Fresh(i) ELSE IF type = "public" THEN 0 ELSE r.secret
  IN
  /\ Begin(h, "edit")
  /\ kind[i] = "client"
  /\ Owned(i)
  /\ Issue(i, s)
  /\ Edit(h, i, [status |-> IF status = None THEN r.status ELSE status,
                 type |-> IF type = None THEN r.type ELSE type,
                 secret |-> s],
          [NoCall EXCEPT !.op = "edit"])
  /\ UNCHANGED <<work, row, service>>

(* update of a client: any of type, secret and status.  Going public drops *)
(* the secret, a confidential client needs one.                            *)
EditClient(h, i, type, give, status) ==
  LET r == row[i]
      s == IF give THEN Fresh(i) ELSE IF type = "public" THEN 0 ELSE r.secret
  IN
  /\ Begin(h, "edit")
  /\ kind[i] = "client"
  /\ Owned(i)
  /\ type = "confidential" => give \/ r.secret # 0
  /\ Issue(i, s)
  /\ Edit(h, i, [status |-> IF status = None THEN r.status ELSE status,
                 type |-> IF type = None THEN r.type ELSE type,
                 secret |-> s],
          [NoCall EXCEPT !.op = "edit"])
  /\ UNCHANGED <<work, row, service>>

(* A new secret for row i.                                                 *)
Renew(h, i) ==
  /\ Begin(h, "rotate")
  /\ Owned(i)
  /\ Issue(i, Fresh(i))
  /\ Edit(h, i, [row[i] EXCEPT !.secret = Fresh(i)], [NoCall EXCEPT !.op = "rotate"])
  /\ UNCHANGED <<work, row, service>>

(* rotateSecret of a client, rotate of a credential and rotateSecret of a  *)
(* subscription.                                                           *)
RotateClient(h, i) ==
  kind[i] = "client" /\ row[i].type = "confidential" /\ Renew(h, i)

RotateCredential(h, i) ==
  kind[i] = "credential" /\ row[i].status = "active" /\ Renew(h, i)

RotateSubscription(h, i) ==
  kind[i] = "subscription" /\ row[i].type = "confidential" /\ Renew(h, i)

(* A new status for row i; with the old one, an update of something else.  *)
SetStatus(h, i, status) ==
  /\ Begin(h, "status")
  /\ Owned(i)
  /\ Edit(h, i, [row[i] EXCEPT !.status = status], [NoCall EXCEPT !.op = "status"])
  /\ UNCHANGED <<rowVars, service>>

(* update and disable of a credential, setStatus of a subscription and of  *)
(* a target.                                                               *)
UpdateCredential(h, i, status) ==
  kind[i] = "credential" /\ SetStatus(h, i, status)

DisableCredential(h, i) ==
  /\ kind[i] = "credential"
  /\ row[i].status # "disabled"
  /\ SetStatus(h, i, "disabled")

SetSubscriptionStatus(h, i, status) ==
  kind[i] = "subscription" /\ SetStatus(h, i, status)

SetTargetStatus(h, i, status) ==
  kind[i] = "target" /\ SetStatus(h, i, status)

(* Mutant of SaveSelect: the UPDATE writes the whole entity.                 *)
SaveSelectAll(h) ==
  /\ call[h].pc = "select"
  /\ call' = [call EXCEPT ![h].pc = "commit", ![h].columns = Column]
  /\ UNCHANGED <<rowVars, service>>

(* save, first statement.                                                  *)
SaveSelect(h) ==
  /\ call[h].pc = "select"
  /\ call' = [call EXCEPT ![h].pc = "commit",
       ![h].columns = Differing(call[h].entity, row[call[h].item])]
  /\ UNCHANGED <<rowVars, service>>

(* The rows that c has loaded and will save.                               *)
Held(c) == c.targets \cup IF c.pc = "select" THEN {c.item} ELSE {}

(* The rows become rows by a step of h, which continues as c.              *)
Write(h, rows, c) ==
  /\ row' = rows
  /\ call' = [g \in Handler |->
       IF g = h THEN c
       ELSE [call[g] EXCEPT !.overtaken =
               @ \cup {i \in Held(call[g]) : rows[i] # row[i]}]]

WriteRow(h, i, r, c) == Write(h, [row EXCEPT ![i] = r], c)

(* What h does after a save: an approval goes on with its other items.     *)
After(h) ==
  IF call[h].op = "approve"
  THEN [NoCall EXCEPT
          !.pc = IF kind[call[h].item] = "target" THEN "targets" ELSE "items",
          !.op = "approve", !.request = call[h].request, !.left = call[h].left,
          !.targets = call[h].targets,
          !.overtaken = call[h].overtaken \cap call[h].targets]
  ELSE NoCall

(* save's UPDATE.                                                          *)
SaveWrite(h) ==
  LET i == call[h].item IN
  /\ call[h].pc = "commit"
  /\ WriteRow(h, i, Merged(i, call[h].entity, call[h].columns), After(h))
  /\ UNCHANGED <<work, issued, service>>

(* INSERT; the unique index refuses it if the row has come into being.     *)
Insert(h) ==
  LET i == call[h].item IN
  /\ call[h].pc = "insert"
  /\ IF row[i] = NoRow
     THEN WriteRow(h, i, call[h].entity, After(h))
     ELSE call' = [call EXCEPT ![h] = NoCall] /\ UNCHANGED row
  /\ UNCHANGED <<work, issued, service>>

(* A handler fails or its process dies.  What it wrote stays.              *)
Crash(h) == /\ call[h].pc # "idle"
            /\ call' = [call EXCEPT ![h] = NoCall]
            /\ UNCHANGED <<rowVars, service>>

-----------------------------------------------------------------------------
SecretInit ==
  /\ work \in Workload
  /\ service \in {"absent", "active"}
  /\ row \in [Item -> {NoRow, ForeignRow, EarlierRow}]
  /\ \A i \in Item :
       /\ row[i] = ForeignRow => kind[i] = "client"
       /\ row[i] = EarlierRow =>
            service = "active" /\ (kind[i] = "client" \/ i \in work.omitted)
  /\ issued = [i \in Item |-> 0]
  /\ call = [h \in Handler |-> NoCall]

AdminStep(h) ==
  \/ \E i \in Item :
       \/ \E type \in {"public", "confidential", None}, give \in BOOLEAN,
             status \in {"active", "disabled", None} :
            EditClient(h, i, type, give, status)
       \/ RotateClient(h, i)
       \/ RotateCredential(h, i)
       \/ RotateSubscription(h, i)
       \/ DisableCredential(h, i)
       \/ \E status \in {"active", "disabled"} :
            \/ UpdateCredential(h, i, status)
            \/ SetSubscriptionStatus(h, i, status)
            \/ SetTargetStatus(h, i, status)
  \/ SaveSelect(h)
  \/ SaveWrite(h)
  \/ Insert(h)

-----------------------------------------------------------------------------
(* Type invariant of the rows and the handlers.                            *)
SecretTypeOK ==
  /\ work \in Workload
  /\ row \in [Item -> Row]
  /\ issued \in [Item -> Secret]
  /\ service \in {"absent", "active"}
  /\ call \in [Handler -> Call]
=============================================================================
