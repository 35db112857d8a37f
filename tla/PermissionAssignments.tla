----------------------- MODULE PermissionAssignments -----------------------
(***************************************************************************)
(* The permission definitions of one service, the assignment each account  *)
(* has to one of them, and the handlers that write them: put, revoke and   *)
(* the first login (AccountPermissionsService); create, update, remove and *)
(* migrate (PermissionsService); update of the service                     *)
(* (ServiceRegistryService).  approve and apply are the handlers of module *)
(* ServiceApplications; they share the pool of handlers and the row lock.  *)
(*                                                                         *)
(* Most checks are plain reads made before the transaction that writes.    *)
(* Inside it, SELECT ... FOR UPDATE locks the assignment's row if there is *)
(* one and nothing if there is none; the next read may then find a row     *)
(* that is not locked.                                                     *)
(*                                                                         *)
(* In this repository only the first login, create (by the onboarding),    *)
(* update of the service and the handlers of ServiceApplications have a    *)
(* caller; put, revoke, update, remove and migrate have tests alone.       *)
(*                                                                         *)
(* Every change of a grant is told to the service by an event in the same  *)
(* transaction; told is what a service that applies the events in their    *)
(* order believes.  The service is subscribed and stays active.  Sort      *)
(* orders are fixed; labels, descriptions and audit logs are left out.     *)
(***************************************************************************)
EXTENDS Naturals, FiniteSets

CONSTANTS Account,     \* the accounts
          Key,         \* the keys of permission definitions
          Visitor,     \* the key of a first login; stays active
          Superadmin,  \* the key of a super admin's first login
          Application, \* rows of service_applications
          Handler,     \* the requests that may run at the same time
          Workload,    \* the sets of operations that may run together: a
                       \* behaviour has one of these
          MaxVersion,  \* bounds the schema version, hence the changes
          None         \* a null column or an unset local

ASSUME KeyAssumption == {Visitor, Superadmin} \subseteq Key /\ Visitor # Superadmin
ASSUME NoneAssumption == /\ None \notin Account \cup Key \cup Application
                         /\ None \notin Handler
ASSUME VersionAssumption == MaxVersion \in Nat \ {0}

VARIABLES definition, \* service_permission_definitions: the status of each key
          assignment, \* account_service_permissions: one row for an account
          version,    \* services.permission_schema_version
          holder,     \* the transaction that holds the lock on an assignment
          call,       \* the local state of each handler
          superAdmin, \* the accounts with isSuperAdmin, never written
          operations, \* the workload of the behaviour, fixed
          told,       \* what the events so far say of each account
          untold      \* history: why told is wrong, None if it is right

dataVars == <<definition, assignment, version>>
fixedVars == <<superAdmin, operations>>
feedVars == <<told, untold>>
permissionVars == <<dataVars, holder, call, fixedVars, feedVars>>

DefinitionStatus == {"absent", "active", "deprecated", "removed"}

Assignment == [status : {"none", "active", "revoked"}, key : Key \cup {None}]

NoAssignment == [status |-> "none", key |-> None]

(* The reasons for which told may differ from the grant.                   *)
Reason == {"firstLogin",  \* a first login grants without an event
           "migrated",    \* moved by a migration that had not found it, or
                          \* found by one that did not move it
           "unlocked"}    \* written by a save that did not lock the row

ASSUME NoReasonAssumption == None \notin Reason

Op == {"put", "revoke", "firstLogin", "create", "update", "remove", "migrate",
       "service", "apply", "approve"}

ASSUME WorkloadAssumption == Workload \subseteq SUBSET Op

(* Where a handler stands.  An assignment: lock, read, select, commit.  A  *)
(* migration: lockAll, find, move.  save and increment are the writes of   *)
(* definitions and version; apply's steps are find, select and commit.     *)
Call ==
  [pc          : {"idle", "lock", "read", "select", "commit", "ensure",
                  "increment", "insert", "lockAll", "find", "move", "save"},
   op          : Op,
   account     : Account \cup {None},
   application : Application \cup {None},
   key         : Key \cup {None},    \* to grant, to change or to move from
   target      : Key \cup {None},    \* to move to; what apply found pending
   status      : DefinitionStatus,   \* of the definition to be saved
   version     : 0..MaxVersion,      \* of the service to be saved
   found       : SUBSET Account,     \* the assignments a migration found
   row         : Assignment,         \* the row that read returned
   columns     : SUBSET {"status", "key"}] \* those that save found different

NoCall == [pc |-> "idle", op |-> "put", account |-> None, application |-> None,
           key |-> None, target |-> None, status |-> "absent", version |-> 0,
           found |-> {}, row |-> NoAssignment, columns |-> {}]

-----------------------------------------------------------------------------
Exists(a) == assignment[a].status # "none"

(* What the account may do now, and what it says after writing row r.      *)
GrantIn(r) == IF r.status = "active" THEN r.key ELSE None
Granted(a) == GrantIn(assignment[a])

Assigned(k) == {a \in Account : assignment[a] = [status |-> "active", key |-> k]}

Continue(h, c) == call' = [call EXCEPT ![h] = c]

Start(h, op, c) ==
  /\ call[h].pc = "idle"
  /\ op \in operations
  /\ Continue(h, [c EXCEPT !.op = op])

(* The locks left when h's transaction ends.                               *)
Unlocked(h) == [a \in Account |-> IF holder[a] = h THEN None ELSE holder[a]]

Locked(h) == call[h].account # None /\ holder[call[h].account] = h

(* The row lock is free for h, which may hold it already.                  *)
Free(h, a) == holder[a] \in {None, h}

Stop(h) == /\ Continue(h, NoCall)
           /\ holder' = Unlocked(h)
           /\ UNCHANGED <<dataVars, fixedVars, feedVars>>

-----------------------------------------------------------------------------
(* put(a, k): the definition is checked before the transaction.            *)
PutCheck(h, a, k) ==
  /\ definition[k] = "active"
  /\ Start(h, "put", [NoCall EXCEPT !.pc = "lock", !.account = a, !.key = k])
  /\ UNCHANGED <<dataVars, holder, fixedVars, feedVars>>

(* revoke(a).                                                              *)
RevokeStart(h, a) ==
  /\ Start(h, "revoke", [NoCall EXCEPT !.pc = "lock", !.account = a])
  /\ UNCHANGED <<dataVars, holder, fixedVars, feedVars>>

(* SELECT ... FOR UPDATE: waits for the row's lock; no row, no lock.       *)
LockRow(h) ==
  LET a == call[h].account IN
  /\ call[h].pc = "lock"
  /\ IF Exists(a)
     THEN holder[a] = None /\ holder' = [holder EXCEPT ![a] = h]
     ELSE UNCHANGED holder
  /\ Continue(h, [call[h] EXCEPT !.pc = "read"])
  /\ UNCHANGED <<dataVars, fixedVars, feedVars>>

(* findOne, which may see a row that LockRow did not.  The SELECT of the   *)
(* save that follows matters only then: a locked row cannot change.        *)
ReadAs(h, a) ==
  Continue(h, [call[h] EXCEPT
     !.pc = IF Exists(a) /\ ~Locked(h) THEN "select" ELSE "commit",
     !.row = assignment[a],
     !.columns = {"status", "key"}])

ReadRow(h) ==
  LET a == call[h].account IN
  /\ call[h].pc = "read"
  /\ call[h].op \in {"put", "revoke"}
  /\ IF call[h].op = "revoke" /\ assignment[a].status # "active"
     THEN Stop(h)
     ELSE /\ ReadAs(h, a)
          /\ UNCHANGED <<dataVars, holder, fixedVars, feedVars>>

(* The row as the handler wants it.  Mutant: a wrong status.               *)
WantedRemoved(h) ==
  IF call[h].op = "revoke"
  THEN [call[h].row EXCEPT !.status = "removed"]
  ELSE [status |-> "active", key |-> call[h].key]

Wanted(h) ==
  IF call[h].op = "revoke"
  THEN [call[h].row EXCEPT !.status = "revoked"]
  ELSE [status |-> "active", key |-> call[h].key]

(* save, first statement, of a row that is not locked.                     *)
SelectRow(h) ==
  LET a == call[h].account IN
  /\ call[h].pc = "select"
  /\ call[h].op \in {"put", "revoke", "approve"}
  /\ Continue(h, [call[h] EXCEPT
       !.pc = "commit",
       !.columns = {c \in {"status", "key"} : Wanted(h)[c] # assignment[a][c]}])
  /\ UNCHANGED <<dataVars, holder, fixedVars, feedVars>>

(* The row after save's UPDATE of the differing columns.                   *)
Saved(h, a) ==
  LET cols == call[h].columns IN
  [status |-> IF "status" \in cols THEN Wanted(h).status ELSE assignment[a].status,
   key |-> IF "key" \in cols THEN Wanted(h).key ELSE assignment[a].key]

(* The reason why told is wrong after the step, if it is.                  *)
Why(a, reason) == IF told'[a] = GrantIn(assignment'[a]) THEN None ELSE reason

(* Mutant of Tells: an approval enqueues no event.                         *)
TellsNoApproval(h) ==
  /\ call[h].op # "approve"
  /\ ~(call[h].op = "put" /\ call[h].row = [status |-> "active", key |-> call[h].key])

(* Whether an event is enqueued: put only tells of a change.               *)
Tells(h) ==
  ~(call[h].op = "put" /\ call[h].row = [status |-> "active", key |-> call[h].key])

(* save's INSERT or UPDATE, the event and the commit.  The INSERT of a row *)
(* that has come into being meanwhile violates the unique index.           *)
WriteRow(h, a, row) ==
  /\ Free(h, a)
  /\ assignment' = [assignment EXCEPT ![a] = row]
  /\ IF Tells(h)
     THEN told' = [told EXCEPT ![a] = GrantIn(Wanted(h))]
     ELSE UNCHANGED told
  /\ untold' = [untold EXCEPT ![a] =
       Why(a, IF Exists(a) /\ ~Locked(h) THEN "unlocked"
              ELSE IF GrantIn(row) # Granted(a) THEN None ELSE @)]
  /\ holder' = Unlocked(h)
  /\ Continue(h, NoCall)
  /\ UNCHANGED <<definition, version, fixedVars>>

Collides(h) == call[h].row = NoAssignment /\ Exists(call[h].account)

CommitRow(h) ==
  LET a == call[h].account IN
  /\ call[h].pc = "commit"
  /\ call[h].op \in {"put", "revoke"}
  /\ IF Collides(h) THEN Stop(h) ELSE WriteRow(h, a, Saved(h, a))

-----------------------------------------------------------------------------
(* findActiveOrCreateVisitorForFirstLogin(a) of an account with no row.    *)
FirstLoginFind(h, a) ==
  LET k == IF a \in superAdmin THEN Superadmin ELSE Visitor IN
  /\ ~Exists(a)
  /\ k = Visitor => definition[k] = "active"
  /\ Start(h, "firstLogin",
       [NoCall EXCEPT !.account = a, !.key = k,
                      !.pc = IF definition[k] = "active" THEN "insert"
                             ELSE "ensure"])
  /\ UNCHANGED <<dataVars, holder, fixedVars, feedVars>>

(* ensureSuperadminPermission of a definition that is not active.          *)
EnsureSuperadmin(h) ==
  /\ call[h].pc = "ensure"
  /\ version < MaxVersion
  /\ definition' = [definition EXCEPT ![Superadmin] = "active"]
  /\ Continue(h, [call[h] EXCEPT !.pc = "increment"])
  /\ UNCHANGED <<assignment, version, holder, fixedVars, feedVars>>

(* incrementPermissionSchemaVersion, a statement of its own.               *)
Increment(h) ==
  /\ call[h].pc = "increment"
  /\ version < MaxVersion
  /\ version' = version + 1
  /\ Continue(h, IF call[h].op = "firstLogin"
                 THEN [call[h] EXCEPT !.pc = "insert"] ELSE NoCall)
  /\ UNCHANGED <<definition, assignment, holder, fixedVars, feedVars>>

(* INSERT without an event; on a conflict the other's row is returned.     *)
FirstLoginInsert(h) ==
  LET a == call[h].account IN
  /\ call[h].pc = "insert"
  /\ call[h].op = "firstLogin"
  /\ IF Exists(a) THEN Stop(h)
     ELSE /\ assignment' = [assignment EXCEPT
               ![a] = [status |-> "active", key |-> call[h].key]]
          /\ UNCHANGED <<definition, version, holder, fixedVars, told>>
          /\ untold' = [untold EXCEPT ![a] = Why(a, "firstLogin")]
          /\ Continue(h, NoCall)

-----------------------------------------------------------------------------
(* create(k): existsBy, then an INSERT that the unique index may refuse.   *)
CreateFind(h, k) ==
  /\ definition[k] = "absent"
  /\ Start(h, "create", [NoCall EXCEPT !.pc = "insert", !.key = k])
  /\ UNCHANGED <<dataVars, holder, fixedVars, feedVars>>

CreateInsert(h) ==
  /\ call[h].pc = "insert"
  /\ call[h].op = "create"
  /\ IF definition[call[h].key] # "absent" THEN Stop(h)
     ELSE /\ definition' = [definition EXCEPT ![call[h].key] = "active"]
          /\ Continue(h, [call[h] EXCEPT !.pc = "increment"])
          /\ UNCHANGED <<assignment, version, holder, fixedVars, feedVars>>

(* update(k, {status: s}), or without a status, which saves the one it     *)
(* loaded; the visitor stays active, removal has its own endpoint.         *)
UpdateFind(h, k, s) ==
  /\ definition[k] # "absent"
  /\ s \in {"active", "deprecated"} \cup {definition[k]}
  /\ k = Visitor => s = "active"
  /\ Start(h, "update",
           [NoCall EXCEPT !.pc = "save", !.key = k, !.status = s])
  /\ UNCHANGED <<dataVars, holder, fixedVars, feedVars>>

(* remove(k): counts the assignments; with any left it continues as        *)
(* migrate, MigrateCheck.                                                  *)
RemoveCount(h, k) ==
  /\ definition[k] # "absent"
  /\ k # Visitor
  /\ Assigned(k) = {}
  /\ Start(h, "remove",
           [NoCall EXCEPT !.pc = "save", !.key = k, !.status = "removed"])
  /\ UNCHANGED <<dataVars, holder, fixedVars, feedVars>>

(* save of one column, status: its two statements act as one.              *)
SaveDefinition(h) ==
  LET k == call[h].key
      s == call[h].status IN
  /\ call[h].pc = "save"
  /\ call[h].op \in {"update", "remove"}
  /\ call[h].op = "remove" => version < MaxVersion
  /\ definition' = [definition EXCEPT ![k] = s]
  /\ Continue(h, IF call[h].op = "remove"
                 THEN [call[h] EXCEPT !.pc = "increment"] ELSE NoCall)
  /\ UNCHANGED <<assignment, version, holder, fixedVars, feedVars>>

(* update of the service: its entity carries the version it loaded.        *)
ServiceFind(h) ==
  /\ Start(h, "service", [NoCall EXCEPT !.pc = "save", !.version = version])
  /\ UNCHANGED <<dataVars, holder, fixedVars, feedVars>>

ServiceSave(h) ==
  /\ call[h].pc = "save"
  /\ call[h].op = "service"
  /\ version' = call[h].version
  /\ Continue(h, NoCall)
  /\ UNCHANGED <<definition, assignment, holder, fixedVars, feedVars>>

-----------------------------------------------------------------------------
(* migrate(k, t): source and target are checked before the transaction.    *)
MigrateCheck(h, k, t) ==
  /\ definition[k] # "absent"
  /\ k \notin {Visitor, t}
  /\ definition[t] = "active"
  /\ Start(h, "migrate",
           [NoCall EXCEPT !.pc = "lockAll", !.key = k, !.target = t])
  /\ UNCHANGED <<dataVars, holder, fixedVars, feedVars>>

(* SELECT ... FOR UPDATE of the active assignments of the source.          *)
MigrateLock(h) ==
  LET rows == Assigned(call[h].key) IN
  /\ call[h].pc = "lockAll"
  /\ \A a \in rows : holder[a] = None
  /\ holder' = [a \in Account |-> IF a \in rows THEN h ELSE holder[a]]
  /\ Continue(h, [call[h] EXCEPT !.pc = "find"])
  /\ UNCHANGED <<dataVars, fixedVars, feedVars>>

(* The assignments that will be told of.                                   *)
MigrateFind(h) ==
  /\ call[h].pc = "find"
  /\ call[h].op = "migrate"
  /\ Continue(h, [call[h] EXCEPT !.pc = "move", !.found = Assigned(call[h].key)])
  /\ UNCHANGED <<dataVars, holder, fixedVars, feedVars>>

(* The UPDATE moves every row of the source, revoked ones and those that   *)
(* came after the find included; the source is removed; the events tell of *)
(* the rows that were found.                                               *)
MoveRows(h) ==
  [a \in Account |-> IF assignment[a].key = call[h].key
                     THEN [assignment[a] EXCEPT !.key = call[h].target]
                     ELSE assignment[a]]

MigrateMove(h) ==
  LET k == call[h].key
      t == call[h].target
      found == call[h].found
  IN
  /\ call[h].pc = "move"
  /\ version < MaxVersion
  /\ \A a \in Account : assignment[a].key = k => Free(h, a)
  /\ assignment' = MoveRows(h)
  /\ definition' = [definition EXCEPT ![k] = "removed"]
  /\ version' = version + 1
  /\ told' = [a \in Account |-> IF a \in found THEN t ELSE told[a]]
  /\ untold' = [a \in Account |->
       Why(a, IF a \in found /\ a \in Assigned(k) THEN None
              ELSE IF a \in found \/ a \in Assigned(k) THEN "migrated"
              ELSE untold[a])]
  /\ holder' = Unlocked(h)
  /\ Continue(h, NoCall)
  /\ UNCHANGED fixedVars

(* The process or its connection dies; an open transaction rolls back.     *)
Crash(h) == call[h].pc # "idle" /\ Stop(h)

-----------------------------------------------------------------------------
(* create of ServiceRegistryService makes both managed definitions; others *)
(* may have been created since.                                            *)
PermissionInit ==
  /\ definition \in [Key -> {"absent", "active"}]
  /\ \A k \in {Visitor, Superadmin} : definition[k] = "active"
  /\ assignment = [a \in Account |-> NoAssignment]
  /\ version = 1
  /\ holder = [a \in Account |-> None]
  /\ call = [h \in Handler |-> NoCall]
  /\ superAdmin \in SUBSET Account
  /\ operations \in Workload
  /\ told = [a \in Account |-> None]
  /\ untold = [a \in Account |-> None]

AssignmentStep(h) ==
  \/ \E a \in Account : \/ \E k \in Key : PutCheck(h, a, k)
                        \/ RevokeStart(h, a)
                        \/ FirstLoginFind(h, a)
  \/ LockRow(h)
  \/ ReadRow(h)
  \/ SelectRow(h)
  \/ CommitRow(h)
  \/ EnsureSuperadmin(h)
  \/ Increment(h)
  \/ FirstLoginInsert(h)

DefinitionStep(h) ==
  \/ \E k \in Key : \/ CreateFind(h, k)
                    \/ \E s \in DefinitionStatus : UpdateFind(h, k, s)
                    \/ RemoveCount(h, k)
                    \/ \E t \in Key : MigrateCheck(h, k, t)
  \/ CreateInsert(h)
  \/ SaveDefinition(h)
  \/ ServiceFind(h)
  \/ ServiceSave(h)
  \/ MigrateLock(h)
  \/ MigrateFind(h)
  \/ MigrateMove(h)

PermissionNext ==
  \E h \in Handler : AssignmentStep(h) \/ DefinitionStep(h) \/ Crash(h)

PermissionSpec == PermissionInit /\ [][PermissionNext]_permissionVars

-----------------------------------------------------------------------------
(* Type invariant of definitions, assignments, handlers and the feed.      *)
PermissionTypeOK ==
  /\ definition \in [Key -> DefinitionStatus]
  /\ assignment \in [Account -> Assignment]
  /\ version \in 1..MaxVersion
  /\ holder \in [Account -> Handler \cup {None}]
  /\ call \in [Handler -> Call]
  /\ superAdmin \subseteq Account
  /\ operations \in Workload
  /\ told \in [Account -> Key \cup {None}]
  /\ untold \in [Account -> Reason \cup {None}]

(* A service that applies the events in the order of their transactions    *)
(* knows what each account may do, but for the silent changes that untold  *)
(* names; of those, the operations with a caller make only the first       *)
(* login's (account-permissions.service.ts, service-applications.service   *)
(* .ts: the event is enqueued in the transaction of the change).           *)
FeedTellsGrants ==
  \A a \in Account :
    told[a] # Granted(a) =>
      /\ untold[a] # None
      /\ operations \cap {"put", "revoke", "migrate"} = {}
           => untold[a] = "firstLogin"
=============================================================================
