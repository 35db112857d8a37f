------------------------ MODULE ServiceApplications ------------------------
(***************************************************************************)
(* The applications of accounts for a higher permission of the service,    *)
(* and the handlers of ServiceApplicationsService: apply                   *)
(* (createFromAccessToken), approve and reject.  Composes with             *)
(* PermissionAssignments: an approval writes an assignment under the same  *)
(* row lock as put and revoke.                                             *)
(*                                                                         *)
(* approve and reject lock the application; apply does not: it looks for a *)
(* pending one, and saves over it what it loaded or inserts a new one.     *)
(* A token with the current permission can always be had, so the token's   *)
(* claim adds nothing to the check.                                        *)
(***************************************************************************)
EXTENDS PermissionAssignments

CONSTANT Rank \* the sort order of the keys, ties broken by creation

ASSUME RankAssumption == Rank \in [Key -> Nat]

VARIABLES application, \* the rows of service_applications
          reviewer,    \* the transaction that holds the lock on a row
          doubled,     \* history: accounts with two searches for a pending
                       \* application under way, or one reopened
          rewritten    \* history: approved applications that an apply wrote
                       \* over, having found them pending

applicationVars == <<application, reviewer, doubled, rewritten>>
vars == <<permissionVars, applicationVars>>

ApplicationStatus == {"none", "pending", "approved", "rejected"}

ApplicationRow == [status  : ApplicationStatus,
                   account : Account \cup {None},
                   target  : Key \cup {None}]

NoApplication == [status |-> "none", account |-> None, target |-> None]

-----------------------------------------------------------------------------
Decided(p) == application[p].status \in {"approved", "rejected"}

Pending(a) == {p \in Application : /\ application[p].status = "pending"
                                   /\ application[p].account = a}

(* assertStrictPermissionUpgrade: both are active, not the super admin's,  *)
(* and the wanted one ranks higher.  Mutant: as high will do.              *)
UpgradeOrSame(k, new) ==
  /\ {k, new} \subseteq {d \in Key \ {Superadmin} : definition[d] = "active"}
  /\ Rank[k] <= Rank[new]

Upgrade(k, new) ==
  /\ {k, new} \subseteq {d \in Key \ {Superadmin} : definition[d] = "active"}
  /\ Rank[k] < Rank[new]

(* findRequestedPermission.                                                *)
Requestable(k) == definition[k] = "active" /\ k \notin {Visitor, Superadmin}

ReviewerFree(h, p) == reviewer[p] \in {None, h}

(* h's transaction ends, and with it its lock on an application.           *)
Released(h) == [p \in Application |-> IF reviewer[p] = h THEN None ELSE reviewer[p]]

-----------------------------------------------------------------------------
(* createFromAccessToken: an active grant of an active definition; without *)
(* a requested key only a visitor may apply.                               *)
ApplyCheck(h, a, k) ==
  /\ assignment[a].status = "active"
  /\ definition[assignment[a].key] = "active"
  /\ IF k = None THEN assignment[a].key = Visitor
     ELSE Requestable(k) /\ Upgrade(assignment[a].key, k)
  /\ Start(h, "apply", [NoCall EXCEPT !.pc = "find", !.account = a, !.key = k])
  /\ UNCHANGED <<dataVars, holder, fixedVars, feedVars, applicationVars>>

(* Mutant of ApplyFind: a pending one is not looked for.                   *)
ApplyFindNot(h) ==
  /\ call[h].pc = "find"
  /\ call[h].op = "apply"
  /\ Continue(h, [call[h] EXCEPT !.pc = "commit", !.target = call[h].key])
  /\ UNCHANGED <<dataVars, holder, fixedVars, feedVars, applicationVars>>

(* The search for a pending application.  The loaded row takes the new     *)
(* target if there is one.                                                 *)
ApplyFind(h) ==
  LET c == call[h] IN
  /\ c.pc = "find"
  /\ c.op = "apply"
  /\ IF Pending(c.account) = {}
     THEN Continue(h, [c EXCEPT !.pc = "commit", !.target = c.key])
     ELSE \E p \in Pending(c.account) :
            Continue(h, [c EXCEPT
              !.pc = "select", !.application = p,
              !.target = IF c.key = None THEN application[p].target ELSE c.key])
  /\ doubled' = IF \E g \in Handler \ {h} : /\ call[g].op = "apply"
                                            /\ call[g].pc = "commit"
                                            /\ call[g].account = c.account
                                            /\ call[g].application = None
                THEN doubled \cup {c.account} ELSE doubled
  /\ UNCHANGED <<dataVars, holder, fixedVars, feedVars, application, reviewer,
                 rewritten>>

(* save of the found application, first statement.                         *)
ApplySelect(h) ==
  LET c == call[h]
      p == c.application
  IN
  /\ c.pc = "select"
  /\ c.op = "apply"
  /\ Continue(h, [c EXCEPT
       !.pc = "commit",
       !.columns = (IF application[p].status # "pending" THEN {"status"} ELSE {})
                   \cup (IF application[p].target # c.target THEN {"key"} ELSE {})])
  /\ UNCHANGED <<dataVars, holder, fixedVars, feedVars, applicationVars>>

(* save's UPDATE, which waits for a reviewer, or its INSERT.               *)
ApplyUpdate(h) ==
  LET c == call[h]
      p == c.application
  IN
  /\ c.pc = "commit"
  /\ c.op = "apply"
  /\ p # None
  /\ ReviewerFree(h, p)
  /\ application' = [application EXCEPT
       ![p].status = IF "status" \in c.columns THEN "pending" ELSE @,
       ![p].target = IF "key" \in c.columns THEN c.target ELSE @]
  /\ doubled' = IF Decided(p) /\ "status" \in c.columns
                THEN doubled \cup {c.account} ELSE doubled
  /\ rewritten' = IF application[p].status = "approved" /\ c.columns # {}
                  THEN rewritten \cup {p} ELSE rewritten
  /\ Continue(h, NoCall)
  /\ UNCHANGED <<dataVars, holder, fixedVars, feedVars, reviewer>>

ApplyInsert(h) ==
  LET c == call[h] IN
  /\ c.pc = "commit"
  /\ c.op = "apply"
  /\ c.application = None
  /\ \E p \in Application :
       /\ application[p] = NoApplication
       /\ application' = [application EXCEPT
            ![p] = [status |-> "pending", account |-> c.account,
                    target |-> c.target]]
  /\ Continue(h, NoCall)
  /\ UNCHANGED <<dataVars, holder, fixedVars, feedVars, reviewer, doubled,
                 rewritten>>

-----------------------------------------------------------------------------
(* approve(p, k): the transaction locks and reads the application and      *)
(* finds the definition, then LockRow locks the assignment.                *)
ApproveLock(h, p, k) ==
  /\ application[p].status = "pending"
  /\ application[p].target \in {None, k}
  /\ definition[k] = "active"
  /\ k # Visitor
  /\ ReviewerFree(h, p)
  /\ Start(h, "approve",
           [NoCall EXCEPT !.pc = "lock", !.account = application[p].account,
                          !.application = p, !.key = k])
  /\ reviewer' = [reviewer EXCEPT ![p] = h]
  /\ UNCHANGED <<dataVars, holder, fixedVars, feedVars, application, doubled,
                 rewritten>>

(* The current grant must be active and lower than the target.             *)
ApproveRead(h) ==
  LET a == call[h].account IN
  /\ call[h].pc = "read"
  /\ call[h].op = "approve"
  /\ assignment[a].status = "active"
  /\ Upgrade(assignment[a].key, call[h].key)
  /\ ReadAs(h, a)
  /\ UNCHANGED <<dataVars, holder, fixedVars, feedVars, applicationVars>>

(* Mutant of ApproveCommit: what was granted is not written down.          *)
ApproveCommitBare(h) ==
  LET a == call[h].account IN
  /\ call[h].pc = "commit"
  /\ call[h].op = "approve"
  /\ WriteRow(h, a, Saved(h, a))
  /\ application' = [application EXCEPT ![call[h].application].status = "approved"]
  /\ reviewer' = Released(h)
  /\ UNCHANGED <<doubled, rewritten>>

(* Both rows are saved, the event is enqueued and the transaction ends.    *)
ApproveCommit(h) ==
  LET a == call[h].account IN
  /\ call[h].pc = "commit"
  /\ call[h].op = "approve"
  /\ WriteRow(h, a, Saved(h, a))
  /\ application' = [application EXCEPT
       ![call[h].application].status = "approved",
       ![call[h].application].target = call[h].key]
  /\ reviewer' = Released(h)
  /\ UNCHANGED <<doubled, rewritten>>

(* reject(p) writes only the row it locks: one step.                       *)
Reject(h, p) ==
  /\ call[h].pc = "idle"
  /\ application[p].status = "pending"
  /\ reviewer[p] = None
  /\ application' = [application EXCEPT ![p].status = "rejected"]
  /\ UNCHANGED <<permissionVars, reviewer, doubled, rewritten>>

(* A failed check or a crash ends the transaction.                         *)
ApplicationCrash(h) == /\ Crash(h)
                       /\ reviewer' = Released(h)
                       /\ UNCHANGED <<application, doubled, rewritten>>

-----------------------------------------------------------------------------
Init ==
  /\ PermissionInit
  /\ application = [p \in Application |-> NoApplication]
  /\ reviewer = [p \in Application |-> None]
  /\ doubled = {}
  /\ rewritten = {}

ApplyStep(h) ==
  \/ \E a \in Account, k \in Key \cup {None} : ApplyCheck(h, a, k)
  \/ ApplyFind(h)
  \/ ApplySelect(h)
  \/ ApplyUpdate(h)
  \/ ApplyInsert(h)

ReviewStep(h) ==
  \/ \E p \in Application : \/ \E k \in Key : ApproveLock(h, p, k)
                            \/ Reject(h, p)
  \/ ApproveRead(h)
  \/ ApproveCommit(h)

Next ==
  \E h \in Handler :
    \/ (AssignmentStep(h) \/ DefinitionStep(h)) /\ UNCHANGED applicationVars
    \/ ApplyStep(h)
    \/ ReviewStep(h)
    \/ ApplicationCrash(h)

Spec == Init /\ [][Next]_vars

-----------------------------------------------------------------------------
(* Type invariant of the applications, with that of the permissions.       *)
TypeOK ==
  /\ PermissionTypeOK
  /\ application \in [Application -> ApplicationRow]
  /\ reviewer \in [Application -> Handler \cup {None}]
  /\ doubled \subseteq Account
  /\ rewritten \subseteq Application

(* An account has one pending application, unless two requests looked for  *)
(* it at the same time or one put a decided application back               *)
(* (service-applications.service.ts: apply saves over the pending one).    *)
OnePending ==
  \A a \in Account : Cardinality(Pending(a)) > 1 => a \in doubled

(* Whoever holds a permission beyond those of a first login has an         *)
(* application that was approved for it and still says so, unless an       *)
(* apply that had found it pending wrote over it (approve: "Approval       *)
(* target must match requested permission").  Without put and migrate,     *)
(* which grant by themselves and have no caller.                           *)
Approved(a, k) ==
  \E p \in Application :
    /\ application[p].account = a
    /\ \/ application[p].status = "approved" /\ application[p].target = k
       \/ p \in rewritten

GrantIsApproved ==
  operations \cap {"put", "migrate"} = {} =>
    \A a \in Account :
      Exists(a) /\ assignment[a].key \notin {Visitor, Superadmin}
        => Approved(a, assignment[a].key)

(* An approval raises the permission its account has at that moment, to    *)
(* what the application asked for, however first logins, put, revoke,      *)
(* migrate and the other reviewers interleave.                             *)
Approves(h) == /\ call[h].op = "approve"
               /\ call[h].pc = "commit" /\ call'[h].pc = "idle"
               /\ application' # application

ApprovalsRaise ==
  [][\A h \in Handler :
       Approves(h)
         => LET a == call[h].account IN
            /\ assignment[a].status = "active"
            /\ Rank[assignment[a].key] < Rank[assignment'[a].key]]_vars
=============================================================================
