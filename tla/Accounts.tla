------------------------------ MODULE Accounts ------------------------------
(***************************************************************************)
(* The rows of table accounts and the handlers of AccountsService that     *)
(* write them: the admin's update (of the status, or as "rename" without   *)
(* one) and resetPassword, the hosted login's authenticate, and            *)
(* completePasswordReset.                                                  *)
(*                                                                         *)
(* Each handler loads the account, works on the loaded entity (password    *)
(* hashing takes long) and hands it to TypeORM's save, which reads the row *)
(* again, computes the columns in which the entity differs from it, and    *)
(* updates exactly those.  Every await is a step here, so a handler may    *)
(* save an entity that other handlers have overtaken.  PostgreSQL runs at  *)
(* READ COMMITTED: reads see committed rows, an UPDATE of a row another    *)
(* open transaction has updated waits for that transaction.                *)
(*                                                                         *)
(* Only update runs in a transaction; its write is visible at Commit.  The *)
(* revocation of refresh tokens that update and resetPassword perform is a *)
(* step here too; what it does to the tokens is in module RefreshTokens.   *)
(***************************************************************************)
EXTENDS Naturals, FiniteSets

CONSTANTS Account,      \* the accounts
          SuperAdmin,   \* those with isSuperAdmin, which no handler changes
          Password,     \* the passwords (each with the hash that verifies it)
          TempPassword, \* '123456789', which forces a reset at the next login
          AdminCall,    \* the handlers that may run at the same time
          Operations,   \* the operations they run, a bound on the workload
          None          \* a null column or an unset local

ASSUME SuperAdminAssumption == SuperAdmin \subseteq Account
ASSUME PasswordAssumption == TempPassword \in Password
ASSUME OperationsAssumption ==
  Operations \subseteq {"update", "rename", "reset", "login", "complete"}
ASSUME NoneIsNoAccount == None \notin Account

VARIABLES account, \* the committed rows of table accounts
          call     \* the local state of each handler

accountVars == <<account, call>>

Status == {"active", "locked", "disabled"}

AccountRow == [status : Status, password : Password, resetRequired : BOOLEAN]

(* The columns of AccountRow that a handler's entity may write.            *)
Column == {"status", "password", "resetRequired"}

Op == {"update", "rename", "reset", "login", "complete"}

(* The operations of AccountsService.update, which runs in a transaction.  *)
Transactional == {"update", "rename"}

(* The handlers that hash a password anew.                                 *)
Rehashing == {"reset", "complete"}

(* Where a handler stands: countAdmins, the last-super-admin query;        *)
(* select and write, the two statements of save; revoke, the UPDATE of     *)
(* token_records; commit, the end of update's transaction.                 *)
Call == [pc      : {"idle", "countAdmins", "select", "write", "revoke",
                    "commit"},
         op      : Op,
         id      : Account \cup {None},
         entity  : AccountRow,       \* the loaded and modified entity
         columns : SUBSET Column]    \* those that save found different

NewAccount(p) == [status |-> "active", password |-> p, resetRequired |-> FALSE]

NoCall == [pc |-> "idle", op |-> "update", id |-> None,
           entity |-> NewAccount(TempPassword), columns |-> {}]

-----------------------------------------------------------------------------
(* What a save writes: the differing columns only, over the current row.   *)
Saved(h) ==
  LET new == call[h].entity
      old == account[call[h].id]
      col == call[h].columns
  IN [status        |-> IF "status" \in col THEN new.status ELSE old.status,
      password      |-> IF "password" \in col THEN new.password
                        ELSE old.password,
      resetRequired |-> IF "resetRequired" \in col THEN new.resetRequired
                        ELSE old.resetRequired]

(* The UPDATE of an update's save changes something: a new name, or one of *)
(* the columns here.  TypeORM sends none otherwise.                        *)
Changes(h) == call[h].op = "rename" \/ call[h].columns # {}

(* An update transaction holds the row lock from its write to its end.     *)
HoldsRow(h, a) ==
  /\ call[h].op \in Transactional
  /\ call[h].id = a
  /\ call[h].pc \in {"revoke", "commit"}
  /\ Changes(h)

RowFree(a) == \A h \in AdminCall : ~HoldsRow(h, a)

ActiveSuperAdmins == {a \in SuperAdmin : account[a].status = "active"}

Load(h, op, a, entity, pc) ==
  /\ call[h].pc = "idle"
  /\ op \in Operations
  /\ call' = [call EXCEPT ![h] = [pc |-> pc, op |-> op, id |-> a,
                                  entity |-> entity, columns |-> {}]]
  /\ UNCHANGED account

Goto(h, pc) == call' = [call EXCEPT ![h].pc = pc]

Return(h) == call' = [call EXCEPT ![h] = NoCall]

(* What is left of a resetPassword that has saved: the account's tokens.   *)
Revokes(h) ==
  call' = [call EXCEPT ![h] = [NoCall EXCEPT !.pc = "revoke", !.op = "reset",
                                             !.id = call[h].id]]

-----------------------------------------------------------------------------
(* update(id, {status}): findOneBy inside the transaction.  Disabling an   *)
(* active super admin goes through the count first.                        *)
UpdateFind(h, a, s) ==
  Load(h, "update", a, [account[a] EXCEPT !.status = s],
       IF s = "disabled" /\ account[a].status = "active" /\ a \in SuperAdmin
       THEN "countAdmins" ELSE "select")

(* update(id, {name, email}): the loaded status goes back into the save.   *)
RenameFind(h, a) == Load(h, "rename", a, account[a], "select")

(* Mutant of UpdateCountAdmins: it lets the last one go.                   *)
UpdateCountAdminsNone(h) ==
  /\ call[h].pc = "countAdmins"
  /\ IF Cardinality(ActiveSuperAdmins) < 1 THEN Return(h) ELSE Goto(h, "select")
  /\ UNCHANGED account

(* countBy active super admins; with one left the request fails with 409.  *)
UpdateCountAdmins(h) ==
  /\ call[h].pc = "countAdmins"
  /\ IF Cardinality(ActiveSuperAdmins) <= 1 THEN Return(h)
     ELSE Goto(h, "select")
  /\ UNCHANGED account

(* Mutant of ResetFind: it never asks for a reset.                         *)
ResetFindSilent(h, a, p) ==
  Load(h, "reset", a,
       [account[a] EXCEPT !.password = p, !.resetRequired = FALSE], "select")

(* resetPassword(id, password).                                            *)
ResetFind(h, a, p) ==
  Load(h, "reset", a,
       [account[a] EXCEPT !.password = p,
                          !.resetRequired = (p = TempPassword)],
       "select")

(* authenticate: an active account, the right password, no reset pending;  *)
(* the entity is saved to record lastLoginAt.                              *)
LoginFind(h, a, p) ==
  /\ account[a].status = "active"
  /\ account[a].password = p
  /\ ~account[a].resetRequired
  /\ Load(h, "login", a, account[a], "select")

(* completePasswordReset with the temporary password.  The new password    *)
(* must be a normal one.                                                   *)
CompleteFind(h, a, p, new) ==
  /\ account[a].status = "active"
  /\ account[a].password = p
  /\ account[a].resetRequired
  /\ new # TempPassword
  /\ Load(h, "complete", a,
          [account[a] EXCEPT !.password = new, !.resetRequired = FALSE],
          "select")

-----------------------------------------------------------------------------
(* Mutant of SaveSelect: the whole entity will be written.                 *)
SaveSelectAll(h) ==
  /\ call[h].pc = "select"
  /\ call' = [call EXCEPT ![h].pc = "write", ![h].columns = Column]
  /\ UNCHANGED account

(* save, first statement: SELECT the row and compare.  A password that the *)
(* handler has just hashed differs from any other, its salt being new.     *)
SaveSelect(h) ==
  /\ call[h].pc = "select"
  /\ call' = [call EXCEPT
       ![h].pc = "write",
       ![h].columns =
          {c \in Column : \/ call[h].entity[c] # account[call[h].id][c]
                          \/ c = "password" /\ call[h].op \in Rehashing}]
  /\ UNCHANGED account

(* save, second statement, outside a transaction: the write is committed.  *)
(* lastLoginAt or a new hash always differs, so it waits for the row.      *)
SaveWrite(h) ==
  /\ call[h].pc = "write"
  /\ call[h].op \notin Transactional
  /\ RowFree(call[h].id)
  /\ account' = [account EXCEPT ![call[h].id] = Saved(h)]
  /\ IF call[h].op = "reset" THEN Revokes(h) ELSE Return(h)

(* save, second statement, in update's transaction: nothing is visible     *)
(* yet, but the row is locked if any column differs.  A status in the      *)
(* request that disables the account is followed by the revocation.        *)
UpdateWrite(h) ==
  /\ call[h].pc = "write"
  /\ call[h].op \in Transactional
  /\ Changes(h) => RowFree(call[h].id)
  /\ Goto(h, IF call[h].op = "update" /\ call[h].entity.status = "disabled"
             THEN "revoke" ELSE "commit")
  /\ UNCHANGED account

(* revokeAccountRefreshTokens: the last step of resetPassword, and in      *)
(* update's transaction the step before its commit.                        *)
RevokeAccountRefreshTokens(h) ==
  /\ call[h].pc = "revoke"
  /\ IF call[h].op = "update" THEN Goto(h, "commit") ELSE Return(h)
  /\ UNCHANGED account

UpdateCommit(h) ==
  /\ call[h].pc = "commit"
  /\ account' = [account EXCEPT ![call[h].id] = Saved(h)]
  /\ Return(h)

(* The process or its connection dies: an open transaction rolls back, the *)
(* steps a resetPassword has already made stay.                            *)
CallCrash(h) ==
  /\ call[h].pc # "idle"
  /\ Return(h)
  /\ UNCHANGED account

-----------------------------------------------------------------------------
(* Accounts are created active with a normal password.                     *)
AccountInit ==
  /\ \E p \in Password \ {TempPassword} :
       account = [a \in Account |-> NewAccount(p)]
  /\ call = [h \in AdminCall |-> NoCall]

FindStep(h) ==
  \E a \in Account :
    \/ \E s \in Status : UpdateFind(h, a, s)
    \/ RenameFind(h, a)
    \/ \E p \in Password : ResetFind(h, a, p)
    \/ \E p \in Password : LoginFind(h, a, p)
    \/ \E p, new \in Password : CompleteFind(h, a, p, new)

(* The steps that leave table token_records alone.                         *)
AccountStep(h) ==
  \/ FindStep(h)
  \/ UpdateCountAdmins(h)
  \/ SaveSelect(h)
  \/ SaveWrite(h)
  \/ UpdateWrite(h)

AccountNext ==
  \E h \in AdminCall :
    \/ AccountStep(h)
    \/ RevokeAccountRefreshTokens(h)
    \/ UpdateCommit(h)
    \/ CallCrash(h)

AccountSpec == AccountInit /\ [][AccountNext]_accountVars

-----------------------------------------------------------------------------
(* Type invariant of the account rows and of the handlers' local state.    *)
AccountTypeOK ==
  /\ account \in [Account -> AccountRow]
  /\ call \in [AdminCall -> Call]
=============================================================================
