--------------------------- MODULE Accounts_proofs ---------------------------
(***************************************************************************)
(* Proofs about module Accounts.                                           *)
(***************************************************************************)
EXTENDS Accounts, TLAPS

(* A save merges an entity into a row column by column: both being account *)
(* rows, so is what it writes.                                             *)
LEMMA SavedType ==
  ASSUME AccountTypeOK, NEW h \in AdminCall, call[h].id \in Account
  PROVE  Saved(h) \in AccountRow
<1>1. /\ call[h].entity \in AccountRow
      /\ account[call[h].id] \in AccountRow
  BY DEF AccountTypeOK, Call
<1> QED
  BY <1>1 DEF Saved, AccountRow

(* Only a handler at work has an account to save.                          *)
CallHasAccount ==
  \A h \in AdminCall : call[h].pc # "idle" => call[h].id \in Account

AccountIInv == AccountTypeOK /\ CallHasAccount

LEMMA AccountRows ==
  ASSUME AccountTypeOK, NEW a \in Account
  PROVE  /\ account[a].status \in Status
         /\ account[a].password \in Password
         /\ account[a].resetRequired \in BOOLEAN
         /\ account[a] \in AccountRow
BY DEF AccountTypeOK, AccountRow

LEMMA AccountInitial == AccountInit => AccountIInv
<1> SUFFICES ASSUME AccountInit PROVE AccountIInv
  OBVIOUS
<1>1. \A p \in Password : NewAccount(p) \in AccountRow
  BY DEF NewAccount, AccountRow, Status
<1>2. NoCall \in Call
  BY <1>1, PasswordAssumption DEF NoCall, Call, Op
<1>3. AccountTypeOK
  BY <1>1, <1>2 DEF AccountInit, AccountTypeOK
<1>4. CallHasAccount
  BY DEF AccountInit, CallHasAccount, NoCall
<1> QED
  BY <1>3, <1>4 DEF AccountIInv

(* Loading an account starts a handler on it.                              *)
LEMMA LoadKeeps ==
  ASSUME AccountIInv, NEW h \in AdminCall, NEW op \in Op, NEW a \in Account,
         NEW e \in AccountRow, NEW pc \in {"countAdmins", "select"},
         Load(h, op, a, e, pc)
  PROVE  AccountIInv'
<1>1. [pc |-> pc, op |-> op, id |-> a, entity |-> e, columns |-> {}] \in Call
  BY DEF Call
<1> QED
  BY <1>1 DEF AccountIInv, AccountTypeOK, CallHasAccount, Load

(* Moving on within a handler, or ending it, disturbs neither part.        *)
LEMMA GotoKeeps ==
  ASSUME AccountIInv, NEW h \in AdminCall, call[h].pc # "idle",
         NEW pc \in {"select", "write", "revoke", "commit"},
         Goto(h, pc), account' \in [Account -> AccountRow]
  PROVE  AccountIInv'
BY DEF AccountIInv, AccountTypeOK, CallHasAccount, Goto, Call

LEMMA ReturnKeeps ==
  ASSUME AccountIInv, NEW h \in AdminCall,
         Return(h), account' \in [Account -> AccountRow]
  PROVE  AccountIInv'
<1>1. NoCall \in Call
  BY PasswordAssumption DEF NoCall, Call, Op, NewAccount, AccountRow, Status
<1> QED
  BY <1>1 DEF AccountIInv, AccountTypeOK, CallHasAccount, Return, NoCall

LEMMA RevokesKeeps ==
  ASSUME AccountIInv, NEW h \in AdminCall, call[h].id \in Account,
         Revokes(h), account' \in [Account -> AccountRow]
  PROVE  AccountIInv'
<1>1. [NoCall EXCEPT !.pc = "revoke", !.op = "reset", !.id = call[h].id] \in Call
  BY PasswordAssumption DEF NoCall, Call, Op, NewAccount, AccountRow, Status
<1>2. PICK c \in Call : /\ call' = [call EXCEPT ![h] = c]
                        /\ c.id \in Account
  <2>1. [NoCall EXCEPT !.pc = "revoke", !.op = "reset", !.id = call[h].id].id
          = call[h].id
    BY DEF NoCall
  <2> QED
    BY <1>1, <2>1 DEF Revokes
<1> QED
  BY <1>2 DEF AccountIInv, AccountTypeOK, CallHasAccount

LEMMA FindKeeps ==
  ASSUME AccountIInv, NEW h \in AdminCall, FindStep(h)
  PROVE  AccountIInv'
<1>0. AccountTypeOK
  BY DEF AccountIInv
<1>1. PICK a \in Account :
        \/ \E s \in Status : UpdateFind(h, a, s)
        \/ RenameFind(h, a)
        \/ \E p \in Password : ResetFind(h, a, p)
        \/ \E p \in Password : LoginFind(h, a, p)
        \/ \E p, new \in Password : CompleteFind(h, a, p, new)
  BY DEF FindStep
<1>2. account[a] \in AccountRow
  BY <1>0, AccountRows
<1>3. ASSUME NEW s \in Status, UpdateFind(h, a, s) PROVE AccountIInv'
  <2>1. [account[a] EXCEPT !.status = s] \in AccountRow
    BY <1>2 DEF AccountRow
  <2> QED
    BY <1>3, <2>1, LoadKeeps DEF UpdateFind, Op
<1>4. ASSUME NEW p \in Password, ResetFind(h, a, p) PROVE AccountIInv'
  <2>1. [account[a] EXCEPT !.password = p,
                           !.resetRequired = (p = TempPassword)] \in AccountRow
    BY <1>2 DEF AccountRow
  <2> QED
    BY <1>4, <2>1, LoadKeeps DEF ResetFind, Op
<1>5. ASSUME NEW p \in Password, LoginFind(h, a, p) PROVE AccountIInv'
  BY <1>5, <1>2, LoadKeeps DEF LoginFind, Op
<1>7. ASSUME RenameFind(h, a) PROVE AccountIInv'
  BY <1>7, <1>2, LoadKeeps DEF RenameFind, Op
<1>6. ASSUME NEW p \in Password, NEW new \in Password,
             CompleteFind(h, a, p, new)
      PROVE  AccountIInv'
  <2>1. [account[a] EXCEPT !.password = new, !.resetRequired = FALSE]
          \in AccountRow
    BY <1>2 DEF AccountRow
  <2> QED
    BY <1>6, <2>1, LoadKeeps DEF CompleteFind, Op
<1> QED
  BY <1>1, <1>3, <1>4, <1>5, <1>6, <1>7

LEMMA SaveSelectKeeps ==
  ASSUME AccountIInv, NEW h \in AdminCall, SaveSelect(h)
  PROVE  AccountIInv'
<1> DEFINE cols == {c \in Column :
                      \/ call[h].entity[c] # account[call[h].id][c]
                      \/ c = "password" /\ call[h].op \in Rehashing}
<1>1. cols \in SUBSET Column
  OBVIOUS
<1>2. /\ call[h].pc = "select"
      /\ call' = [call EXCEPT ![h].pc = "write", ![h].columns = cols]
      /\ UNCHANGED account
  BY DEF SaveSelect
<1> HIDE DEF cols
<1> QED
  BY <1>1, <1>2, ZenonT(60) DEF AccountIInv, AccountTypeOK, CallHasAccount, Call

LEMMA AccountNextKeeps ==
  ASSUME AccountIInv, [AccountNext]_accountVars
  PROVE  AccountIInv'
<1>0. AccountTypeOK /\ CallHasAccount
  BY DEF AccountIInv
<1>1. ASSUME NEW h \in AdminCall, FindStep(h) PROVE AccountIInv'
  BY <1>1, FindKeeps
<1>2. ASSUME NEW h \in AdminCall, UpdateCountAdmins(h) PROVE AccountIInv'
  BY <1>0, <1>2, GotoKeeps, ReturnKeeps DEF UpdateCountAdmins, AccountTypeOK
<1>3. ASSUME NEW h \in AdminCall, SaveSelect(h) PROVE AccountIInv'
  BY <1>3, SaveSelectKeeps
<1>4. ASSUME NEW h \in AdminCall, SaveWrite(h) PROVE AccountIInv'
  <2>1. Saved(h) \in AccountRow
    BY <1>0, <1>4, SavedType DEF SaveWrite, CallHasAccount
  <2>2. account' \in [Account -> AccountRow]
    BY <1>0, <1>4, <2>1 DEF SaveWrite, AccountTypeOK
  <2> QED
    BY <1>0, <1>4, <2>2, RevokesKeeps, ReturnKeeps DEF SaveWrite, CallHasAccount
<1>5. ASSUME NEW h \in AdminCall, UpdateWrite(h) PROVE AccountIInv'
  BY <1>0, <1>5, GotoKeeps DEF UpdateWrite, AccountTypeOK
<1>6. ASSUME NEW h \in AdminCall, RevokeAccountRefreshTokens(h)
      PROVE  AccountIInv'
  BY <1>0, <1>6, GotoKeeps, ReturnKeeps
     DEF RevokeAccountRefreshTokens, AccountTypeOK
<1>7. ASSUME NEW h \in AdminCall, UpdateCommit(h) PROVE AccountIInv'
  <2>1. Saved(h) \in AccountRow
    BY <1>0, <1>7, SavedType DEF UpdateCommit, CallHasAccount
  <2>2. account' \in [Account -> AccountRow]
    BY <1>0, <1>7, <2>1 DEF UpdateCommit, AccountTypeOK
  <2> QED
    BY <1>7, <2>2, ReturnKeeps DEF UpdateCommit
<1>8. ASSUME NEW h \in AdminCall, CallCrash(h) PROVE AccountIInv'
  BY <1>0, <1>8, ReturnKeeps DEF CallCrash, AccountTypeOK
<1>9. CASE UNCHANGED accountVars
  BY <1>0, <1>9 DEF AccountIInv, AccountTypeOK, CallHasAccount, accountVars
<1> QED
  BY <1>1, <1>2, <1>3, <1>4, <1>5, <1>6, <1>7, <1>8, <1>9
     DEF AccountNext, AccountStep

(* Whatever handlers overlap, the rows of accounts and the handlers' local *)
(* state keep their types: no save ever writes a blank or foreign value.   *)
THEOREM AccountTypeCorrect == AccountSpec => []AccountTypeOK
<1>1. AccountIInv => AccountTypeOK
  BY DEF AccountIInv
<1> QED
  BY <1>1, AccountInitial, AccountNextKeeps, PTL DEF AccountSpec
=============================================================================
