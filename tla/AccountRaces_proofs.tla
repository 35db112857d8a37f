------------------------- MODULE AccountRaces_proofs -------------------------
(***************************************************************************)
(* What overlapping account handlers keep: the three action properties of  *)
(* AccountRaces, with any number of handlers.                              *)
(***************************************************************************)
EXTENDS AccountRaces, Accounts_proofs, FiniteSetTheorems

(* Overlapping handlers, AccountRaces.  An entity that nobody has          *)
(* overtaken is what its operation makes of the row in the table.          *)
Derived(h) ==
  LET e == call[h].entity
      row == account[call[h].id]
  IN
  /\ call[h].op = "update" => /\ e.password = row.password
                              /\ e.resetRequired = row.resetRequired
  /\ call[h].op = "reset" => /\ e.status = row.status
                             /\ e.resetRequired <=> e.password = TempPassword
  /\ call[h].op \in {"rename", "login"} => e = row
  /\ call[h].op = "complete" => /\ e.status = row.status
                                /\ e.password # TempPassword

(* The columns that it will not write have its values already.             *)
Complete(h) ==
  \A c \in Column \ call[h].columns :
    call[h].entity[c] = account[call[h].id][c]

(* The handler has yet to write, or to commit what it wrote.               *)
Saves(h) == \/ call[h].pc \in {"write", "commit"}
            \/ call[h].pc = "revoke" /\ call[h].op = "update"

Fresh(h) == behind[h] \cap {"load", "select"} = {}

LoadInv(h) ==
  call[h].pc \in {"countAdmins", "select"} /\ "load" \notin behind[h] => Derived(h)

SaveInv(h) == Saves(h) /\ Fresh(h) => Derived(h) /\ Complete(h)

(* A save that does not carry a status over leaves the row's alone, even   *)
(* if it is overtaken after its SELECT.                                    *)
StatusInv(h) ==
  call[h].op # "update" /\ Saves(h) /\ "load" \notin behind[h]
    => "status" \notin call[h].columns

(* A handler that is to disable a super admin has counted another one.     *)
AdminInv(h) ==
  /\ call[h].op = "update"
  /\ call[h].pc \notin {"idle", "countAdmins"}
  /\ behind[h] = {}
  /\ call[h].entity.status = "disabled"
  /\ call[h].id \in SuperAdmin
  /\ account[call[h].id].status = "active"
  => ActiveSuperAdmins # {call[h].id}

PcInv(h) == /\ call[h].pc = "countAdmins" => call[h].op = "update"
            /\ call[h].pc = "commit" => call[h].op \in Transactional

HandlerInv(h) == /\ LoadInv(h)
                 /\ SaveInv(h)
                 /\ StatusInv(h)
                 /\ AdminInv(h)
                 /\ PcInv(h)

RaceInv == AccountIInv /\ \A h \in AdminCall : HandlerInv(h)

(* A handler that ends, or one whose reset has been written.               *)
LEMMA DoneKeeps ==
  ASSUME NEW h \in AdminCall,
         \/ call'[h].pc = "idle"
         \/ call'[h].pc = "revoke" /\ call'[h].op = "reset"
  PROVE  HandlerInv(h)'
BY DEF HandlerInv, LoadInv, SaveInv, StatusInv, AdminInv, PcInv, Saves

(* A handler that stands still: a change of its row overtakes it.          *)
LEMMA StandsKeeps ==
  ASSUME RaceInv, RecordRaces, NEW g \in AdminCall, call'[g] = call[g]
  PROVE  HandlerInv(g)'
<1>1. HandlerInv(g)
  BY DEF RaceInv
<1>2. CASE Over(g)
  BY <1>2, DoneKeeps DEF Over
<1>3. CASE ~Over(g)
  <2>1. behind'[g] = behind[g] \cup Overtaken(g)
    <3>1. ~Over(g)'
      BY <1>3 DEF Over
    <3> QED
      BY <3>1 DEF RecordRaces
  <2>2. account'[call[g].id] # account[call[g].id]
          => IF call[g].pc \in {"countAdmins", "select"} THEN "load" \in behind'[g]
             ELSE "select" \in behind'[g]
    BY <2>1 DEF Overtaken, Behind
  <2>3. /\ ActiveSuperAdmins' # ActiveSuperAdmins
        /\ call[g].op = "update" /\ call[g].entity.status = "disabled"
        => "admins" \in behind'[g]
    BY <2>1 DEF Overtaken, Behind
  <2>4. \A b : b \notin behind'[g] => b \notin behind[g]
    BY <2>1
  <2>5. LoadInv(g)'
    BY <1>1, <2>2, <2>4 DEF HandlerInv, LoadInv, Derived
  <2>6. SaveInv(g)'
    <3>1. Saves(g)' => call[g].pc \notin {"countAdmins", "select"} /\ Saves(g)
      BY DEF Saves
    <3>2. Fresh(g)' => Fresh(g)
      BY <2>4 DEF Fresh
    <3>3. Saves(g)' /\ Fresh(g)' => account'[call[g].id] = account[call[g].id]
      BY <2>2, <3>1 DEF Fresh
    <3> QED
      BY <1>1, <3>1, <3>2, <3>3 DEF HandlerInv, SaveInv, Derived, Complete
  <2>7. StatusInv(g)'
    BY <1>1, <2>4 DEF HandlerInv, StatusInv, Saves
  <2>8. AdminInv(g)'
    <3>1. /\ behind'[g] = {}
          /\ call[g].op = "update" /\ call[g].entity.status = "disabled"
          => /\ behind[g] = {}
             /\ account'[call[g].id] = account[call[g].id]
             /\ ActiveSuperAdmins' = ActiveSuperAdmins
      BY <2>1, <2>2, <2>3
    <3> QED
      BY <1>1, <3>1 DEF HandlerInv, AdminInv
  <2>9. PcInv(g)'
    BY <1>1 DEF HandlerInv, PcInv
  <2> QED
    BY <2>5, <2>6, <2>7, <2>8, <2>9 DEF HandlerInv
<1> QED
  BY <1>2, <1>3

(* A handler that has loaded its account.                                  *)
LEMMA FindRaces ==
  ASSUME RaceInv, NEW h \in AdminCall, FindStep(h)
  PROVE  HandlerInv(h)'
<1>1. PICK a \in Account :
        \/ \E s \in Status : UpdateFind(h, a, s)
        \/ RenameFind(h, a)
        \/ \E p \in Password : ResetFind(h, a, p)
        \/ \E p \in Password : LoginFind(h, a, p)
        \/ \E p, new \in Password : CompleteFind(h, a, p, new)
  BY DEF FindStep
<1>2. account[a] \in AccountRow /\ call \in [AdminCall -> Call]
  BY AccountRows DEF RaceInv, AccountIInv, AccountTypeOK
<1>3. ASSUME NEW op, NEW e, NEW pc, Load(h, op, a, e, pc)
      PROVE  /\ call'[h].pc = pc /\ call'[h].op = op /\ call'[h].id = a
             /\ call'[h].entity = e /\ account' = account
  BY <1>2, <1>3 DEF Load
<1>4. ASSUME NEW op, NEW e, NEW pc, Load(h, op, a, e, pc),
             Derived(h)', pc \in {"countAdmins", "select"},
             pc = "countAdmins" => op = "update",
             op = "update" /\ pc = "select"
               => ~(e.status = "disabled" /\ account[a].status = "active"
                      /\ a \in SuperAdmin)
      PROVE  HandlerInv(h)'
  BY <1>3, <1>4
  DEF HandlerInv, LoadInv, SaveInv, StatusInv, AdminInv, PcInv, Saves
<1>5. ASSUME NEW s \in Status, UpdateFind(h, a, s) PROVE HandlerInv(h)'
  <2>1. PICK e : e = [account[a] EXCEPT !.status = s]
    OBVIOUS
  <2>2. PICK pc : pc = IF s = "disabled" /\ account[a].status = "active"
                          /\ a \in SuperAdmin
                       THEN "countAdmins" ELSE "select"
    OBVIOUS
  <2>3. /\ e.status = s /\ e.password = account[a].password
        /\ e.resetRequired = account[a].resetRequired
    BY <1>2, <2>1 DEF AccountRow
  <2>4. Load(h, "update", a, e, pc)
    BY <1>5, <2>1, <2>2 DEF UpdateFind
  <2>5. Derived(h)'
    BY <1>3, <2>3, <2>4 DEF Derived
  <2> QED
    BY <1>4, <2>2, <2>3, <2>4, <2>5
<1>6. ASSUME NEW p \in Password, ResetFind(h, a, p) PROVE HandlerInv(h)'
  <2>1. PICK e : e = [account[a] EXCEPT !.password = p,
                                        !.resetRequired = (p = TempPassword)]
    OBVIOUS
  <2>2. /\ e.status = account[a].status
        /\ e.resetRequired <=> e.password = TempPassword
    BY <1>2, <2>1 DEF AccountRow
  <2>3. Load(h, "reset", a, e, "select")
    BY <1>6, <2>1 DEF ResetFind
  <2>4. Derived(h)'
    BY <1>3, <2>2, <2>3 DEF Derived
  <2> QED
    BY <1>4, <2>3, <2>4
<1>7. ASSUME NEW p \in Password, LoginFind(h, a, p) PROVE HandlerInv(h)'
  <2>1. Load(h, "login", a, account[a], "select")
    BY <1>7 DEF LoginFind
  <2>2. Derived(h)'
    BY <1>3, <2>1 DEF Derived
  <2> QED
    BY <1>4, <2>1, <2>2
<1>9. ASSUME RenameFind(h, a) PROVE HandlerInv(h)'
  <2>1. Load(h, "rename", a, account[a], "select")
    BY <1>9 DEF RenameFind
  <2>2. Derived(h)'
    BY <1>3, <2>1 DEF Derived
  <2> QED
    BY <1>4, <2>1, <2>2
<1>8. ASSUME NEW p \in Password, NEW new \in Password,
             CompleteFind(h, a, p, new)
      PROVE  HandlerInv(h)'
  <2>1. PICK e : e = [account[a] EXCEPT !.password = new, !.resetRequired = FALSE]
    OBVIOUS
  <2>2. e.status = account[a].status /\ e.password # TempPassword
    BY <1>2, <1>8, <2>1 DEF AccountRow, CompleteFind
  <2>3. Load(h, "complete", a, e, "select")
    BY <1>8, <2>1 DEF CompleteFind
  <2>4. Derived(h)'
    BY <1>3, <2>2, <2>3 DEF Derived
  <2> QED
    BY <1>4, <2>3, <2>4
<1> QED
  BY <1>1, <1>5, <1>6, <1>7, <1>8, <1>9

LEMMA MovesKeeps ==
  ASSUME RaceInv, RecordRaces, NEW h \in AdminCall, call'[h] # call[h],
         \/ AccountStep(h)
         \/ RevokeAccountRefreshTokens(h)
         \/ UpdateCommit(h)
         \/ CallCrash(h)
  PROVE  HandlerInv(h)'
<1>1. /\ call \in [AdminCall -> Call] /\ account \in [Account -> AccountRow]
      /\ call[h].pc # "idle" => call[h].id \in Account
      /\ HandlerInv(h)
  BY DEF RaceInv, AccountIInv, AccountTypeOK, CallHasAccount
<1>2. /\ call'[h].pc # "idle"
      /\ call'[h].pc # "revoke" \/ call'[h].op # "reset"
      => behind'[h] = behind[h]
  <2>1. ~Over(h)' => behind'[h] = behind[h]
    BY DEF RecordRaces
  <2> QED
    BY <2>1 DEF Over
<1>3. ASSUME Return(h) PROVE HandlerInv(h)'
  <2>1. call'[h].pc = "idle"
    BY <1>1, <1>3 DEF Return, NoCall
  <2> QED
    BY <2>1, DoneKeeps
<1>4. ASSUME NEW pc, Goto(h, pc)
      PROVE  /\ call'[h].pc = pc /\ call'[h].op = call[h].op
             /\ call'[h].id = call[h].id /\ call'[h].entity = call[h].entity
             /\ call'[h].columns = call[h].columns
  BY <1>1, <1>4 DEF Goto, Call
<1>5. CASE FindStep(h)
  BY <1>5, FindRaces
<1>6. CASE UpdateCountAdmins(h)
  <2>1. CASE Goto(h, "select") /\ ~(Cardinality(ActiveSuperAdmins) <= 1)
    <3>1. /\ call'[h].pc = "select" /\ call'[h].op = call[h].op
          /\ call'[h].id = call[h].id /\ call'[h].entity = call[h].entity
          /\ account' = account /\ behind'[h] = behind[h]
          /\ call[h].pc = "countAdmins"
      BY <1>2, <1>4, <1>6, <2>1 DEF UpdateCountAdmins
    <3>2. ActiveSuperAdmins # {call[h].id}
      <4>1. Cardinality({call[h].id}) = 1
        BY FS_Singleton
      <4> QED
        BY <2>1, <4>1
    <3>3. ActiveSuperAdmins' = ActiveSuperAdmins
      BY <3>1 DEF ActiveSuperAdmins
    <3>4. LoadInv(h)'
      BY <1>1, <3>1 DEF HandlerInv, LoadInv, Derived
    <3> QED
      BY <3>1, <3>2, <3>3, <3>4
      DEF HandlerInv, SaveInv, StatusInv, AdminInv, PcInv, Saves
  <2> QED
    BY <1>3, <1>6, <2>1 DEF UpdateCountAdmins
<1>7. CASE SaveSelect(h)
  <2>1. PICK C : C = {c \in Column :
                        \/ call[h].entity[c] # account[call[h].id][c]
                        \/ c = "password" /\ call[h].op \in Rehashing}
    OBVIOUS
  <2>2. call' = [call EXCEPT ![h].pc = "write", ![h].columns = C]
    BY <1>7, <2>1 DEF SaveSelect
  <2>3. /\ call'[h].pc = "write" /\ call'[h].op = call[h].op
        /\ call'[h].id = call[h].id /\ call'[h].entity = call[h].entity
        /\ call'[h].columns = C
        /\ account' = account /\ behind'[h] = behind[h]
        /\ call[h].pc = "select"
    BY <1>1, <1>2, <1>7, <2>2 DEF SaveSelect, Call
  <2>4. "load" \notin behind[h] => Derived(h)
    BY <1>1, <2>3 DEF HandlerInv, LoadInv
  <2>5. SaveInv(h)'
    BY <2>1, <2>3, <2>4 DEF SaveInv, Saves, Fresh, Derived, Complete
  <2>6. StatusInv(h)'
    <3>1. call[h].op \in Op
      BY <1>1 DEF Call
    <3> QED
      BY <2>1, <2>3, <2>4, <3>1 DEF StatusInv, Derived, Op
  <2>7. AdminInv(h)'
    BY <1>1, <2>3 DEF HandlerInv, AdminInv, ActiveSuperAdmins
  <2> QED
    BY <2>3, <2>5, <2>6, <2>7 DEF HandlerInv, LoadInv, PcInv
<1>8. CASE SaveWrite(h)
  <2>1. CASE call[h].op = "reset"
    <3>1. Revokes(h)
      BY <1>8, <2>1 DEF SaveWrite
    <3>2. call'[h].pc = "revoke" /\ call'[h].op = "reset"
      BY <1>1, <3>1 DEF Revokes, NoCall
    <3> QED
      BY <3>2, DoneKeeps
  <2>2. CASE call[h].op # "reset"
    BY <1>3, <1>8, <2>2 DEF SaveWrite
  <2> QED
    BY <2>1, <2>2
<1>9. ASSUME NEW pc \in {"revoke", "commit"}, Goto(h, pc), account' = account,
             call[h].op \in Transactional, pc = "revoke" => call[h].op = "update",
             Saves(h)
      PROVE  HandlerInv(h)'
  <2>1. /\ call'[h].pc = pc /\ call'[h].op = call[h].op
        /\ call'[h].id = call[h].id /\ call'[h].entity = call[h].entity
        /\ call'[h].columns = call[h].columns /\ behind'[h] = behind[h]
        /\ ActiveSuperAdmins' = ActiveSuperAdmins
        /\ call[h].pc \notin {"idle", "countAdmins"}
    BY <1>2, <1>4, <1>9 DEF ActiveSuperAdmins, Saves, Transactional
  <2>2. SaveInv(h)'
    BY <1>1, <1>9, <2>1 DEF HandlerInv, SaveInv, Fresh, Derived, Complete
  <2>3. AdminInv(h)'
    BY <1>1, <1>9, <2>1 DEF HandlerInv, AdminInv
  <2>4. StatusInv(h)'
    BY <1>1, <1>9, <2>1 DEF HandlerInv, StatusInv
  <2> QED
    BY <1>9, <2>1, <2>2, <2>3, <2>4 DEF HandlerInv, LoadInv, PcInv
<1>10. CASE UpdateWrite(h)
  <2>1. PICK pc : pc = IF call[h].op = "update"
                            /\ call[h].entity.status = "disabled"
                       THEN "revoke" ELSE "commit"
    OBVIOUS
  <2> QED
    BY <1>9, <1>10, <2>1 DEF UpdateWrite, Saves
<1>11. CASE RevokeAccountRefreshTokens(h)
  BY <1>3, <1>9, <1>11 DEF RevokeAccountRefreshTokens, Saves, Transactional
<1>12. CASE UpdateCommit(h) \/ CallCrash(h)
  BY <1>3, <1>12 DEF UpdateCommit, CallCrash
<1> QED
  BY <1>5, <1>6, <1>7, <1>8, <1>10, <1>11, <1>12 DEF AccountStep

LEMMA RaceInvNext ==
  ASSUME RaceInv, [RaceNext]_raceVars
  PROVE  RaceInv'
<1>1. AccountIInv'
  BY AccountNextKeeps DEF RaceInv, RaceNext, raceVars
<1>2. CASE RaceNext
  <2>1. PICK h \in AdminCall : \/ AccountStep(h)
                               \/ RevokeAccountRefreshTokens(h)
                               \/ UpdateCommit(h)
                               \/ CallCrash(h)
    BY <1>2 DEF RaceNext, AccountNext
  <2>2. \A g \in AdminCall \ {h} : call'[g] = call[g]
    BY <2>1 DEF RaceInv, AccountIInv, AccountTypeOK, AccountStep, FindStep,
                UpdateFind, RenameFind, ResetFind, LoginFind, CompleteFind, Load,
                UpdateCountAdmins, SaveSelect, SaveWrite, UpdateWrite,
                RevokeAccountRefreshTokens, UpdateCommit, CallCrash, Goto, Return,
                Revokes
  <2>3. \A g \in AdminCall : HandlerInv(g)'
    BY <1>2, <2>1, <2>2, MovesKeeps, StandsKeeps DEF RaceNext
  <2> QED
    BY <1>1, <2>3 DEF RaceInv
<1>3. CASE UNCHANGED raceVars
  <2>1. \A g \in AdminCall : HandlerInv(g)'
    BY <1>3 DEF raceVars, accountVars, RaceInv, HandlerInv, LoadInv, SaveInv,
                StatusInv, AdminInv, PcInv, Saves, Fresh, Derived, Complete,
                ActiveSuperAdmins
  <2> QED
    BY <1>1, <2>1 DEF RaceInv
<1> QED
  BY <1>2, <1>3

LEMMA RaceInvHolds == RaceSpec => []RaceInv
<1>1. RaceInit => RaceInv
  BY AccountInitial
  DEF RaceInit, RaceInv, AccountInit, NoCall, HandlerInv, LoadInv, SaveInv,
      StatusInv, AdminInv, PcInv, Saves
<1> QED
  BY <1>1, RaceInvNext, PTL DEF RaceSpec

(* A row changes by the save of a handler that nobody overtook, which      *)
(* writes its entity, or of one that somebody did.                         *)
LEMMA RowChanges ==
  ASSUME RaceInv, [RaceNext]_raceVars, NEW a \in Account,
         account'[a] # account[a]
  PROVE  \E h \in AdminCall :
           /\ Writes(h) /\ call[h].id = a
           /\ account'[a] = Saved(h)
           /\ \A b \in Account \ {a} : account'[b] = account[b]
           /\ Fresh(h) => account'[a] = call[h].entity /\ Derived(h)
<1>1. PICK h \in AdminCall : SaveWrite(h) \/ UpdateCommit(h)
  BY ZenonT(60)
  DEF RaceNext, raceVars, AccountNext, AccountStep, FindStep, UpdateFind, RenameFind,
      ResetFind, LoginFind, CompleteFind, Load, UpdateCountAdmins, SaveSelect, UpdateWrite,
      RevokeAccountRefreshTokens, CallCrash, accountVars
<1>2. /\ call \in [AdminCall -> Call] /\ account \in [Account -> AccountRow]
      /\ HandlerInv(h)
  BY DEF RaceInv, AccountIInv, AccountTypeOK
<1>3. account' = [account EXCEPT ![call[h].id] = Saved(h)]
  BY <1>1 DEF SaveWrite, UpdateCommit
<1>4. call[h].id = a /\ account'[a] = Saved(h)
  BY <1>2, <1>3
<1>5. \A b \in Account \ {a} : account'[b] = account[b]
  BY <1>2, <1>3, <1>4
<1>6. Writes(h)
  <2>1. CASE SaveWrite(h)
    <3>1. call[h].pc = "write" /\ call'[h].pc \in {"revoke", "idle"}
      <4>1. call[h].pc = "write" /\ (Revokes(h) \/ Return(h))
        BY <2>1 DEF SaveWrite
      <4>2. CASE Return(h)
        BY <1>2, <4>1, <4>2 DEF Return, NoCall
      <4>3. CASE Revokes(h)
        BY <1>2, <4>1, <4>3 DEF Revokes, NoCall
      <4> QED
        BY <4>1, <4>2, <4>3
    <3> QED
      BY <3>1 DEF Writes
  <2>2. CASE UpdateCommit(h)
    BY <1>2, <2>2 DEF UpdateCommit, Return, NoCall, Writes, Call
  <2> QED
    BY <1>1, <2>1, <2>2
<1>7. Fresh(h) => account'[a] = call[h].entity /\ Derived(h)
  <2> SUFFICES ASSUME Fresh(h) PROVE account'[a] = call[h].entity /\ Derived(h)
    OBVIOUS
  <2>1. Derived(h) /\ Complete(h)
    BY <1>2, <1>6 DEF HandlerInv, SaveInv, Saves, Writes
  <2>2. call[h].entity \in AccountRow
    BY <1>2 DEF Call
  <2>3. Saved(h) = call[h].entity
    BY <2>1, <2>2 DEF Saved, Complete, Column, AccountRow
  <2> QED
    BY <1>4, <2>1, <2>3
<1> QED
  BY <1>1, <1>2, <1>4, <1>5, <1>6, <1>7

(* The temporary password comes with the demand for a reset, however many  *)
(* handlers write the account, unless one of them was overtaken.           *)
THEOREM TempPasswordForcesResetHolds == RaceSpec => TempPasswordForcesReset
<1> DEFINE Forces == \A a \in Account :
             Exposed(a)' /\ ~Exposed(a)
               => \E h \in AdminCall : /\ Writes(h)
                                       /\ call[h].id = a
                                       /\ behind[h] \cap {"load", "select"} # {}
<1>1. RaceInv /\ [RaceNext]_raceVars => [Forces]_raceVars
  <2> SUFFICES ASSUME RaceInv, [RaceNext]_raceVars, NEW a \in Account,
                      Exposed(a)', ~Exposed(a)
               PROVE  \E h \in AdminCall :
                        /\ Writes(h)
                        /\ call[h].id = a
                        /\ behind[h] \cap {"load", "select"} # {}
    OBVIOUS
  <2>1. account'[a] # account[a]
    BY DEF Exposed
  <2>2. PICK h \in AdminCall :
          /\ Writes(h) /\ call[h].id = a
          /\ Fresh(h) => account'[a] = call[h].entity /\ Derived(h)
    BY <2>1, RowChanges
  <2>3. call[h].op \in Op
    BY DEF RaceInv, AccountIInv, AccountTypeOK, Call
  <2>4. ~Fresh(h)
    BY <2>2, <2>3 DEF Derived, Exposed, Op
  <2> QED
    BY <2>2, <2>4 DEF Fresh
<1> QED
  BY <1>1, RaceInvHolds, PTL DEF RaceSpec, TempPasswordForcesReset

(* The last active super admin is disabled only by a handler that was      *)
(* overtaken, with any number of super admins and of updates.              *)
THEOREM LastSuperAdminStaysAloneHolds == RaceSpec => LastSuperAdminStaysAlone
<1> DEFINE Stays == \A a \in SuperAdmin :
             Disables(a) /\ ActiveSuperAdmins' = {}
               => \E h \in AdminCall : /\ Writes(h)
                                       /\ call[h].id = a
                                       /\ behind[h] # {}
<1>1. RaceInv /\ [RaceNext]_raceVars => [Stays]_raceVars
  <2> SUFFICES ASSUME RaceInv, [RaceNext]_raceVars, NEW a \in SuperAdmin,
                      Disables(a), ActiveSuperAdmins' = {}
               PROVE  \E h \in AdminCall : /\ Writes(h)
                                           /\ call[h].id = a
                                           /\ behind[h] # {}
    OBVIOUS
  <2>1. /\ a \in Account /\ account[a].status = "active"
        /\ account'[a].status = "disabled"
    BY SuperAdminAssumption DEF Disables
  <2>2. PICK h \in AdminCall :
          /\ Writes(h) /\ call[h].id = a
          /\ \A b \in Account \ {a} : account'[b] = account[b]
          /\ Fresh(h) => account'[a] = call[h].entity /\ Derived(h)
    BY <2>1, RowChanges
  <2>3. ASSUME behind[h] = {} PROVE FALSE
    <3>1. account'[a] = call[h].entity /\ Derived(h)
      BY <2>2, <2>3 DEF Fresh
    <3>2. call[h].op \in Op
      BY DEF RaceInv, AccountIInv, AccountTypeOK, Call
    <3>3. call[h].op = "update"
      BY <2>1, <2>2, <3>1, <3>2 DEF Derived, Op
    <3>4. ActiveSuperAdmins # {a}
      BY <2>1, <2>2, <2>3, <3>1, <3>3 DEF RaceInv, HandlerInv, AdminInv, Writes
    <3>5. a \in ActiveSuperAdmins
      BY <2>1 DEF ActiveSuperAdmins
    <3>6. PICK b \in ActiveSuperAdmins : b # a
      BY <3>4, <3>5
    <3>7. b \in Account /\ account'[b] = account[b]
      BY <2>2, <3>6, SuperAdminAssumption DEF ActiveSuperAdmins
    <3> QED
      BY <3>6, <3>7 DEF ActiveSuperAdmins
  <2> QED
    BY <2>2, <2>3
<1> QED
  BY <1>1, RaceInvHolds, PTL DEF RaceSpec, LastSuperAdminStaysAlone

(* A disabled account comes back only by an update, or by a handler that   *)
(* loaded it before it was disabled.                                       *)
THEOREM DisabledUntilUpdatedHolds == RaceSpec => DisabledUntilUpdated
<1> DEFINE Until == \A a \in Account :
             account[a].status = "disabled" /\ account'[a].status # "disabled"
               => \E h \in AdminCall : /\ Writes(h)
                                       /\ call[h].id = a
                                       /\ call[h].op = "update" \/ "load" \in behind[h]
<1>1. RaceInv /\ [RaceNext]_raceVars => [Until]_raceVars
  <2> SUFFICES ASSUME RaceInv, [RaceNext]_raceVars, NEW a \in Account,
                      account[a].status = "disabled",
                      account'[a].status # "disabled"
               PROVE  \E h \in AdminCall : /\ Writes(h)
                                           /\ call[h].id = a
                                           /\ \/ call[h].op = "update"
                                              \/ "load" \in behind[h]
    OBVIOUS
  <2>1. PICK h \in AdminCall :
          /\ Writes(h) /\ call[h].id = a
          /\ account'[a] = Saved(h)
    BY RowChanges
  <2>2. ASSUME call[h].op # "update", "load" \notin behind[h] PROVE FALSE
    <3>1. Saves(h)
      BY <2>1 DEF Writes, Saves
    <3>2. "status" \notin call[h].columns
      BY <2>2, <3>1 DEF RaceInv, HandlerInv, StatusInv
    <3>3. account'[a].status = account[a].status
      BY <2>1, <3>2 DEF Saved
    <3> QED
      BY <3>3
  <2> QED
    BY <2>1, <2>2
<1> QED
  BY <1>1, RaceInvHolds, PTL DEF RaceSpec, DisabledUntilUpdated
=============================================================================
