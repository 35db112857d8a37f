---------------------------- MODULE AccountRaces ----------------------------
(***************************************************************************)
(* What the account handlers keep when they overlap.  A handler's save     *)
(* starts from the row it loaded, so the promises of the documentation     *)
(* hold only of steps whose handler nobody has overtaken.  behind records, *)
(* for each handler, how it was: it is history, no guard reads it.         *)
(***************************************************************************)
EXTENDS Accounts

VARIABLE behind

raceVars == <<accountVars, behind>>

(* load: its row was written between its load and the SELECT of its save;  *)
(* select: between that SELECT and its UPDATE; admins: it is to disable    *)
(* its account, and an active super admin came or went since its load.     *)
Behind == {"load", "select", "admins"}

(* How a step of another handler overtakes g.                              *)
Overtaken(g) ==
  {b \in Behind :
     IF b = "admins"
     THEN /\ call[g].op = "update" /\ call[g].entity.status = "disabled"
          /\ ActiveSuperAdmins' # ActiveSuperAdmins
     ELSE /\ account'[call[g].id] # account[call[g].id]
          /\ (call[g].pc \in {"countAdmins", "select"}) <=> b = "load"}

(* A handler whose last save has been written: nothing overtakes it more.  *)
Over(g) == \/ call[g].pc = "idle"
           \/ call[g].pc = "revoke" /\ call[g].op = "reset"

RecordRaces ==
  behind' = [g \in AdminCall |->
               IF Over(g)' THEN {}
               ELSE IF call'[g] # call[g] THEN behind[g]
               ELSE behind[g] \cup Overtaken(g)]

RaceInit == AccountInit /\ behind = [h \in AdminCall |-> {}]

RaceNext == AccountNext /\ RecordRaces

RaceSpec == RaceInit /\ [][RaceNext]_raceVars

-----------------------------------------------------------------------------
(* Handler h writes its account in this step.                              *)
Writes(h) == /\ call[h].pc \in {"write", "commit"}
             /\ call'[h] # call[h]

(* A password that everybody knows and no reset asked for.                 *)
Exposed(a) == account[a].password = TempPassword /\ ~account[a].resetRequired

(* admin-api.md: the temporary password "forces the user to choose a       *)
(* policy-compliant password on next login".  No handler undoes that       *)
(* unless its row was written after it had loaded it: the password and the *)
(* flag are written by separate column-wise saves.                         *)
TempPasswordForcesReset ==
  [][\A a \in Account :
       Exposed(a)' /\ ~Exposed(a)
         => \E h \in AdminCall : /\ Writes(h)
                                 /\ call[h].id = a
                                 /\ behind[h] \cap {"load", "select"} # {}]_raceVars

(* A handler disables the last active super admin only if it was overtaken *)
(* (accounts.service.spec.ts: update "prevents disabling the last active   *)
(* super admin"), be it by a write to another super admin.                 *)
Disables(a) == account[a].status = "active" /\ account'[a].status = "disabled"

LastSuperAdminStaysAlone ==
  [][\A a \in SuperAdmin :
       Disables(a) /\ ActiveSuperAdmins' = {}
         => \E h \in AdminCall : /\ Writes(h)
                                 /\ call[h].id = a
                                 /\ behind[h] # {}]_raceVars

(* As the test says it, without the exception.  Only disabling is counted, *)
(* so this leaves out the super admins that an update has locked.          *)
LastSuperAdminStays ==
  [][\A a \in SuperAdmin :
       Disables(a) /\ (\A b \in SuperAdmin : account[b].status # "locked")
         => ActiveSuperAdmins' # {}]_raceVars

(* Only an admin's update of the status brings a disabled account back, or *)
(* a rename, login or password operation that loaded it before it was      *)
(* disabled and selects it again after: one that is overtaken later than   *)
(* its SELECT leaves the status alone (accounts.service.ts: "A disabled    *)
(* account must not be able to keep refreshing sessions").                 *)
DisabledUntilUpdated ==
  [][\A a \in Account :
       account[a].status = "disabled" /\ account'[a].status # "disabled"
         => \E h \in AdminCall : /\ Writes(h)
                                 /\ call[h].id = a
                                 /\ call[h].op = "update" \/ "load" \in behind[h]]_raceVars
=============================================================================
