------------------------- MODULE NotificationDevices -------------------------
(***************************************************************************)
(* The devices that receive notifications and the consent given on each:   *)
(* tables notification_devices and notification_subscriptions, and the     *)
(* handlers of NotificationDevicesService and NotificationAdminService     *)
(* that write them.                                                        *)
(*                                                                         *)
(* register, update, remove and the subscription handlers run in           *)
(* transactions at READ COMMITTED.  register takes advisory locks on its   *)
(* device and its push token, but no row lock: it reads, and saves with    *)
(* TypeORM's save (a SELECT, then an UPDATE of the columns that differ).   *)
(* The other transactions lock the device row first.  The admin's handlers *)
(* use neither a transaction nor a lock.                                   *)
(*                                                                         *)
(* Statements are joined where no interleaving could tell: a handler that  *)
(* holds the row lock of its only device from its first statement to its   *)
(* commit (update, remove, disableInvalidToken) is one step; a lock or a   *)
(* read is joined with the next one; what a transaction writes last is     *)
(* written at its commit.  A save's SELECT and UPDATE are never joined.    *)
(*                                                                         *)
(* One service: consent given to another is in other rows.  deletedAt is   *)
(* left out: remove sets it, register clears it, and it hides a device     *)
(* that is disabled anyway.                                                *)
(***************************************************************************)
EXTENDS Naturals

CONSTANTS Device,    \* the pairs (account, installation), unique in the table
          Account,   \* the accounts, each the set of its devices
          PushToken, \* the push tokens (each with its fingerprint)
          Call,      \* the handlers that may run at the same time
          Operations,\* the handlers that run, a bound on the workload
          None       \* a null column or an unset local

ASSUME NoneAssumption == None \notin Device \cup PushToken
ASSUME AccountsAssumption == Account \subseteq SUBSET Device
ASSUME OperationsAssumption ==
  Operations \subseteq {"register", "optIn", "optOut", "adminDisable",
                        "adminRevoke", "disable", "purge"}

VARIABLES device,  \* the committed rows of notification_devices
          consent, \* the committed rows of notification_subscriptions
          call,    \* the local state of each handler
          torn,    \* history: the devices last saved over a row that was
                   \* not the one the save had read
          leaked   \* history: the devices whose consent escaped the
                   \* revocation that goes with disabling them

deviceVars == <<device, consent, call, torn, leaked>>

Row == [status      : {"none", "active", "disabled"},   \* "none": no row
        token       : PushToken \cup {None},            \* encryptedPushToken
        fingerprint : PushToken \cup {None}]

NoRow == [status |-> "none", token |-> None, fingerprint |-> None]

Consent == {"absent", "on", "off"}

(* Where a handler stands: before the next statement that waits or writes. *)
CallState ==
  [pc        : {"idle", "dropPrior", "writePrior", "write", "revoke"},
   op        : {"register", "optIn", "optOut", "adminDisable",
                "adminRevoke"},
   device    : Device \cup {None},
   token     : PushToken \cup {None},
   prior     : Device \cup {None},   \* priorTokenOwner
   seen      : Row,                  \* what the save of the device selected
   priorSeen : Row,                  \* what the save of the prior selected
   locked    : SUBSET Device,        \* row locks of the transaction
   revoked   : SUBSET Device,        \* consent it has revoked, uncommitted
   consents  : [Device -> Consent]]  \* what the save of consent selected

NoConsent == [d \in Device |-> "absent"]

NoCall == [pc |-> "idle", op |-> "register", device |-> None, token |-> None,
           prior |-> None, seen |-> NoRow, priorSeen |-> NoRow, locked |-> {},
           revoked |-> {}, consents |-> NoConsent]

-----------------------------------------------------------------------------
Registered(t) == [status |-> "active", token |-> t, fingerprint |-> t]

(* disableDevice: what it makes of an entity.                              *)
Disabled == [status |-> "disabled", token |-> None, fingerprint |-> None]

Revoked(c) == IF c = "on" THEN "off" ELSE c

Deliverable(d) == device[d].status = "active" /\ device[d].token # None

(* A column of a save: written only if it differs from what was selected.  *)
Picked(new, seen, current) == IF new # seen THEN new ELSE current

(* Mutant of Saved: the token's column is not among those compared.        *)
SavedTokenless(entity, seen, current) ==
  IF seen = NoRow THEN entity
  ELSE [current EXCEPT !.status = Picked(entity.status, seen.status, @),
                       !.fingerprint = Picked(entity.fingerprint,
                                              seen.fingerprint, @)]

(* What a save makes of the current row: an INSERT if it selected none,    *)
(* else an UPDATE of the columns that differ from what it selected.  Each  *)
(* encryption of a token is different, so a token is always updated.       *)
Saved(entity, seen, current) ==
  CASE seen = NoRow -> entity
    [] seen # NoRow /\ current = NoRow -> NoRow
    [] OTHER ->
         [status      |-> Picked(entity.status, seen.status, current.status),
          token       |-> IF entity.token # None THEN entity.token
                          ELSE Picked(None, seen.token, current.token),
          fingerprint |-> Picked(entity.fingerprint, seen.fingerprint,
                                 current.fingerprint)]

RowFree(d) == \A h \in Call : d \notin call[h].locked

ConsentFree(d) == \A h \in Call : d \notin call[h].revoked

(* A save of d leaves it torn unless the row is the one that was selected. *)
Tear(d, seen) == IF device[d] = seen THEN torn \ {d} ELSE torn \cup {d}

Start(h, state) ==
  /\ call[h].pc = "idle"
  /\ state.op \in Operations
  /\ call' = [call EXCEPT ![h] = state]
  /\ UNCHANGED <<device, consent, torn, leaked>>

Return(h) == call' = [call EXCEPT ![h] = NoCall]

Local == UNCHANGED <<device, consent, torn, leaked>>

-----------------------------------------------------------------------------
(* Mutant of Registers: no lock on the token.                              *)
RegistersUnlocked(h, d, t, state) ==
  /\ \A g \in Call : call[g].pc # "idle" /\ call[g].op = "register"
                       => call[g].device # d
  /\ Start(h, state)

(* register: the advisory locks on the installation and on the token ...   *)
Registers(h, d, t, state) ==
  /\ \A g \in Call : call[g].pc # "idle" /\ call[g].op = "register"
                       => call[g].device # d /\ call[g].token # t
  /\ Start(h, state)

(* ... and the search for another device that holds the token: there is    *)
(* none, and the save of the device selects its row,                       *)
FindNoPrior(h, d, t) ==
  /\ \A p \in Device \ {d} : device[p].fingerprint # t
  /\ Registers(h, d, t, [NoCall EXCEPT !.pc = "write", !.device = d,
                                       !.token = t, !.seen = device[d]])

(* or there is one, p, which is to be disabled.                            *)
FindPrior(h, d, t, p) ==
  /\ p # d
  /\ device[p].fingerprint = t
  /\ Registers(h, d, t, [NoCall EXCEPT !.pc = "dropPrior", !.device = d,
                                       !.token = t, !.prior = p])

(* Mutant of DropPrior: the prior owner keeps its consent.                 *)
DropPriorOnly(h) ==
  /\ call[h].pc = "dropPrior"
  /\ ConsentFree(call[h].prior)
  /\ call' = [call EXCEPT ![h].pc = "writePrior", ![h].revoked = {},
                          ![h].priorSeen = device[call[h].prior]]
  /\ Local

(* disableDevice(prior) revokes the consent rows there are, one inserted   *)
(* later is not reached; save(prior) selects its row.                      *)
DropPrior(h) ==
  LET p == call[h].prior IN
  /\ call[h].pc = "dropPrior"
  /\ ConsentFree(p)
  /\ call' = [call EXCEPT
       ![h].pc = "writePrior", ![h].priorSeen = device[p],
       ![h].revoked = IF consent[p] = "absent" THEN {} ELSE {p}]
  /\ Local

(* save(prior) updates its row, save(device) selects the device's.         *)
WritePrior(h) ==
  /\ call[h].pc = "writePrior"
  /\ RowFree(call[h].prior)
  /\ call' = [call EXCEPT ![h].pc = "write", ![h].locked = {call[h].prior},
                          ![h].seen = device[call[h].device]]
  /\ Local

(* The UPDATE of the device and the commit, which publishes the prior's    *)
(* rows as well.                                                           *)
RegisterWrite(h) ==
  LET c == call[h]
      d == c.device
      p == c.prior
  IN
  /\ c.pc = "write"
  /\ c.op = "register"
  /\ RowFree(d)
  /\ device' = [e \in Device |->
       IF e = d THEN Saved(Registered(c.token), c.seen, device[e])
       ELSE IF e = p THEN Saved(Disabled, c.priorSeen, device[e])
       ELSE device[e]]
  /\ torn' = IF p = None THEN Tear(d, c.seen)
             ELSE (Tear(d, c.seen) \ {p})
                    \cup (IF device[p] = c.priorSeen THEN {} ELSE {p})
  /\ consent' = [e \in Device |->
       IF e \in c.revoked THEN Revoked(consent[e]) ELSE consent[e]]
  /\ Return(h)
  /\ UNCHANGED leaked

-----------------------------------------------------------------------------
(* One locked row: disableDevice and its save.                             *)
DisableRow(d) ==
  /\ RowFree(d)
  /\ ConsentFree(d)
  /\ device' = [device EXCEPT ![d] = Disabled]
  /\ consent' = [consent EXCEPT ![d] = Revoked(@)]
  /\ torn' = torn \ {d}
  /\ leaked' = leaked \ {d}
  /\ UNCHANGED call

(* update with active false, and remove.                                   *)
Disable(d) ==
  /\ "disable" \in Operations
  /\ device[d].status # "none"
  /\ DisableRow(d)

HoldsToken(d, t) == device[d].status = "active" /\ device[d].fingerprint = t

(* The delivery worker asks for this when the provider rejects token t.    *)
DisableInvalidToken(d, t) == HoldsToken(d, t) /\ DisableRow(d)

(* setSubscription and setSubscriptionForAllDevices: one deliverable       *)
(* device, or all of an account's, locked for the transaction.             *)
SubscribeLock(h, op, D) ==
  /\ op \in {"optIn", "optOut"}
  /\ D # {}
  /\ \A d \in D : Deliverable(d) /\ RowFree(d)
  /\ Start(h, [NoCall EXCEPT !.pc = "write", !.op = op, !.locked = D,
                 !.consents = [d \in Device |-> IF d \in D THEN consent[d]
                                                ELSE "absent"]])

(* Consent given while a register that found no consent row to revoke has  *)
(* yet to disable the device escapes that revocation.                      *)
Late(h, d) ==
  /\ call[h].op = "optIn"
  /\ \E g \in Call : call[g].prior = d /\ call[g].pc # "dropPrior"
                        /\ d \notin call[g].revoked

SubscribeWrite(h) ==
  LET c == call[h]
      target == IF c.op = "optIn" THEN "on" ELSE "off"
  IN
  /\ c.pc = "write"
  /\ c.op \in {"optIn", "optOut"}
  /\ \A d \in c.locked : ConsentFree(d)
  /\ consent' = [d \in Device |->
       IF d \in c.locked THEN Picked(target, c.consents[d], consent[d])
       ELSE consent[d]]
  /\ leaked' = leaked \cup {d \in c.locked : Late(h, d)}
  /\ Return(h)
  /\ UNCHANGED <<device, torn>>

-----------------------------------------------------------------------------
(* NotificationAdminService.disableDevice: find and the SELECT of save,    *)
(* its UPDATE, the revocation of consent, each on its own.                 *)
AdminSelect(h, d) ==
  /\ device[d].status # "none"
  /\ Start(h, [NoCall EXCEPT !.pc = "write", !.op = "adminDisable",
                             !.device = d, !.seen = device[d]])

AdminWrite(h) ==
  LET c == call[h]
      d == c.device
  IN
  /\ c.pc = "write"
  /\ c.op = "adminDisable"
  /\ RowFree(d)
  /\ device' = [device EXCEPT ![d] = Saved(Disabled, c.seen, @)]
  /\ torn' = Tear(d, c.seen)
  /\ call' = [call EXCEPT ![h].pc = "revoke"]
  /\ UNCHANGED <<consent, leaked>>

AdminRevoke(h) ==
  LET d == call[h].device IN
  /\ call[h].pc = "revoke"
  /\ ConsentFree(d)
  /\ consent' = [consent EXCEPT ![d] = Revoked(@)]
  /\ leaked' = leaked \ {d}
  /\ Return(h)
  /\ UNCHANGED <<device, torn>>

(* revokeSubscription: find and save of a consent row.                     *)
RevokeSelect(h, d) ==
  /\ consent[d] # "absent"
  /\ Start(h, [NoCall EXCEPT !.pc = "write", !.op = "adminRevoke",
                             !.device = d, !.consents[d] = consent[d]])

RevokeWrite(h) ==
  LET d == call[h].device IN
  /\ call[h].pc = "write"
  /\ call[h].op = "adminRevoke"
  /\ ConsentFree(d)
  /\ consent' = [consent EXCEPT ![d] =
       IF @ = "absent" THEN @ ELSE Picked("off", call[h].consents[d], @)]
  /\ Return(h)
  /\ UNCHANGED <<device, torn, leaked>>

(* NotificationRetentionService.purge: devices disabled long ago, so no    *)
(* handler has met them as a prior owner or is administering them.         *)
Purge(d) ==
  /\ "purge" \in Operations
  /\ device[d].status = "disabled"
  /\ RowFree(d)
  /\ \A h \in Call : call[h].prior # d
       /\ (call[h].device = d => call[h].op = "register")
  /\ device' = [device EXCEPT ![d] = NoRow]
  /\ consent' = [consent EXCEPT ![d] = "absent"]
  /\ torn' = torn \ {d}
  /\ leaked' = leaked \ {d}
  /\ UNCHANGED call

(* A deadlock PostgreSQL breaks, a lost connection, or the process dies:   *)
(* an open transaction is rolled back, an admin's writes stay.             *)
CallFails(h) ==
  /\ call[h].pc # "idle"
  /\ leaked' = IF call[h].pc = "revoke" THEN leaked \cup {call[h].device}
               ELSE leaked
  /\ Return(h)
  /\ UNCHANGED <<device, consent, torn>>

-----------------------------------------------------------------------------
DeviceInit ==
  /\ device = [d \in Device |-> NoRow]
  /\ consent = [d \in Device |-> "absent"]
  /\ call = [h \in Call |-> NoCall]
  /\ torn = {}
  /\ leaked = {}

RegisterStep(h) ==
  \/ \E d \in Device, t \in PushToken :
       \/ FindNoPrior(h, d, t)
       \/ \E p \in Device : FindPrior(h, d, t, p)
  \/ DropPrior(h) \/ WritePrior(h) \/ RegisterWrite(h)

SubscribeStep(h) ==
  \/ \E op \in {"optIn", "optOut"} :
       \/ \E d \in Device : SubscribeLock(h, op, {d})
       \/ \E a \in Account : SubscribeLock(h, op, {d \in a : Deliverable(d)})
  \/ SubscribeWrite(h)

AdminStep(h) ==
  \/ \E d \in Device : AdminSelect(h, d) \/ RevokeSelect(h, d)
  \/ AdminWrite(h) \/ AdminRevoke(h) \/ RevokeWrite(h)

CallStep(h) ==
  RegisterStep(h) \/ SubscribeStep(h) \/ AdminStep(h) \/ CallFails(h)

DeviceStep(d) ==
  \/ Disable(d) \/ Purge(d)
  \/ \E t \in PushToken : DisableInvalidToken(d, t)

DeviceNext ==
  \/ \E h \in Call : CallStep(h)
  \/ \E d \in Device : DeviceStep(d)

DeviceSpec == DeviceInit /\ [][DeviceNext]_deviceVars

-----------------------------------------------------------------------------
(* Type invariant.                                                         *)
DeviceTypeOK ==
  /\ device \in [Device -> Row]
  /\ consent \in [Device -> Consent]
  /\ call \in [Call -> CallState]
  /\ torn \subseteq Device
  /\ leaked \subseteq Device

(* The unique index on token_fingerprint never rejects a registration: the *)
(* advisory locks and the disabling of the prior owner leave one device    *)
(* per fingerprint, however registrations and rejections interleave.       *)
FingerprintUnique ==
  \A d, e \in Device :
    device[d].fingerprint # None /\ device[d].fingerprint = device[e].fingerprint
      => d = e

(* A device is active with a token and its fingerprint, or disabled with   *)
(* neither, unless a save wrote over a row it had not read.                *)
WholeRows ==
  \A d \in Device \ torn :
    /\ device[d].fingerprint = device[d].token
    /\ device[d].status = "active" <=> device[d].token # None

(* Consent ends when its device is disabled, so that registering the       *)
(* device anew needs consent anew.  Two exceptions: consent first given    *)
(* while the token moved to another device, and an admin's handler between *)
(* its two writes.                                                         *)
ConsentEndsWithDevice ==
  \A d \in Device : consent[d] = "on" =>
    \/ device[d].status = "active"
    \/ d \in leaked
    \/ \E h \in Call : call[h].pc = "revoke" /\ call[h].device = d
=============================================================================
