--------------------- MODULE NotificationDelivery_proofs ---------------------
(***************************************************************************)
(* Proofs about modules NotificationDevices and NotificationDelivery.      *)
(* First the devices: where a push token may be, and who is subscribed to  *)
(* what.  Then the workers: what a claim on a delivery means, that the     *)
(* attempts recorded for it never have a gap, that what FCM refuses is the *)
(* token it refused, and that the status of a notification follows its     *)
(* deliveries.                                                             *)
(***************************************************************************)
EXTENDS NotificationDelivery, TLAPS

Registering(h) == call[h].pc # "idle" /\ call[h].op = "register"

(* The prior owner's consent has been dealt with, its row not yet written. *)
Dropped(h) == call[h].prior # None /\ call[h].pc # "dropPrior"

(* What a handler carries.                                                 *)
CallsWhole ==
  \A h \in Call :
    /\ call[h].pc # "idle" /\ call[h].op \in {"register", "adminDisable",
                                              "adminRevoke"}
         => call[h].device \in Device
    /\ Registering(h) => call[h].token \in PushToken
    /\ call[h].prior # None
         => Registering(h) /\ call[h].prior # call[h].device
    /\ call[h].pc \in {"dropPrior", "writePrior"}
         => call[h].prior # None
    /\ call[h].pc = "revoke" => call[h].op = "adminDisable"

(* The advisory locks: one registration per device and per token.          *)
Exclusive ==
  \A g, h \in Call :
    Registering(g) /\ Registering(h) /\ g # h
      => call[g].device # call[h].device /\ call[g].token # call[h].token

(* A row has one lock holder; a prior owner about to be written is locked. *)
LocksExclusive ==
  /\ \A g, h \in Call : g # h => call[g].locked \cap call[h].locked = {}
  /\ \A h \in Call : call[h].prior # None /\ call[h].pc = "write"
                       => call[h].prior \in call[h].locked

CallInv == DeviceTypeOK /\ CallsWhole /\ Exclusive /\ LocksExclusive

-----------------------------------------------------------------------------
LEMMA NoCallType ==
  /\ NoCall \in CallState
  /\ NoRow \in Row
  /\ NoConsent \in [Device -> Consent]
BY DEF NoCall, CallState, NoRow, Row, NoConsent, Consent

LEMMA DisabledType == Disabled \in Row
BY DEF Disabled, Row

(* What a save leaves, column by column.                                   *)
LEMMA SavedType ==
  ASSUME NEW entity \in Row, NEW seen \in Row, NEW current \in Row
  PROVE  /\ Saved(entity, seen, current) \in Row
         /\ Saved(entity, seen, current).status
              \in {entity.status, current.status, "none"}
         /\ Saved(entity, seen, current).fingerprint
              \in {entity.fingerprint, current.fingerprint, None}
BY DEF Saved, Picked, Row, NoRow

LEMMA CallFields ==
  ASSUME DeviceTypeOK, NEW h \in Call
  PROVE  /\ call[h] \in CallState
         /\ call[h].device \in Device \cup {None}
         /\ call[h].token \in PushToken \cup {None}
         /\ call[h].prior \in Device \cup {None}
         /\ call[h].seen \in Row
         /\ call[h].priorSeen \in Row
         /\ call[h].locked \in SUBSET Device
         /\ call[h].revoked \in SUBSET Device
         /\ call[h].consents \in [Device -> Consent]
BY DEF DeviceTypeOK, CallState

-----------------------------------------------------------------------------
(* The states s that handler h may take on.                                *)
Fits(h, s) ==
  /\ s \in CallState
  /\ s.pc # "idle" /\ s.op \in {"register", "adminDisable", "adminRevoke"}
       => s.device \in Device
  /\ s.pc # "idle" /\ s.op = "register" => s.token \in PushToken
  /\ s.prior # None
       => s.pc # "idle" /\ s.op = "register" /\ s.prior # s.device
  /\ s.pc \in {"dropPrior", "writePrior"} => s.prior # None
  /\ s.pc = "revoke" => s.op = "adminDisable"
  /\ s.pc # "idle" /\ s.op = "register" =>
       \A g \in Call \ {h} : Registering(g) =>
         call[g].device # s.device /\ call[g].token # s.token
  /\ \A g \in Call \ {h} : call[g].locked \cap s.locked = {}
  /\ s.prior # None /\ s.pc = "write" => s.prior \in s.locked

LEMMA FittingKeeps ==
  ASSUME CallInv, NEW h \in Call, NEW s, Fits(h, s),
         call' = [call EXCEPT ![h] = s],
         device' \in [Device -> Row], consent' \in [Device -> Consent],
         torn' \subseteq Device, leaked' \subseteq Device
  PROVE  CallInv'
<1>1. /\ call'[h] = s
      /\ \A g \in Call : g # h => call'[g] = call[g]
  BY DEF CallInv, DeviceTypeOK
<1>2. DeviceTypeOK'
  BY DEF CallInv, DeviceTypeOK, Fits
<1>3. CallsWhole'
  BY <1>1 DEF CallInv, CallsWhole, Registering, Fits
<1>4. Exclusive'
  BY <1>1 DEF CallInv, Exclusive, Registering, Fits
<1>5. LocksExclusive'
  BY <1>1 DEF CallInv, LocksExclusive, Fits
<1> QED
  BY <1>2, <1>3, <1>4, <1>5 DEF CallInv

(* Ending a handler always fits.                                           *)
LEMMA ReturnKeeps ==
  ASSUME CallInv, NEW h \in Call, Return(h),
         device' \in [Device -> Row], consent' \in [Device -> Consent],
         torn' \subseteq Device, leaked' \subseteq Device
  PROVE  CallInv'
<1>1. Fits(h, NoCall)
  BY NoCallType DEF Fits, NoCall
<1> QED
  BY <1>1, FittingKeeps DEF Return

(* Steps that leave handlers alone.                                        *)
LEMMA RowsKeep ==
  ASSUME CallInv, UNCHANGED call,
         device' \in [Device -> Row], consent' \in [Device -> Consent],
         torn' \subseteq Device, leaked' \subseteq Device
  PROVE  CallInv'
BY DEF CallInv, DeviceTypeOK, CallsWhole, Exclusive, LocksExclusive,
       Registering

LEMMA LocalTypes ==
  ASSUME CallInv, Local
  PROVE  /\ device' \in [Device -> Row] /\ consent' \in [Device -> Consent]
         /\ torn' \subseteq Device /\ leaked' \subseteq Device
BY DEF CallInv, DeviceTypeOK, Local

LEMMA StartKeeps ==
  ASSUME CallInv, NEW h \in Call, NEW s, Fits(h, s), Start(h, s)
  PROVE  CallInv'
BY LocalTypes, FittingKeeps DEF Start, Local

-----------------------------------------------------------------------------
LEMMA RegistersKeeps ==
  ASSUME CallInv, NEW h \in Call, NEW d \in Device, NEW t \in PushToken,
         NEW p \in Device \cup {None}, p # d,
         NEW s \in CallState, s.pc # "idle", s.op = "register", s.device = d,
         s.token = t, s.prior = p, s.locked = {},
         p = None => s.pc = "write", p # None => s.pc = "dropPrior",
         Registers(h, d, t, s)
  PROVE  CallInv'
<1>1. Fits(h, s)
  BY DEF Registers, Fits, Registering
<1> QED
  BY <1>1, StartKeeps DEF Registers

LEMMA FindKeeps ==
  ASSUME CallInv, NEW h \in Call, NEW d \in Device, NEW t \in PushToken,
         FindNoPrior(h, d, t) \/ \E p \in Device : FindPrior(h, d, t, p)
  PROVE  CallInv'
<1>0. device[d] \in Row
  BY DEF CallInv, DeviceTypeOK
<1>1. CASE FindNoPrior(h, d, t)
  <2>1. PICK s : s = [NoCall EXCEPT !.pc = "write", !.device = d, !.token = t,
                                    !.seen = device[d]]
    OBVIOUS
  <2>2. /\ s \in CallState
        /\ s.pc = "write" /\ s.op = "register" /\ s.device = d /\ s.token = t
        /\ s.prior = None /\ s.locked = {}
    BY <1>0, <2>1, NoCallType DEF NoCall, CallState
  <2>3. Registers(h, d, t, s)
    BY <1>1, <2>1 DEF FindNoPrior
  <2>4. None # d
    BY NoneAssumption
  <2> QED
    BY <2>2, <2>3, <2>4, RegistersKeeps
<1>2. ASSUME NEW p \in Device, FindPrior(h, d, t, p) PROVE CallInv'
  <2>1. PICK s : s = [NoCall EXCEPT !.pc = "dropPrior", !.device = d,
                                    !.token = t, !.prior = p]
    OBVIOUS
  <2>2. /\ s \in CallState
        /\ s.pc = "dropPrior" /\ s.op = "register" /\ s.device = d
        /\ s.token = t /\ s.prior = p /\ s.locked = {}
    BY <2>1, NoCallType DEF NoCall, CallState
  <2>3. Registers(h, d, t, s) /\ p # d
    BY <1>2, <2>1 DEF FindPrior
  <2>4. p # None
    BY NoneAssumption
  <2> QED
    BY <2>2, <2>3, <2>4, RegistersKeeps
<1> QED
  BY <1>1, <1>2

LEMMA DropPriorKeeps ==
  ASSUME CallInv, NEW h \in Call, DropPrior(h)
  PROVE  CallInv'
<1>1. call[h].pc = "dropPrior" /\ call[h].prior \in Device
  BY CallFields DEF DropPrior, CallInv, CallsWhole
<1>2. device[call[h].prior] \in Row
  BY <1>1 DEF CallInv, DeviceTypeOK
<1>3. PICK s : s = [call[h] EXCEPT
         !.pc = "writePrior", !.priorSeen = device[call[h].prior],
         !.revoked = IF consent[call[h].prior] = "absent" THEN {}
                     ELSE {call[h].prior}]
  OBVIOUS
<1>4. /\ s \in CallState
      /\ s.pc = "writePrior" /\ s.op = call[h].op
      /\ s.device = call[h].device /\ s.token = call[h].token
      /\ s.prior = call[h].prior /\ s.locked = call[h].locked
  BY <1>1, <1>2, <1>3, CallFields, ZenonT(60) DEF CallState, CallInv
<1>5. Fits(h, s)
  BY <1>1, <1>4 DEF Fits, CallInv, CallsWhole, Exclusive, LocksExclusive,
                    Registering
<1>6. call' = [call EXCEPT ![h] = s] /\ Local
  BY <1>3 DEF DropPrior, CallInv, DeviceTypeOK
<1> QED
  BY <1>5, <1>6, LocalTypes, FittingKeeps

LEMMA WritePriorKeeps ==
  ASSUME CallInv, NEW h \in Call, WritePrior(h)
  PROVE  CallInv'
<1>1. /\ call[h].pc = "writePrior" /\ call[h].prior \in Device
      /\ Registering(h) /\ call[h].device \in Device
  BY CallFields DEF WritePrior, CallInv, CallsWhole, Registering
<1>2. device[call[h].device] \in Row
  BY <1>1 DEF CallInv, DeviceTypeOK
<1>3. PICK s : s = [call[h] EXCEPT
         !.pc = "write", !.locked = {call[h].prior},
         !.seen = device[call[h].device]]
  OBVIOUS
<1>4. /\ s \in CallState
      /\ s.pc = "write" /\ s.op = call[h].op
      /\ s.device = call[h].device /\ s.token = call[h].token
      /\ s.prior = call[h].prior /\ s.locked = {call[h].prior}
  BY <1>1, <1>2, <1>3, CallFields, ZenonT(60) DEF CallState, CallInv
<1>5. \A g \in Call : call[h].prior \notin call[g].locked
  BY DEF WritePrior, RowFree
<1>6. Fits(h, s)
  BY <1>1, <1>4, <1>5 DEF Fits, CallInv, CallsWhole, Exclusive,
                          LocksExclusive, Registering
<1>7. call' = [call EXCEPT ![h] = s] /\ Local
  BY <1>3 DEF WritePrior, CallInv, DeviceTypeOK
<1> QED
  BY <1>6, <1>7, LocalTypes, FittingKeeps

(* The rows that a registration's commit leaves.                           *)
LEMMA RegisterWriteRows ==
  ASSUME CallInv, NEW h \in Call, RegisterWrite(h)
  PROVE  /\ call[h].pc = "write" /\ Registering(h)
         /\ call[h].device \in Device /\ call[h].token \in PushToken
         /\ Registered(call[h].token) \in Row
         /\ RowFree(call[h].device)
         /\ Return(h)
         /\ device' \in [Device -> Row]
         /\ device'[call[h].device] =
              Saved(Registered(call[h].token), call[h].seen,
                    device[call[h].device])
         /\ call[h].prior # None =>
              /\ call[h].prior \in Device /\ call[h].prior # call[h].device
              /\ device'[call[h].prior] =
                   Saved(Disabled, call[h].priorSeen, device[call[h].prior])
         /\ \A e \in Device : e # call[h].device /\ e # call[h].prior
              => device'[e] = device[e]
         /\ consent' \in [Device -> Consent]
         /\ \A e \in Device : consent'[e] =
              IF e \in call[h].revoked THEN Revoked(consent[e]) ELSE consent[e]
         /\ torn' \subseteq Device /\ leaked' = leaked
<1>1. PICK c \in CallState : c = call[h]
  BY CallFields DEF CallInv
<1>2. /\ c.pc = "write" /\ c.op = "register" /\ RowFree(c.device)
      /\ Return(h) /\ leaked' = leaked
      /\ device' = [e \in Device |->
           IF e = c.device THEN Saved(Registered(c.token), c.seen, device[e])
           ELSE IF e = c.prior THEN Saved(Disabled, c.priorSeen, device[e])
           ELSE device[e]]
      /\ consent' = [e \in Device |->
           IF e \in c.revoked THEN Revoked(consent[e]) ELSE consent[e]]
      /\ torn' = IF c.prior = None THEN Tear(c.device, c.seen)
                 ELSE (Tear(c.device, c.seen) \ {c.prior})
                        \cup (IF device[c.prior] = c.priorSeen THEN {}
                              ELSE {c.prior})
  BY <1>1 DEF RegisterWrite
<1>3. /\ c.device \in Device /\ c.token \in PushToken
      /\ c.prior # None => c.prior \in Device /\ c.prior # c.device
      /\ c.seen \in Row /\ c.priorSeen \in Row
  BY <1>1, <1>2, CallFields DEF CallInv, CallsWhole, Registering
<1>4. Registered(c.token) \in Row
  BY <1>3 DEF Registered, Row
<1>5. \A e \in Device :
        /\ device[e] \in Row
        /\ Saved(Registered(c.token), c.seen, device[e]) \in Row
        /\ Saved(Disabled, c.priorSeen, device[e]) \in Row
  BY <1>3, <1>4, DisabledType, SavedType DEF CallInv, DeviceTypeOK
<1>6. device' \in [Device -> Row]
  BY <1>2, <1>5
<1>7. consent' \in [Device -> Consent]
  BY <1>2 DEF CallInv, DeviceTypeOK, Consent, Revoked
<1>8. torn' \subseteq Device
  BY <1>2, <1>3 DEF Tear, CallInv, DeviceTypeOK
<1>9. device'[c.device] = Saved(Registered(c.token), c.seen, device[c.device])
  BY <1>2, <1>3
<1>10. c.prior # None => device'[c.prior] = Saved(Disabled, c.priorSeen,
                                                 device[c.prior])
  BY <1>2, <1>3
<1>11. \A e \in Device : e # c.device /\ e # c.prior => device'[e] = device[e]
  BY <1>2
<1>12. \A e \in Device : consent'[e] =
         IF e \in c.revoked THEN Revoked(consent[e]) ELSE consent[e]
  BY <1>2
<1>13. Registering(h)
  BY <1>1, <1>2 DEF Registering
<1> QED
  BY <1>1, <1>2, <1>3, <1>4, <1>6, <1>7, <1>8, <1>9, <1>10, <1>11, <1>12,
     <1>13

(* The rows that disabling one locked device leaves.                       *)
LEMMA DisableRows ==
  ASSUME CallInv, NEW d \in Device, DisableRow(d)
  PROVE  CallInv'
<1>1. device' \in [Device -> Row] /\ consent' \in [Device -> Consent]
  BY DisabledType DEF DisableRow, CallInv, DeviceTypeOK, Consent, Revoked
<1>2. torn' \subseteq Device /\ leaked' \subseteq Device /\ UNCHANGED call
  BY DEF DisableRow, CallInv, DeviceTypeOK
<1> QED
  BY <1>1, <1>2, RowsKeep

LEMMA SubscribeLockKeeps ==
  ASSUME CallInv, NEW h \in Call, NEW op, NEW D \in SUBSET Device,
         SubscribeLock(h, op, D)
  PROVE  CallInv'
<1>1. PICK s : s = [NoCall EXCEPT
         !.pc = "write", !.op = op, !.locked = D,
         !.consents = [d \in Device |-> IF d \in D THEN consent[d]
                                        ELSE "absent"]]
  OBVIOUS
<1>2. op \in {"optIn", "optOut"} /\ (\A d \in D : RowFree(d)) /\ Start(h, s)
  BY <1>1 DEF SubscribeLock
<1>3. [d \in Device |-> IF d \in D THEN consent[d] ELSE "absent"]
        \in [Device -> Consent]
  BY DEF CallInv, DeviceTypeOK, Consent
<1>4. /\ s \in CallState
      /\ s.pc = "write" /\ s.op = op /\ s.prior = None /\ s.locked = D
  BY <1>1, <1>2, <1>3, NoCallType DEF NoCall, CallState
<1>5. Fits(h, s)
  BY <1>2, <1>4 DEF Fits, RowFree
<1> QED
  BY <1>2, <1>5, StartKeeps

LEMMA SubscribeWriteKeeps ==
  ASSUME CallInv, NEW h \in Call, SubscribeWrite(h)
  PROVE  CallInv'
<1>1. PICK target : target = IF call[h].op = "optIn" THEN "on" ELSE "off"
  OBVIOUS
<1>2. /\ consent' = [d \in Device |->
           IF d \in call[h].locked
           THEN Picked(target, call[h].consents[d], consent[d])
           ELSE consent[d]]
      /\ leaked' = leaked \cup {d \in call[h].locked : Late(h, d)}
      /\ Return(h) /\ UNCHANGED <<device, torn>>
  BY <1>1 DEF SubscribeWrite
<1>3. consent' \in [Device -> Consent]
  BY <1>1, <1>2 DEF CallInv, DeviceTypeOK, Consent, Picked
<1>4. leaked' \subseteq Device
  BY <1>2, CallFields DEF CallInv, DeviceTypeOK
<1>5. device' \in [Device -> Row] /\ torn' \subseteq Device
  BY <1>2 DEF CallInv, DeviceTypeOK
<1> QED
  BY <1>2, <1>3, <1>4, <1>5, ReturnKeeps

LEMMA AdminSelectKeeps ==
  ASSUME CallInv, NEW h \in Call, NEW d \in Device,
         AdminSelect(h, d) \/ RevokeSelect(h, d)
  PROVE  CallInv'
<1>1. CASE AdminSelect(h, d)
  <2>1. PICK s : s = [NoCall EXCEPT !.pc = "write", !.op = "adminDisable",
                                    !.device = d, !.seen = device[d]]
    OBVIOUS
  <2>2. device[d] \in Row
    BY DEF CallInv, DeviceTypeOK
  <2>3. /\ s \in CallState /\ s.pc = "write" /\ s.op = "adminDisable"
        /\ s.device = d /\ s.prior = None /\ s.locked = {}
    BY <2>1, <2>2, NoCallType DEF NoCall, CallState
  <2>4. Fits(h, s)
    BY <2>3 DEF Fits
  <2> QED
    BY <1>1, <2>1, <2>4, StartKeeps DEF AdminSelect
<1>2. CASE RevokeSelect(h, d)
  <2>1. PICK s : s = [NoCall EXCEPT !.pc = "write", !.op = "adminRevoke",
                                    !.device = d, !.consents[d] = consent[d]]
    OBVIOUS
  <2>2. [NoConsent EXCEPT ![d] = consent[d]] \in [Device -> Consent]
    BY NoCallType DEF CallInv, DeviceTypeOK
  <2>3. /\ s \in CallState /\ s.pc = "write" /\ s.op = "adminRevoke"
        /\ s.device = d /\ s.prior = None /\ s.locked = {}
    BY <2>1, <2>2, NoCallType DEF NoCall, CallState
  <2>4. Fits(h, s)
    BY <2>3 DEF Fits
  <2> QED
    BY <1>2, <2>1, <2>4, StartKeeps DEF RevokeSelect
<1> QED
  BY <1>1, <1>2

(* The row that an administrator's save leaves.                            *)
LEMMA AdminWriteRows ==
  ASSUME CallInv, NEW h \in Call, AdminWrite(h)
  PROVE  /\ call[h].pc = "write" /\ call[h].op = "adminDisable"
         /\ call[h].device \in Device
         /\ RowFree(call[h].device)
         /\ call' = [call EXCEPT ![h].pc = "revoke"]
         /\ device' \in [Device -> Row]
         /\ device'[call[h].device] =
              Saved(Disabled, call[h].seen, device[call[h].device])
         /\ \A e \in Device : e # call[h].device => device'[e] = device[e]
         /\ torn' = Tear(call[h].device, call[h].seen)
         /\ torn' \subseteq Device
         /\ UNCHANGED <<consent, leaked>>
<1>1. call[h].pc = "write" /\ call[h].op = "adminDisable"
  BY DEF AdminWrite
<1>2. call[h].device \in Device /\ call[h].seen \in Row
  BY <1>1, CallFields DEF CallInv, CallsWhole
<1>3. PICK r : r = Saved(Disabled, call[h].seen, device[call[h].device])
  OBVIOUS
<1>4. r \in Row
  BY <1>2, <1>3, DisabledType, SavedType DEF CallInv, DeviceTypeOK
<1>5. device' = [device EXCEPT ![call[h].device] = r]
  BY <1>3 DEF AdminWrite
<1>6. /\ device' \in [Device -> Row]
      /\ device'[call[h].device] = r
      /\ \A e \in Device : e # call[h].device => device'[e] = device[e]
  BY <1>2, <1>4, <1>5 DEF CallInv, DeviceTypeOK
<1>7. torn' = Tear(call[h].device, call[h].seen) /\ torn' \subseteq Device
  BY <1>2 DEF AdminWrite, Tear, CallInv, DeviceTypeOK
<1>8. /\ RowFree(call[h].device)
      /\ call' = [call EXCEPT ![h].pc = "revoke"]
      /\ UNCHANGED <<consent, leaked>>
  BY DEF AdminWrite
<1> QED
  BY <1>1, <1>2, <1>3, <1>6, <1>7, <1>8

LEMMA AdminWriteKeeps ==
  ASSUME CallInv, NEW h \in Call, AdminWrite(h)
  PROVE  CallInv'
<1>1. PICK s : s = [call[h] EXCEPT !.pc = "revoke"]
  OBVIOUS
<1>2. /\ s \in CallState /\ s.pc = "revoke" /\ s.op = call[h].op
      /\ s.device = call[h].device /\ s.prior = call[h].prior
      /\ s.locked = call[h].locked
  BY <1>1, CallFields DEF CallState, CallInv
<1>3. Fits(h, s)
  BY <1>2, AdminWriteRows
     DEF Fits, CallInv, CallsWhole, LocksExclusive, Registering
<1>4. call' = [call EXCEPT ![h] = s]
  BY <1>1, AdminWriteRows DEF CallInv, DeviceTypeOK
<1>5. consent' \in [Device -> Consent] /\ leaked' \subseteq Device
  BY AdminWriteRows DEF CallInv, DeviceTypeOK
<1> QED
  BY <1>3, <1>4, <1>5, AdminWriteRows, FittingKeeps

(* The steps that write consent rows only.                                 *)
LEMMA ConsentWriteKeeps ==
  ASSUME CallInv, NEW h \in Call, AdminRevoke(h) \/ RevokeWrite(h)
  PROVE  CallInv'
<1>1. CASE AdminRevoke(h)
  BY <1>1, ReturnKeeps
     DEF AdminRevoke, CallInv, DeviceTypeOK, Consent, Revoked
<1>2. CASE RevokeWrite(h)
  BY <1>2, ReturnKeeps
     DEF RevokeWrite, CallInv, DeviceTypeOK, Consent, Picked
<1> QED
  BY <1>1, <1>2

LEMMA PurgeKeeps ==
  ASSUME CallInv, NEW d \in Device, Purge(d)
  PROVE  CallInv'
BY NoCallType, RowsKeep DEF Purge, CallInv, DeviceTypeOK, Consent

LEMMA CallFailsKeeps ==
  ASSUME CallInv, NEW h \in Call, CallFails(h)
  PROVE  CallInv'
<1>1. call[h].pc = "revoke" => call[h].device \in Device
  BY DEF CallInv, CallsWhole
<1>2. leaked' \subseteq Device
  BY <1>1 DEF CallFails, CallInv, DeviceTypeOK
<1> QED
  BY <1>2, ReturnKeeps DEF CallFails, CallInv, DeviceTypeOK

-----------------------------------------------------------------------------
LEMMA CallInitial == DeviceInit => CallInv
<1> SUFFICES ASSUME DeviceInit PROVE CallInv
  OBVIOUS
<1>1. DeviceTypeOK
  BY NoCallType DEF DeviceInit, DeviceTypeOK, Consent
<1>2. CallsWhole /\ Exclusive /\ LocksExclusive
  BY DEF DeviceInit, CallsWhole, Exclusive, LocksExclusive, Registering, NoCall
<1> QED
  BY <1>1, <1>2 DEF CallInv

LEMMA CallNextKeeps ==
  ASSUME CallInv, [DeviceNext]_deviceVars
  PROVE  CallInv'
<1>1. ASSUME NEW h \in Call, RegisterStep(h) PROVE CallInv'
  BY <1>1, FindKeeps, DropPriorKeeps, WritePriorKeeps, RegisterWriteRows,
     ReturnKeeps DEF RegisterStep, CallInv, DeviceTypeOK
<1>2. ASSUME NEW h \in Call, SubscribeStep(h) PROVE CallInv'
  <2>1. ASSUME NEW op, NEW a \in Account,
               SubscribeLock(h, op, {d \in a : Deliverable(d)})
        PROVE  CallInv'
    <3>1. PICK D \in SUBSET Device : D = {d \in a : Deliverable(d)}
      BY AccountsAssumption
    <3> QED
      BY <2>1, <3>1, SubscribeLockKeeps
  <2> QED
    BY <1>2, <2>1, SubscribeLockKeeps, SubscribeWriteKeeps DEF SubscribeStep
<1>3. ASSUME NEW h \in Call, AdminStep(h) PROVE CallInv'
  BY <1>3, AdminSelectKeeps, AdminWriteKeeps, ConsentWriteKeeps DEF AdminStep
<1>4. ASSUME NEW h \in Call, CallFails(h) PROVE CallInv'
  BY <1>4, CallFailsKeeps
<1>5. ASSUME NEW d \in Device, DeviceStep(d) PROVE CallInv'
  BY <1>5, DisableRows, PurgeKeeps DEF DeviceStep, Disable, DisableInvalidToken
<1>6. CASE UNCHANGED deviceVars
  BY <1>6, RowsKeep DEF deviceVars, CallInv, DeviceTypeOK
<1> QED
  BY <1>1, <1>2, <1>3, <1>4, <1>5, <1>6 DEF DeviceNext, CallStep

(* Rows and handlers keep their types: no save writes a row that is        *)
(* neither the entity's, the table's nor a merge of the two.               *)
THEOREM DeviceTypeCorrect == DeviceSpec => []DeviceTypeOK
<1>1. CallInv => DeviceTypeOK
  BY DEF CallInv
<1> QED
  BY <1>1, CallInitial, CallNextKeeps, PTL DEF DeviceSpec

-----------------------------------------------------------------------------
(* As long as a token is being registered, no device but the one and its   *)
(* prior owner holds it, and the save of the prior will take it away.      *)
OnlyPriorHolds ==
  \A h \in Call : Registering(h) =>
    \A e \in Device : device[e].fingerprint = call[h].token =>
      \/ e = call[h].device
      \/ /\ e = call[h].prior
         /\ Dropped(h) => call[h].priorSeen.fingerprint # None

TokenInv == CallInv /\ OnlyPriorHolds /\ FingerprintUnique

(* What most steps do to registrations, and to fingerprints.               *)
RegistrationsGoOn ==
  \A g \in Call : Registering(g)' => call'[g] = call[g]

FingerprintsGoAway ==
  \A e \in Device : device'[e].fingerprint \in {device[e].fingerprint, None}

LEMMA GoingOnKeeps ==
  ASSUME TokenInv, RegistrationsGoOn, FingerprintsGoAway
  PROVE  OnlyPriorHolds' /\ FingerprintUnique'
<1>1. FingerprintUnique'
  BY DEF TokenInv, FingerprintUnique, FingerprintsGoAway
<1>2. \A g \in Call : Registering(g)' =>
        /\ call'[g] = call[g] /\ Registering(g)
        /\ call[g].token # None
  BY NoneAssumption
     DEF RegistrationsGoOn, Registering, TokenInv, CallInv, CallsWhole
<1>3. OnlyPriorHolds'
  BY <1>2 DEF TokenInv, OnlyPriorHolds, Dropped, FingerprintsGoAway
<1> QED
  BY <1>1, <1>3

LEMMA OtherOpsGoOn ==
  ASSUME CallInv, NEW h \in Call, NEW s, s.pc = "idle" \/ s.op # "register",
         call' = [call EXCEPT ![h] = s]
  PROVE  RegistrationsGoOn
<1>1. /\ call'[h] = s
      /\ \A g \in Call : g # h => call'[g] = call[g]
  BY DEF CallInv, DeviceTypeOK
<1> QED
  BY <1>1 DEF RegistrationsGoOn, Registering

LEMMA ReturnGoesOn ==
  ASSUME CallInv, NEW h \in Call, Return(h)
  PROVE  RegistrationsGoOn
<1>1. NoCall.pc = "idle"
  BY DEF NoCall
<1> QED
  BY <1>1, OtherOpsGoOn DEF Return

LEMMA SubscribeGoesOn ==
  ASSUME CallInv, NEW h \in Call, SubscribeStep(h)
  PROVE  RegistrationsGoOn /\ UNCHANGED device
<1>1. ASSUME NEW op, NEW D, SubscribeLock(h, op, D)
      PROVE  RegistrationsGoOn /\ UNCHANGED device
  <2>1. PICK s : s = [NoCall EXCEPT
           !.pc = "write", !.op = op, !.locked = D,
           !.consents = [d \in Device |-> IF d \in D THEN consent[d]
                                          ELSE "absent"]]
    OBVIOUS
  <2>2. Start(h, s) /\ op # "register"
    BY <1>1, <2>1 DEF SubscribeLock
  <2>3. s.op # "register"
    BY <2>1, <2>2 DEF NoCall
  <2> QED
    BY <2>2, <2>3, OtherOpsGoOn DEF Start
<1>2. CASE SubscribeWrite(h)
  BY <1>2, ReturnGoesOn DEF SubscribeWrite
<1> QED
  BY <1>1, <1>2 DEF SubscribeStep

LEMMA AdminGoesOn ==
  ASSUME CallInv, NEW h \in Call, AdminStep(h)
  PROVE  RegistrationsGoOn /\ FingerprintsGoAway
<1>1. ASSUME NEW d \in Device, AdminSelect(h, d)
      PROVE  RegistrationsGoOn /\ FingerprintsGoAway
  <2>1. PICK s : s = [NoCall EXCEPT !.pc = "write", !.op = "adminDisable",
                                    !.device = d, !.seen = device[d]]
    OBVIOUS
  <2>2. s.op # "register"
    BY <2>1 DEF NoCall
  <2> QED
    BY <1>1, <2>1, <2>2, OtherOpsGoOn
       DEF AdminSelect, Start, FingerprintsGoAway
<1>2. ASSUME NEW d \in Device, RevokeSelect(h, d)
      PROVE  RegistrationsGoOn /\ FingerprintsGoAway
  <2>1. PICK s : s = [NoCall EXCEPT !.pc = "write", !.op = "adminRevoke",
                                    !.device = d, !.consents[d] = consent[d]]
    OBVIOUS
  <2>2. s.op # "register"
    BY <2>1 DEF NoCall
  <2> QED
    BY <1>2, <2>1, <2>2, OtherOpsGoOn
       DEF RevokeSelect, Start, FingerprintsGoAway
<1>3. CASE AdminWrite(h)
  <2>1. PICK s : s = [call[h] EXCEPT !.pc = "revoke"]
    OBVIOUS
  <2>2. s.op = "adminDisable" /\ call' = [call EXCEPT ![h] = s]
    BY <1>3, <2>1, AdminWriteRows, CallFields
       DEF CallInv, DeviceTypeOK, CallState
  <2>3. RegistrationsGoOn
    BY <2>2, OtherOpsGoOn
  <2>4. /\ call[h].seen \in Row
        /\ device[call[h].device] \in Row
        /\ Disabled.fingerprint = None
    BY <1>3, AdminWriteRows, CallFields DEF CallInv, DeviceTypeOK, Disabled
  <2>5. FingerprintsGoAway
    BY <1>3, <2>4, AdminWriteRows, DisabledType, SavedType
       DEF FingerprintsGoAway
  <2> QED
    BY <2>3, <2>5
<1>4. CASE AdminRevoke(h) \/ RevokeWrite(h)
  BY <1>4, ReturnGoesOn DEF AdminRevoke, RevokeWrite, FingerprintsGoAway
<1> QED
  BY <1>1, <1>2, <1>3, <1>4 DEF AdminStep

LEMMA DeviceStepGoesOn ==
  ASSUME CallInv, NEW d \in Device, DeviceStep(d)
  PROVE  RegistrationsGoOn /\ FingerprintsGoAway
<1>1. \/ DisableRow(d)
      \/ Purge(d)
  BY DEF DeviceStep, Disable, DisableInvalidToken
<1> QED
  BY <1>1 DEF DisableRow, Purge, RegistrationsGoOn, FingerprintsGoAway,
              Disabled, NoRow, CallInv, DeviceTypeOK

(* A registration that starts has found every other holder of its token.   *)
LEMMA FindOnlyPrior ==
  ASSUME TokenInv, NEW h \in Call, NEW d \in Device, NEW t \in PushToken,
         FindNoPrior(h, d, t) \/ \E p \in Device : FindPrior(h, d, t, p)
  PROVE  OnlyPriorHolds' /\ FingerprintUnique'
<1>1. PICK s : /\ Start(h, s)
               /\ s.device = d /\ s.token = t
               /\ \A e \in Device : device[e].fingerprint = t =>
                    e = d \/ (e = s.prior /\ s.pc = "dropPrior")
  <2>1. CASE FindNoPrior(h, d, t)
    <3>1. PICK s : s = [NoCall EXCEPT !.pc = "write", !.device = d,
                                      !.token = t, !.seen = device[d]]
      OBVIOUS
    <3>2. s.device = d /\ s.token = t
      BY <3>1 DEF NoCall
    <3>3. \A p \in Device \ {d} : device[p].fingerprint # t
      BY <2>1 DEF FindNoPrior
    <3> QED
      BY <2>1, <3>1, <3>2, <3>3 DEF FindNoPrior, Registers
  <2>2. ASSUME NEW p \in Device, FindPrior(h, d, t, p)
        PROVE  \E s : /\ Start(h, s)
                      /\ s.device = d /\ s.token = t
                      /\ \A e \in Device : device[e].fingerprint = t =>
                           e = d \/ (e = s.prior /\ s.pc = "dropPrior")
    <3>1. PICK s : s = [NoCall EXCEPT !.pc = "dropPrior", !.device = d,
                                      !.token = t, !.prior = p]
      OBVIOUS
    <3>2. s.device = d /\ s.token = t /\ s.prior = p /\ s.pc = "dropPrior"
      BY <3>1 DEF NoCall
    <3>3. \A e \in Device : device[e].fingerprint = t => e = p
      BY <2>2, NoneAssumption DEF FindPrior, TokenInv, FingerprintUnique
    <3> QED
      BY <2>2, <3>1, <3>2, <3>3 DEF FindPrior, Registers
  <2> QED
    BY <2>1, <2>2
<1>2. /\ call'[h] = s
      /\ \A g \in Call : g # h => call'[g] = call[g]
      /\ UNCHANGED device
  BY <1>1 DEF Start, TokenInv, CallInv, DeviceTypeOK
<1> QED
  BY <1>1, <1>2 DEF TokenInv, OnlyPriorHolds, FingerprintUnique, Registering,
                    Dropped

(* The save of the prior sees its fingerprint, if the prior still has it.  *)
LEMMA DropPriorHolds ==
  ASSUME TokenInv, NEW h \in Call, DropPrior(h)
  PROVE  OnlyPriorHolds' /\ FingerprintUnique'
<1>1. call[h].pc = "dropPrior" /\ Registering(h) /\ call[h].token # None
  BY NoneAssumption
     DEF DropPrior, TokenInv, CallInv, CallsWhole, Registering
<1>2. PICK s : s = [call[h] EXCEPT
         !.pc = "writePrior", !.priorSeen = device[call[h].prior],
         !.revoked = IF consent[call[h].prior] = "absent" THEN {}
                     ELSE {call[h].prior}]
  OBVIOUS
<1>3. /\ s.device = call[h].device /\ s.token = call[h].token
      /\ s.prior = call[h].prior /\ s.priorSeen = device[call[h].prior]
  BY <1>2, CallFields DEF CallState, TokenInv, CallInv
<1>4. call' = [call EXCEPT ![h] = s] /\ UNCHANGED device
  BY <1>2 DEF DropPrior, Local, TokenInv, CallInv, DeviceTypeOK
<1>5. /\ call'[h] = s
      /\ \A g \in Call : g # h => call'[g] = call[g]
  BY <1>4 DEF TokenInv, CallInv, DeviceTypeOK
<1> QED
  BY <1>1, <1>3, <1>4, <1>5
     DEF TokenInv, OnlyPriorHolds, FingerprintUnique, Registering, Dropped

LEMMA WritePriorHolds ==
  ASSUME TokenInv, NEW h \in Call, WritePrior(h)
  PROVE  OnlyPriorHolds' /\ FingerprintUnique'
<1>1. call[h].pc = "writePrior" /\ Registering(h) /\ call[h].prior # None
  BY DEF WritePrior, TokenInv, CallInv, CallsWhole, Registering
<1>2. PICK s : s = [call[h] EXCEPT
         !.pc = "write", !.locked = {call[h].prior},
         !.seen = device[call[h].device]]
  OBVIOUS
<1>3. /\ s.device = call[h].device /\ s.token = call[h].token
      /\ s.prior = call[h].prior /\ s.priorSeen = call[h].priorSeen
  BY <1>2, CallFields DEF CallState, TokenInv, CallInv
<1>4. call' = [call EXCEPT ![h] = s] /\ UNCHANGED device
  BY <1>2 DEF WritePrior, Local, TokenInv, CallInv, DeviceTypeOK
<1>5. /\ call'[h] = s
      /\ \A g \in Call : g # h => call'[g] = call[g]
  BY <1>4 DEF TokenInv, CallInv, DeviceTypeOK
<1>6. Dropped(h)
  BY <1>1 DEF Dropped
<1> QED
  BY <1>1, <1>3, <1>4, <1>5, <1>6
     DEF TokenInv, OnlyPriorHolds, FingerprintUnique, Registering, Dropped

(* The commit gives the token to its device and takes it from the prior.   *)
LEMMA RegisterWriteHolds ==
  ASSUME TokenInv, NEW h \in Call, RegisterWrite(h)
  PROVE  OnlyPriorHolds' /\ FingerprintUnique'
<1> DEFINE d == call[h].device
           p == call[h].prior
           t == call[h].token
<1>0. CallInv
  BY DEF TokenInv
<1>1. /\ Registering(h) /\ call[h].pc = "write"
      /\ d \in Device /\ t \in PushToken /\ t # None
  BY <1>0, RegisterWriteRows, NoneAssumption
<1>2. device'[d].fingerprint \in {t, device[d].fingerprint, None}
  <2>1. Registered(t).fingerprint = t
    BY DEF Registered
  <2> QED
    BY <1>0, <1>1, <2>1, RegisterWriteRows, SavedType, CallFields
       DEF CallInv, DeviceTypeOK
<1>3. p # None => device'[p].fingerprint \in {device[p].fingerprint, None}
  BY <1>0, RegisterWriteRows, SavedType, DisabledType, CallFields
     DEF CallInv, DeviceTypeOK, Disabled
<1>4. \A e \in Device : e # d =>
        device'[e].fingerprint \in {device[e].fingerprint, None}
  BY <1>0, <1>3, RegisterWriteRows, NoneAssumption
<1>5. \A e \in Device : e # d => device'[e].fingerprint # t
  <2> SUFFICES ASSUME NEW e \in Device, e # d, device'[e].fingerprint = t
               PROVE  FALSE
    OBVIOUS
  <2>1. device[e].fingerprint = t
    BY <1>1, <1>4
  <2>2. e = p /\ p # None /\ call[h].priorSeen.fingerprint # None
    BY <1>1, <2>1, NoneAssumption DEF TokenInv, OnlyPriorHolds, Dropped
  <2>3. /\ device'[p] = Saved(Disabled, call[h].priorSeen, device[p])
        /\ Disabled.fingerprint = None
    BY <1>0, <2>2, RegisterWriteRows DEF Disabled
  <2>4. Saved(Disabled, call[h].priorSeen, device[p]).fingerprint = None
    BY <2>2 DEF Saved, Picked, NoRow, Disabled
  <2> QED
    BY <1>1, <2>2, <2>3, <2>4
<1>6. FingerprintUnique'
  BY <1>1, <1>2, <1>4, <1>5 DEF TokenInv, FingerprintUnique
<1>7. RegistrationsGoOn /\ ~Registering(h)'
  BY <1>0, RegisterWriteRows, ReturnGoesOn
     DEF Return, Registering, NoCall, CallInv, DeviceTypeOK
<1>8. OnlyPriorHolds'
  <2> SUFFICES ASSUME NEW g \in Call, Registering(g)', NEW e \in Device,
                      device'[e].fingerprint = call'[g].token
               PROVE  \/ e = call'[g].device
                      \/ /\ e = call'[g].prior
                         /\ Dropped(g)' => call'[g].priorSeen.fingerprint # None
    BY DEF OnlyPriorHolds
  <2>1. g # h /\ call'[g] = call[g] /\ Registering(g)
    BY <1>7 DEF RegistrationsGoOn, Registering
  <2>2. call[g].token # t /\ call[g].token # None
    BY <1>0, <1>1, <2>1, NoneAssumption DEF CallInv, CallsWhole, Exclusive
  <2>3. device[e].fingerprint = call[g].token
    BY <1>2, <1>4, <2>1, <2>2
  <2> QED
    BY <2>1, <2>3 DEF TokenInv, OnlyPriorHolds, Dropped
<1> QED
  BY <1>6, <1>8

LEMMA TokenNextKeeps ==
  ASSUME TokenInv, [DeviceNext]_deviceVars
  PROVE  TokenInv'
<1>0. CallInv /\ CallInv'
  BY CallNextKeeps DEF TokenInv
<1>1. ASSUME NEW h \in Call, RegisterStep(h)
      PROVE  OnlyPriorHolds' /\ FingerprintUnique'
  BY <1>1, FindOnlyPrior, DropPriorHolds, WritePriorHolds, RegisterWriteHolds
     DEF RegisterStep
<1>2. ASSUME NEW h \in Call, SubscribeStep(h) \/ CallFails(h)
      PROVE  OnlyPriorHolds' /\ FingerprintUnique'
  <2>1. RegistrationsGoOn /\ UNCHANGED device
    BY <1>0, <1>2, SubscribeGoesOn, ReturnGoesOn DEF CallFails
  <2> QED
    BY <2>1, GoingOnKeeps DEF FingerprintsGoAway
<1>3. ASSUME NEW h \in Call, AdminStep(h)
      PROVE  OnlyPriorHolds' /\ FingerprintUnique'
  BY <1>0, <1>3, AdminGoesOn, GoingOnKeeps
<1>4. ASSUME NEW d \in Device, DeviceStep(d)
      PROVE  OnlyPriorHolds' /\ FingerprintUnique'
  BY <1>0, <1>4, DeviceStepGoesOn, GoingOnKeeps
<1>5. ASSUME UNCHANGED deviceVars
      PROVE  OnlyPriorHolds' /\ FingerprintUnique'
  BY <1>5, GoingOnKeeps
     DEF deviceVars, FingerprintsGoAway, RegistrationsGoOn
<1>6. OnlyPriorHolds' /\ FingerprintUnique'
  BY <1>1, <1>2, <1>3, <1>4, <1>5 DEF DeviceNext, CallStep
<1> QED
  BY <1>0, <1>6 DEF TokenInv

(* No two devices ever hold one token: the unique index is never what      *)
(* stops a registration.                                                   *)
THEOREM FingerprintUniqueHolds == DeviceSpec => []FingerprintUnique
<1>1. DeviceInit => TokenInv
  BY CallInitial DEF DeviceInit, TokenInv, OnlyPriorHolds, FingerprintUnique,
                     Registering, NoCall, NoRow
<1>2. TokenInv => FingerprintUnique
  BY DEF TokenInv
<1> QED
  BY <1>1, <1>2, TokenNextKeeps, PTL DEF DeviceSpec

-----------------------------------------------------------------------------
(* An active device has a token and its fingerprint, no other has either.  *)
Whole(r) == /\ r.fingerprint = r.token
            /\ r.status = "active" <=> r.token # None

WholeInv == CallInv /\ WholeRows

(* A save over the row it has selected writes its entity in full.          *)
LEMMA SavedWhole ==
  /\ \A t \in PushToken, seen \in Row : Whole(Saved(Registered(t), seen, seen))
  /\ \A seen \in Row : Whole(Saved(Disabled, seen, seen))
BY NoneAssumption DEF Whole, Saved, Picked, Registered, Disabled, NoRow, Row

LEMMA EmptyWhole == Whole(Disabled) /\ Whole(NoRow)
BY DEF Whole, Disabled, NoRow

LEMMA WholeRowsAre == WholeRows <=> \A d \in Device \ torn : Whole(device[d])
BY DEF WholeRows, Whole

LEMMA RegisterWriteTorn ==
  ASSUME CallInv, NEW h \in Call, RegisterWrite(h)
  PROVE  /\ call[h].device \notin torn' => device[call[h].device] = call[h].seen
         /\ call[h].prior # None /\ call[h].prior \notin torn'
              => device[call[h].prior] = call[h].priorSeen
         /\ \A e \in Device : e # call[h].device /\ e # call[h].prior
                                /\ e \notin torn' => e \notin torn
<1>1. torn' = IF call[h].prior = None THEN Tear(call[h].device, call[h].seen)
              ELSE (Tear(call[h].device, call[h].seen) \ {call[h].prior})
                     \cup (IF device[call[h].prior] = call[h].priorSeen THEN {}
                           ELSE {call[h].prior})
  BY DEF RegisterWrite
<1>2. call[h].prior # None => call[h].prior # call[h].device
  BY RegisterWriteRows
<1> QED
  BY <1>1, <1>2 DEF Tear

LEMMA RegisterWriteWhole ==
  ASSUME WholeInv, NEW h \in Call, RegisterWrite(h)
  PROVE  \A e \in Device \ torn' : Whole(device'[e])
<1>0. CallInv
  BY DEF WholeInv
<1> SUFFICES ASSUME NEW e \in Device, e \notin torn' PROVE Whole(device'[e])
  OBVIOUS
<1>1. call[h].seen \in Row /\ call[h].priorSeen \in Row
  BY <1>0, CallFields DEF CallInv
<1>2. CASE e = call[h].device
  <2>1. /\ call[h].token \in PushToken
        /\ device'[e] = Saved(Registered(call[h].token), call[h].seen,
                              call[h].seen)
    BY <1>0, <1>2, RegisterWriteRows, RegisterWriteTorn
  <2> QED
    BY <1>1, <2>1, SavedWhole
<1>3. CASE e # call[h].device /\ e = call[h].prior
  <2>1. device'[e] = Saved(Disabled, call[h].priorSeen, call[h].priorSeen)
    BY <1>0, <1>3, RegisterWriteRows, RegisterWriteTorn, NoneAssumption
  <2> QED
    BY <1>1, <2>1, SavedWhole
<1>4. CASE e # call[h].device /\ e # call[h].prior
  <2>1. device'[e] = device[e] /\ e \notin torn
    BY <1>0, <1>4, RegisterWriteRows, RegisterWriteTorn
  <2> QED
    BY <2>1, WholeRowsAre DEF WholeInv
<1> QED
  BY <1>2, <1>3, <1>4

LEMMA AdminWriteWhole ==
  ASSUME WholeInv, NEW h \in Call, AdminWrite(h)
  PROVE  \A e \in Device \ torn' : Whole(device'[e])
<1>0. CallInv
  BY DEF WholeInv
<1> SUFFICES ASSUME NEW e \in Device, e \notin torn' PROVE Whole(device'[e])
  OBVIOUS
<1>1. CASE e = call[h].device
  <2>1. device'[e] = Saved(Disabled, call[h].seen, call[h].seen)
    BY <1>0, <1>1, AdminWriteRows DEF Tear
  <2>2. call[h].seen \in Row
    BY <1>0, CallFields DEF CallInv
  <2> QED
    BY <2>1, <2>2, SavedWhole
<1>2. CASE e # call[h].device
  <2>1. device'[e] = device[e] /\ e \notin torn
    BY <1>0, <1>2, AdminWriteRows DEF Tear
  <2> QED
    BY <2>1, WholeRowsAre DEF WholeInv
<1> QED
  BY <1>1, <1>2

LEMMA WholeNextKeeps ==
  ASSUME WholeInv, [DeviceNext]_deviceVars
  PROVE  WholeInv'
<1>0. CallInv /\ CallInv' /\ device \in [Device -> Row]
  BY CallNextKeeps DEF WholeInv, CallInv, DeviceTypeOK
<1>1. ASSUME UNCHANGED <<device, torn>> PROVE WholeRows'
  BY <1>1 DEF WholeInv, WholeRows
<1>2. ASSUME NEW h \in Call, RegisterStep(h) PROVE WholeRows'
  <2>1. CASE RegisterWrite(h)
    BY <2>1, RegisterWriteWhole DEF WholeRows, Whole
  <2>2. ASSUME ~RegisterWrite(h) PROVE UNCHANGED <<device, torn>>
    BY <1>2, <2>2 DEF RegisterStep, FindNoPrior, FindPrior, Registers, Start,
                      DropPrior, WritePrior, Local
  <2> QED
    BY <1>1, <2>1, <2>2
<1>3. ASSUME NEW h \in Call, SubscribeStep(h) \/ CallFails(h) PROVE WholeRows'
  BY <1>1, <1>3 DEF SubscribeStep, SubscribeLock, Start, SubscribeWrite,
                    CallFails
<1>4. ASSUME NEW h \in Call, AdminStep(h) PROVE WholeRows'
  <2>1. CASE AdminWrite(h)
    BY <2>1, AdminWriteWhole DEF WholeRows, Whole
  <2>2. ASSUME ~AdminWrite(h) PROVE UNCHANGED <<device, torn>>
    BY <1>4, <2>2 DEF AdminStep, AdminSelect, RevokeSelect, Start,
                      AdminRevoke, RevokeWrite
  <2> QED
    BY <1>1, <2>1, <2>2
<1>5. ASSUME NEW d \in Device, DeviceStep(d) PROVE WholeRows'
  <2>1. /\ device' = [device EXCEPT ![d] = Disabled]
             \/ device' = [device EXCEPT ![d] = NoRow]
        /\ torn' = torn \ {d}
    BY <1>5 DEF DeviceStep, Disable, DisableInvalidToken, DisableRow, Purge
  <2>2. device'[d] = Disabled \/ device'[d] = NoRow
    BY <1>0, <2>1
  <2>3. \A e \in Device \ torn' : Whole(device'[e])
    BY <1>0, <2>1, <2>2, EmptyWhole, WholeRowsAre DEF WholeInv
  <2> QED
    BY <2>3 DEF WholeRows, Whole
<1>6. ASSUME UNCHANGED deviceVars PROVE WholeRows'
  BY <1>1, <1>6 DEF deviceVars
<1>7. WholeRows'
  BY <1>2, <1>3, <1>4, <1>5, <1>6 DEF DeviceNext, CallStep
<1> QED
  BY <1>0, <1>7 DEF WholeInv

(* Only a save over a row that changed after it was selected can leave a   *)
(* device active without a token or disabled with one.                     *)
THEOREM WholeRowsHold == DeviceSpec => []WholeRows
<1>1. DeviceInit => WholeInv
  BY CallInitial DEF DeviceInit, WholeInv, WholeRows, NoRow
<1>2. WholeInv => WholeRows
  BY DEF WholeInv
<1> QED
  BY <1>1, <1>2, WholeNextKeeps, PTL DEF DeviceSpec

-----------------------------------------------------------------------------
(* A token and a fingerprint that are both there are of one push token,    *)
(* even in a row that a save has torn.                                     *)
Matched ==
  \A d \in Device : device[d].token # None /\ device[d].fingerprint # None
                       => device[d].token = device[d].fingerprint

(* Since a registration selected its device's row, the fingerprint in it   *)
(* can only have gone.                                                     *)
SeenStands ==
  \A h \in Call : Registering(h) /\ call[h].pc = "write" =>
    device[call[h].device].fingerprint \in {call[h].seen.fingerprint, None}

MatchInv == CallInv /\ Matched /\ SeenStands

LEMMA SavedMatches ==
  ASSUME NEW t \in PushToken, NEW seen \in Row, NEW current \in Row,
         current.fingerprint \in {seen.fingerprint, None},
         NEW r, r = Saved(Registered(t), seen, current),
         r.token # None, r.fingerprint # None
  PROVE  r.token = r.fingerprint
BY DEF Saved, Picked, Registered, NoRow, Row

(* Disabling takes either away, or leaves it.                              *)
LEMMA SavedDisables ==
  ASSUME NEW seen \in Row, NEW current \in Row,
         NEW r, r = Saved(Disabled, seen, current)
  PROVE  /\ r.token \in {current.token, None}
         /\ r.fingerprint \in {current.fingerprint, None}
BY DEF Saved, Picked, Disabled, NoRow, Row

TokensGoAway ==
  \A e \in Device : device'[e].token \in {device[e].token, None}

LEMMA GoingAwayMatches ==
  ASSUME MatchInv, RegistrationsGoOn, TokensGoAway, FingerprintsGoAway
  PROVE  Matched' /\ SeenStands'
<1>1. Matched'
  BY DEF MatchInv, Matched, TokensGoAway, FingerprintsGoAway
<1>2. SeenStands'
  <2> SUFFICES ASSUME NEW g \in Call, Registering(g)', call'[g].pc = "write"
               PROVE  device'[call'[g].device].fingerprint
                        \in {call'[g].seen.fingerprint, None}
    BY DEF SeenStands
  <2>1. call'[g] = call[g] /\ Registering(g)
    BY DEF RegistrationsGoOn, Registering
  <2>2. call[g].device \in Device
    BY <2>1 DEF MatchInv, CallInv, CallsWhole, Registering
  <2> QED
    BY <2>1, <2>2 DEF MatchInv, SeenStands, FingerprintsGoAway
<1> QED
  BY <1>1, <1>2

(* A step of one registration that writes nothing: if it is to write next, *)
(* it has just selected the row.                                           *)
LEMMA SelectingMatches ==
  ASSUME MatchInv, NEW h \in Call, NEW s, call' = [call EXCEPT ![h] = s],
         UNCHANGED device,
         s.pc = "write" => s.seen = device[s.device]
  PROVE  Matched' /\ SeenStands'
<1>1. /\ call'[h] = s
      /\ \A g \in Call : g # h => call'[g] = call[g]
  BY DEF MatchInv, CallInv, DeviceTypeOK
<1> QED
  BY <1>1 DEF MatchInv, Matched, SeenStands, Registering

LEMMA RegisterLocalMatches ==
  ASSUME MatchInv, NEW h \in Call, RegisterStep(h), ~RegisterWrite(h)
  PROVE  Matched' /\ SeenStands'
<1>0. CallInv
  BY DEF MatchInv
<1>1. ASSUME NEW d \in Device, NEW t \in PushToken, FindNoPrior(h, d, t)
      PROVE  Matched' /\ SeenStands'
  <2>1. PICK s : s = [NoCall EXCEPT !.pc = "write", !.device = d,
                                    !.token = t, !.seen = device[d]]
    OBVIOUS
  <2>2. s.seen = device[s.device]
    BY <2>1 DEF NoCall
  <2>3. call' = [call EXCEPT ![h] = s] /\ UNCHANGED device
    BY <1>1, <2>1 DEF FindNoPrior, Registers, Start
  <2> QED
    BY <2>2, <2>3, SelectingMatches
<1>2. ASSUME NEW d \in Device, NEW t \in PushToken, NEW p \in Device,
             FindPrior(h, d, t, p)
      PROVE  Matched' /\ SeenStands'
  <2>1. PICK s : s = [NoCall EXCEPT !.pc = "dropPrior", !.device = d,
                                    !.token = t, !.prior = p]
    OBVIOUS
  <2>2. s.pc # "write"
    BY <2>1 DEF NoCall
  <2>3. call' = [call EXCEPT ![h] = s] /\ UNCHANGED device
    BY <1>2, <2>1 DEF FindPrior, Registers, Start
  <2> QED
    BY <2>2, <2>3, SelectingMatches
<1>3. CASE DropPrior(h)
  <2>1. PICK s : s = [call[h] EXCEPT
           !.pc = "writePrior", !.priorSeen = device[call[h].prior],
           !.revoked = IF consent[call[h].prior] = "absent" THEN {}
                       ELSE {call[h].prior}]
    OBVIOUS
  <2>2. s.pc # "write"
    BY <1>0, <2>1, CallFields DEF CallInv, CallState
  <2>3. call' = [call EXCEPT ![h] = s] /\ UNCHANGED device
    BY <1>0, <1>3, <2>1 DEF DropPrior, Local, CallInv, DeviceTypeOK
  <2> QED
    BY <2>2, <2>3, SelectingMatches
<1>4. CASE WritePrior(h)
  <2>1. PICK s : s = [call[h] EXCEPT
           !.pc = "write", !.locked = {call[h].prior},
           !.seen = device[call[h].device]]
    OBVIOUS
  <2>2. s.seen = device[s.device]
    BY <1>0, <2>1, CallFields DEF CallInv, CallState
  <2>3. call' = [call EXCEPT ![h] = s] /\ UNCHANGED device
    BY <1>0, <1>4, <2>1 DEF WritePrior, Local, CallInv, DeviceTypeOK
  <2> QED
    BY <2>2, <2>3, SelectingMatches
<1> QED
  BY <1>1, <1>2, <1>3, <1>4 DEF RegisterStep

(* The commit writes a token over a row whose fingerprint is the one seen  *)
(* or gone: the fingerprint it leaves is the token's.                      *)
LEMMA RegisterWriteMatches ==
  ASSUME MatchInv, NEW h \in Call, RegisterWrite(h)
  PROVE  Matched' /\ SeenStands'
<1> DEFINE d == call[h].device
           p == call[h].prior
           t == call[h].token
<1>0. CallInv
  BY DEF MatchInv
<1>1. /\ Registering(h) /\ call[h].pc = "write" /\ Return(h)
      /\ d \in Device /\ t \in PushToken
      /\ call[h].seen \in Row /\ call[h].priorSeen \in Row
      /\ device[d] \in Row
  BY <1>0, RegisterWriteRows, CallFields DEF CallInv, DeviceTypeOK
<1>2. device'[d].token # None /\ device'[d].fingerprint # None
        => device'[d].token = device'[d].fingerprint
  <2>1. device[d].fingerprint \in {call[h].seen.fingerprint, None}
    BY <1>1 DEF MatchInv, SeenStands
  <2>2. device'[d] = Saved(Registered(t), call[h].seen, device[d])
    BY <1>0, RegisterWriteRows
  <2> QED
    BY <1>1, <2>1, <2>2, SavedMatches
<1>3. \A e \in Device : e # d =>
        /\ device'[e].token \in {device[e].token, None}
        /\ device'[e].fingerprint \in {device[e].fingerprint, None}
  <2> SUFFICES ASSUME NEW e \in Device, e # d
               PROVE  /\ device'[e].token \in {device[e].token, None}
                      /\ device'[e].fingerprint
                           \in {device[e].fingerprint, None}
    OBVIOUS
  <2>1. CASE e = p
    <3>1. device'[e] = Saved(Disabled, call[h].priorSeen, device[e])
      BY <1>0, <2>1, RegisterWriteRows, NoneAssumption
    <3>2. device[e] \in Row
      BY <1>0 DEF CallInv, DeviceTypeOK
    <3> QED
      BY <1>1, <3>1, <3>2, SavedDisables
  <2>2. CASE e # p
    BY <1>0, <2>2, RegisterWriteRows
  <2> QED
    BY <2>1, <2>2
<1>4. Matched'
  BY <1>2, <1>3 DEF MatchInv, Matched
<1>5. SeenStands'
  <2> SUFFICES ASSUME NEW g \in Call, Registering(g)', call'[g].pc = "write"
               PROVE  device'[call'[g].device].fingerprint
                        \in {call'[g].seen.fingerprint, None}
    BY DEF SeenStands
  <2>1. g # h /\ call'[g] = call[g] /\ Registering(g)
    BY <1>0, <1>1, ReturnGoesOn
       DEF RegistrationsGoOn, Registering, Return, NoCall, CallInv, DeviceTypeOK
  <2>2. call[g].device \in Device /\ call[g].device # d
    BY <1>0, <1>1, <2>1 DEF CallInv, CallsWhole, Exclusive, Registering
  <2> QED
    BY <1>3, <2>1, <2>2 DEF MatchInv, SeenStands
<1> QED
  BY <1>4, <1>5

LEMMA AdminTokensGoAway ==
  ASSUME CallInv, NEW h \in Call, AdminStep(h)
  PROVE  TokensGoAway
<1>1. CASE AdminWrite(h)
  <2>1. call[h].seen \in Row /\ device[call[h].device] \in Row
    BY <1>1, AdminWriteRows, CallFields DEF CallInv, DeviceTypeOK
  <2> QED
    BY <1>1, <2>1, AdminWriteRows, SavedDisables DEF TokensGoAway
<1>2. ASSUME ~AdminWrite(h) PROVE UNCHANGED device
  BY <1>2 DEF AdminStep, AdminSelect, RevokeSelect, Start, AdminRevoke,
              RevokeWrite
<1> QED
  BY <1>1, <1>2 DEF TokensGoAway

LEMMA DeviceStepTokensGoAway ==
  ASSUME CallInv, NEW d \in Device, DeviceStep(d)
  PROVE  TokensGoAway
<1>1. DisableRow(d) \/ Purge(d)
  BY DEF DeviceStep, Disable, DisableInvalidToken
<1> QED
  BY <1>1 DEF DisableRow, Purge, TokensGoAway, Disabled, NoRow, CallInv,
              DeviceTypeOK

LEMMA MatchNextKeeps ==
  ASSUME MatchInv, [DeviceNext]_deviceVars
  PROVE  MatchInv'
<1>0. CallInv /\ CallInv'
  BY CallNextKeeps DEF MatchInv
<1>1. ASSUME NEW h \in Call, RegisterStep(h) PROVE Matched' /\ SeenStands'
  BY <1>1, RegisterLocalMatches, RegisterWriteMatches
<1>2. ASSUME NEW h \in Call, SubscribeStep(h) \/ CallFails(h)
      PROVE  Matched' /\ SeenStands'
  <2>1. RegistrationsGoOn /\ UNCHANGED device
    BY <1>0, <1>2, SubscribeGoesOn, ReturnGoesOn DEF CallFails
  <2> QED
    BY <2>1, GoingAwayMatches DEF FingerprintsGoAway, TokensGoAway
<1>3. ASSUME NEW h \in Call, AdminStep(h) PROVE Matched' /\ SeenStands'
  BY <1>0, <1>3, AdminGoesOn, AdminTokensGoAway, GoingAwayMatches
<1>4. ASSUME NEW d \in Device, DeviceStep(d) PROVE Matched' /\ SeenStands'
  BY <1>0, <1>4, DeviceStepGoesOn, DeviceStepTokensGoAway, GoingAwayMatches
<1>5. ASSUME UNCHANGED deviceVars PROVE Matched' /\ SeenStands'
  BY <1>5, GoingAwayMatches
     DEF deviceVars, FingerprintsGoAway, TokensGoAway, RegistrationsGoOn
<1>6. Matched' /\ SeenStands'
  BY <1>1, <1>2, <1>3, <1>4, <1>5 DEF DeviceNext, CallStep
<1> QED
  BY <1>0, <1>6 DEF MatchInv

LEMMA MatchInitial == DeviceInit => MatchInv
<1>1. DeviceInit => CallInv
  BY CallInitial
<1>2. DeviceInit => Matched /\ SeenStands
  BY DEF DeviceInit, Matched, SeenStands, Registering, NoCall, NoRow
<1> QED
  BY <1>1, <1>2 DEF MatchInv

-----------------------------------------------------------------------------
(* Devices locked for a subscription stay active.                          *)
SubscribedActive ==
  \A h \in Call : call[h].pc = "write" /\ call[h].op = "optIn"
    => \A d \in call[h].locked : device[d].status = "active"

(* If the prior owner's consent is not revoked, consent since is leaked.   *)
PriorConsent ==
  \A h \in Call : Dropped(h) => \/ call[h].prior \in call[h].revoked
                                \/ consent[call[h].prior] # "on"
                                \/ call[h].prior \in leaked

ConsentInv ==
  CallInv /\ SubscribedActive /\ PriorConsent /\ ConsentEndsWithDevice

(* What each step does to the handlers' part of these.                     *)
SubscribersGoOn ==
  \A g \in Call : call'[g].pc = "write" /\ call'[g].op = "optIn"
                    => call'[g] = call[g]

PriorsGoOn == \A g \in Call : Dropped(g)' => call'[g] = call[g]

RevokingGoesOn ==
  \A g \in Call : call[g].pc = "revoke" => call'[g] = call[g]

(* Handlers that step without writing leave consent where it is.           *)
LEMMA LocalKeepsConsent ==
  ASSUME ConsentInv, Local, SubscribersGoOn, PriorsGoOn, RevokingGoesOn
  PROVE  SubscribedActive' /\ PriorConsent' /\ ConsentEndsWithDevice'
<1>1. SubscribedActive'
  BY DEF ConsentInv, SubscribedActive, SubscribersGoOn, Local
<1>2. PriorConsent'
  BY DEF ConsentInv, PriorConsent, PriorsGoOn, Local, Dropped
<1>3. ConsentEndsWithDevice'
  BY DEF ConsentInv, ConsentEndsWithDevice, RevokingGoesOn, Local
<1> QED
  BY <1>1, <1>2, <1>3

LEMMA OnlyOneSteps ==
  ASSUME CallInv, NEW h \in Call, NEW s, call' = [call EXCEPT ![h] = s]
  PROVE  /\ call'[h] = s
         /\ \A g \in Call : g # h => call'[g] = call[g]
BY DEF CallInv, DeviceTypeOK

LEMMA RegisterLocalConsent ==
  ASSUME ConsentInv, NEW h \in Call, RegisterStep(h), ~RegisterWrite(h)
  PROVE  SubscribedActive' /\ PriorConsent' /\ ConsentEndsWithDevice'
<1>0. CallInv
  BY DEF ConsentInv
<1>1. ASSUME NEW d \in Device, NEW t \in PushToken,
             FindNoPrior(h, d, t) \/ \E p \in Device : FindPrior(h, d, t, p)
      PROVE  SubscribedActive' /\ PriorConsent' /\ ConsentEndsWithDevice'
  <2>1. PICK s : /\ Start(h, s) /\ s.op = "register"
                 /\ s.prior = None \/ s.pc = "dropPrior"
    <3>1. CASE FindNoPrior(h, d, t)
      <4>1. PICK s : s = [NoCall EXCEPT !.pc = "write", !.device = d,
                                        !.token = t, !.seen = device[d]]
        OBVIOUS
      <4>2. s.op = "register" /\ s.prior = None
        BY <4>1 DEF NoCall
      <4> QED
        BY <3>1, <4>1, <4>2 DEF FindNoPrior, Registers
    <3>2. ASSUME NEW p \in Device, FindPrior(h, d, t, p)
          PROVE  \E s : /\ Start(h, s) /\ s.op = "register"
                        /\ s.prior = None \/ s.pc = "dropPrior"
      <4>1. PICK s : s = [NoCall EXCEPT !.pc = "dropPrior", !.device = d,
                                        !.token = t, !.prior = p]
        OBVIOUS
      <4>2. s.op = "register" /\ s.pc = "dropPrior"
        BY <4>1 DEF NoCall
      <4> QED
        BY <3>2, <4>1, <4>2 DEF FindPrior, Registers
    <3> QED
      BY <1>1, <3>1, <3>2
  <2>2. /\ call[h].pc = "idle"
        /\ call'[h] = s
        /\ \A g \in Call : g # h => call'[g] = call[g]
        /\ Local
    BY <1>0, <2>1, OnlyOneSteps DEF Start, Local
  <2>3. SubscribersGoOn /\ PriorsGoOn /\ RevokingGoesOn
    BY <2>1, <2>2 DEF SubscribersGoOn, PriorsGoOn, RevokingGoesOn, Dropped
  <2> QED
    BY <2>2, <2>3, LocalKeepsConsent
<1>2. CASE DropPrior(h)
  <2>1. /\ call[h].pc = "dropPrior" /\ call[h].prior \in Device
        /\ call[h].op = "register"
    BY <1>0, <1>2, CallFields DEF DropPrior, CallInv, CallsWhole, Registering
  <2>2. PICK s : s = [call[h] EXCEPT
           !.pc = "writePrior", !.priorSeen = device[call[h].prior],
           !.revoked = IF consent[call[h].prior] = "absent" THEN {}
                       ELSE {call[h].prior}]
    OBVIOUS
  <2>3. /\ s.op = "register" /\ s.prior = call[h].prior
        /\ s.revoked = IF consent[call[h].prior] = "absent" THEN {}
                       ELSE {call[h].prior}
    BY <1>0, <2>1, <2>2, CallFields DEF CallState
  <2>4. call' = [call EXCEPT ![h] = s] /\ Local
    BY <1>0, <1>2, <2>2 DEF DropPrior, CallInv, DeviceTypeOK
  <2>5. call'[h] = s /\ \A g \in Call : g # h => call'[g] = call[g]
    BY <1>0, <2>4, OnlyOneSteps
  <2>6. SubscribedActive'
    BY <2>3, <2>4, <2>5 DEF ConsentInv, SubscribedActive, Local
  <2>7. PriorConsent'
    BY <2>3, <2>4, <2>5 DEF ConsentInv, PriorConsent, Dropped, Local
  <2>8. ConsentEndsWithDevice'
    BY <2>1, <2>4, <2>5 DEF ConsentInv, ConsentEndsWithDevice, Local
  <2> QED
    BY <2>6, <2>7, <2>8
<1>3. CASE WritePrior(h)
  <2>1. /\ call[h].pc = "writePrior" /\ call[h].op = "register"
        /\ Dropped(h)
    BY <1>0, <1>3
       DEF WritePrior, CallInv, CallsWhole, Registering, Dropped
  <2>2. PICK s : s = [call[h] EXCEPT
           !.pc = "write", !.locked = {call[h].prior},
           !.seen = device[call[h].device]]
    OBVIOUS
  <2>3. s.op = "register" /\ s.prior = call[h].prior
        /\ s.revoked = call[h].revoked
    BY <1>0, <2>1, <2>2, CallFields DEF CallState
  <2>4. call' = [call EXCEPT ![h] = s] /\ Local
    BY <1>0, <1>3, <2>2 DEF WritePrior, CallInv, DeviceTypeOK
  <2>5. call'[h] = s /\ \A g \in Call : g # h => call'[g] = call[g]
    BY <1>0, <2>4, OnlyOneSteps
  <2>6. SubscribedActive'
    BY <2>3, <2>4, <2>5 DEF ConsentInv, SubscribedActive, Local
  <2>7. PriorConsent'
    BY <2>1, <2>3, <2>4, <2>5 DEF ConsentInv, PriorConsent, Dropped, Local
  <2>8. ConsentEndsWithDevice'
    BY <2>1, <2>4, <2>5 DEF ConsentInv, ConsentEndsWithDevice, Local
  <2> QED
    BY <2>6, <2>7, <2>8
<1> QED
  BY <1>1, <1>2, <1>3 DEF RegisterStep

(* A commit that ends an activity ends consent: what it disables it has    *)
(* revoked, or the consent is known to be leaked.                          *)
LEMMA RegisterWriteConsent ==
  ASSUME ConsentInv, NEW h \in Call, RegisterWrite(h)
  PROVE  SubscribedActive' /\ PriorConsent' /\ ConsentEndsWithDevice'
<1> DEFINE d == call[h].device
           p == call[h].prior
<1>0. CallInv
  BY DEF ConsentInv
<1>1. /\ call[h].pc = "write" /\ d \in Device /\ Return(h) /\ RowFree(d)
      /\ leaked' = leaked
      /\ \A e \in Device : e # d /\ e # p => device'[e] = device[e]
      /\ \A e \in Device : consent'[e] =
           IF e \in call[h].revoked THEN Revoked(consent[e]) ELSE consent[e]
      /\ p # None => p \in Device /\ p # d
  BY <1>0, RegisterWriteRows
<1>2. /\ call'[h] = NoCall
      /\ \A g \in Call : g # h => call'[g] = call[g]
  BY <1>0, <1>1, OnlyOneSteps DEF Return
<1>3. NoCall.pc = "idle" /\ NoCall.prior = None
  BY DEF NoCall
<1>4. \A e \in Device : /\ consent'[e] = "on" => consent[e] = "on"
                        /\ e \in call[h].revoked => consent'[e] # "on"
  BY <1>1 DEF Revoked
<1>5. device[d].status = "active" => device'[d].status = "active"
  <2> SUFFICES ASSUME device[d].status = "active"
               PROVE  device'[d].status = "active"
    OBVIOUS
  <2>1. device[d] # NoRow
    BY DEF NoRow
  <2>2. device'[d] = Saved(Registered(call[h].token), call[h].seen, device[d])
    BY <1>0, RegisterWriteRows
  <2>3. Saved(Registered(call[h].token), call[h].seen, device[d]).status
          = "active"
    BY <2>1 DEF Saved, Picked, Registered
  <2> QED
    BY <2>2, <2>3
<1>6. SubscribedActive'
  <2> SUFFICES ASSUME NEW g \in Call, call'[g].pc = "write",
                      call'[g].op = "optIn", NEW e \in call'[g].locked
               PROVE  device'[e].status = "active"
    BY DEF SubscribedActive
  <2>1. g # h /\ call'[g] = call[g]
    BY <1>2, <1>3
  <2>2. e \in Device /\ e # d /\ device[e].status = "active"
    BY <1>0, <1>1, <2>1, CallFields
       DEF RowFree, ConsentInv, SubscribedActive, CallInv
  <2>3. e # p
    BY <1>0, <1>1, <2>1, <2>2, NoneAssumption DEF CallInv, LocksExclusive
  <2> QED
    BY <1>1, <2>2, <2>3
<1>7. PriorConsent'
  <2> SUFFICES ASSUME NEW g \in Call, Dropped(g)'
               PROVE  \/ call'[g].prior \in call'[g].revoked
                      \/ consent'[call'[g].prior] # "on"
                      \/ call'[g].prior \in leaked'
    BY DEF PriorConsent
  <2>1. g # h /\ call'[g] = call[g] /\ Dropped(g)
    BY <1>2, <1>3 DEF Dropped
  <2>2. call[g].prior \in Device
    BY <1>0, <2>1, CallFields DEF Dropped, CallInv
  <2> QED
    BY <1>1, <1>4, <2>1, <2>2 DEF ConsentInv, PriorConsent
<1>8. ConsentEndsWithDevice'
  <2> SUFFICES ASSUME NEW e \in Device, consent'[e] = "on"
               PROVE  \/ device'[e].status = "active"
                      \/ e \in leaked'
                      \/ \E g \in Call : /\ call'[g].pc = "revoke"
                                         /\ call'[g].device = e
    BY DEF ConsentEndsWithDevice
  <2>1. consent[e] = "on" /\ e \notin call[h].revoked
    BY <1>4
  <2>2. \/ device[e].status = "active"
        \/ e \in leaked
        \/ \E g \in Call : call[g].pc = "revoke" /\ call[g].device = e
    BY <2>1 DEF ConsentInv, ConsentEndsWithDevice
  <2>3. \A g \in Call : call[g].pc = "revoke" => call'[g] = call[g]
    BY <1>1, <1>2
  <2>4. CASE e = p
    <3>1. Dropped(h)
      BY <1>1, <2>4, NoneAssumption DEF Dropped
    <3> QED
      BY <1>1, <2>1, <2>4, <3>1 DEF ConsentInv, PriorConsent
  <2>5. CASE e # p
    <3>1. device[e].status = "active" => device'[e].status = "active"
      BY <1>1, <1>5, <2>5
    <3> QED
      BY <1>1, <2>2, <2>3, <3>1
  <2> QED
    BY <2>4, <2>5
<1> QED
  BY <1>6, <1>7, <1>8

LEMMA SubscribeLockConsent ==
  ASSUME ConsentInv, NEW h \in Call, NEW op, NEW D \in SUBSET Device,
         SubscribeLock(h, op, D)
  PROVE  SubscribedActive' /\ PriorConsent' /\ ConsentEndsWithDevice'
<1>0. CallInv
  BY DEF ConsentInv
<1>1. PICK s : s = [NoCall EXCEPT
         !.pc = "write", !.op = op, !.locked = D,
         !.consents = [d \in Device |-> IF d \in D THEN consent[d]
                                        ELSE "absent"]]
  OBVIOUS
<1>2. /\ Start(h, s) /\ s.locked = D /\ s.prior = None
      /\ \A d \in D : device[d].status = "active"
  BY <1>1 DEF SubscribeLock, Deliverable, NoCall
<1>3. /\ call[h].pc = "idle" /\ call'[h] = s /\ Local
      /\ \A g \in Call : g # h => call'[g] = call[g]
  BY <1>0, <1>2, OnlyOneSteps DEF Start, Local
<1>4. SubscribedActive'
  BY <1>2, <1>3 DEF ConsentInv, SubscribedActive, Local
<1>5. PriorConsent'
  BY <1>2, <1>3 DEF ConsentInv, PriorConsent, Dropped, Local
<1>6. ConsentEndsWithDevice'
  BY <1>3 DEF ConsentInv, ConsentEndsWithDevice, Local
<1> QED
  BY <1>4, <1>5, <1>6

(* Handlers that end keep the handlers' part.                              *)
LEMMA ReturnConsent ==
  ASSUME CallInv, NEW h \in Call, Return(h)
  PROVE  /\ SubscribersGoOn /\ PriorsGoOn
         /\ \A g \in Call : g # h => call'[g] = call[g]
<1>1. NoCall.pc = "idle" /\ NoCall.prior = None
  BY DEF NoCall
<1>2. call'[h] = NoCall /\ \A g \in Call : g # h => call'[g] = call[g]
  BY OnlyOneSteps DEF Return
<1> QED
  BY <1>1, <1>2 DEF SubscribersGoOn, PriorsGoOn, Dropped

LEMMA SubscribeWriteConsent ==
  ASSUME ConsentInv, NEW h \in Call, SubscribeWrite(h)
  PROVE  SubscribedActive' /\ PriorConsent' /\ ConsentEndsWithDevice'
<1>0. CallInv
  BY DEF ConsentInv
<1>1. PICK target : target = IF call[h].op = "optIn" THEN "on" ELSE "off"
  OBVIOUS
<1>2. /\ call[h].pc = "write"
      /\ consent' = [d \in Device |->
           IF d \in call[h].locked
           THEN Picked(target, call[h].consents[d], consent[d])
           ELSE consent[d]]
      /\ leaked' = leaked \cup {d \in call[h].locked : Late(h, d)}
      /\ \A d \in call[h].locked : ConsentFree(d)
      /\ Return(h) /\ UNCHANGED <<device, torn>>
  BY <1>1 DEF SubscribeWrite
<1>3. /\ SubscribersGoOn /\ PriorsGoOn
      /\ \A g \in Call : g # h => call'[g] = call[g]
  BY <1>0, <1>2, ReturnConsent
<1>4. \A e \in Device : consent'[e] = "on" =>
        \/ consent[e] = "on"
        \/ e \in call[h].locked /\ call[h].op = "optIn"
  BY <1>1, <1>2 DEF Picked
<1>5. SubscribedActive'
  BY <1>2, <1>3 DEF ConsentInv, SubscribedActive, SubscribersGoOn
<1>6. PriorConsent'
  <2> SUFFICES ASSUME NEW g \in Call, Dropped(g)',
                      call'[g].prior \notin call'[g].revoked,
                      consent'[call'[g].prior] = "on"
               PROVE  call'[g].prior \in leaked'
    BY DEF PriorConsent
  <2>1. call'[g] = call[g] /\ Dropped(g)
    BY <1>3 DEF PriorsGoOn, Dropped
  <2>2. call[g].prior \in Device
    BY <1>0, <2>1, CallFields DEF Dropped, CallInv
  <2>3. CASE consent[call[g].prior] = "on"
    BY <1>2, <2>1, <2>3 DEF ConsentInv, PriorConsent
  <2>4. CASE call[g].prior \in call[h].locked /\ call[h].op = "optIn"
    BY <1>2, <2>1, <2>4 DEF Late, Dropped
  <2> QED
    BY <1>4, <2>1, <2>2, <2>3, <2>4
<1>7. ConsentEndsWithDevice'
  <2> SUFFICES ASSUME NEW e \in Device, consent'[e] = "on"
               PROVE  \/ device'[e].status = "active"
                      \/ e \in leaked'
                      \/ \E g \in Call : /\ call'[g].pc = "revoke"
                                         /\ call'[g].device = e
    BY DEF ConsentEndsWithDevice
  <2>1. CASE consent[e] = "on"
    <3>1. \A g \in Call : call[g].pc = "revoke" => call'[g] = call[g]
      BY <1>2, <1>3
    <3> QED
      BY <1>2, <2>1, <3>1 DEF ConsentInv, ConsentEndsWithDevice
  <2>2. CASE e \in call[h].locked /\ call[h].op = "optIn"
    BY <1>2, <2>2 DEF ConsentInv, SubscribedActive
  <2> QED
    BY <1>4, <2>1, <2>2
<1> QED
  BY <1>5, <1>6, <1>7

LEMMA AdminWriteConsent ==
  ASSUME ConsentInv, NEW h \in Call, AdminWrite(h)
  PROVE  SubscribedActive' /\ PriorConsent' /\ ConsentEndsWithDevice'
<1> DEFINE d == call[h].device
<1>0. CallInv
  BY DEF ConsentInv
<1>1. /\ call[h].pc = "write" /\ call[h].op = "adminDisable"
      /\ d \in Device /\ RowFree(d)
      /\ \A e \in Device : e # d => device'[e] = device[e]
      /\ UNCHANGED <<consent, leaked>>
  BY <1>0, AdminWriteRows
<1>2. PICK s : s = [call[h] EXCEPT !.pc = "revoke"]
  OBVIOUS
<1>3. /\ s.pc = "revoke" /\ s.op = "adminDisable" /\ s.device = d
      /\ s.prior = None
  BY <1>0, <1>1, <1>2, CallFields
     DEF CallState, CallInv, CallsWhole, Registering
<1>4. call' = [call EXCEPT ![h] = s]
  BY <1>0, <1>2, AdminWriteRows DEF CallInv, DeviceTypeOK
<1>5. call'[h] = s /\ \A g \in Call : g # h => call'[g] = call[g]
  BY <1>0, <1>4, OnlyOneSteps
<1>6. SubscribedActive'
  <2> SUFFICES ASSUME NEW g \in Call, call'[g].pc = "write",
                      call'[g].op = "optIn", NEW e \in call'[g].locked
               PROVE  device'[e].status = "active"
    BY DEF SubscribedActive
  <2>1. g # h /\ call'[g] = call[g]
    BY <1>3, <1>5
  <2>2. e \in Device /\ e # d /\ device[e].status = "active"
    BY <1>0, <1>1, <2>1, CallFields
       DEF RowFree, ConsentInv, SubscribedActive, CallInv
  <2> QED
    BY <1>1, <2>2
<1>7. PriorConsent'
  BY <1>1, <1>3, <1>5 DEF ConsentInv, PriorConsent, Dropped
<1>8. ConsentEndsWithDevice'
  BY <1>1, <1>3, <1>5 DEF ConsentInv, ConsentEndsWithDevice
<1> QED
  BY <1>6, <1>7, <1>8

(* A step that revokes one device's consent and lifts its leak, or neither,*)
(* and disables no other device.                                           *)
LEMMA RevokingKeepsConsent ==
  ASSUME ConsentInv, NEW d,
         SubscribersGoOn, PriorsGoOn,
         \A g \in Call : call[g].pc = "revoke" /\ call[g].device # d
                           => call'[g] = call[g],
         \A e \in Device : e # d => /\ device'[e] = device[e]
                                    /\ consent'[e] = consent[e],
         \A e \in Device : e # d /\ e \in leaked => e \in leaked',
         d \in Device => consent'[d] # "on",
         \/ device' = device
         \/ \A g \in Call : d \notin call[g].locked
  PROVE  SubscribedActive' /\ PriorConsent' /\ ConsentEndsWithDevice'
<1>0. CallInv
  BY DEF ConsentInv
<1>1. SubscribedActive'
  <2> SUFFICES ASSUME NEW g \in Call, call'[g].pc = "write",
                      call'[g].op = "optIn", NEW e \in call'[g].locked
               PROVE  device'[e].status = "active"
    BY DEF SubscribedActive
  <2>1. call'[g] = call[g]
    BY DEF SubscribersGoOn
  <2>2. e \in Device /\ device[e].status = "active"
    BY <1>0, <2>1, CallFields DEF ConsentInv, SubscribedActive, CallInv
  <2> QED
    BY <2>1, <2>2
<1>2. PriorConsent'
  <2> SUFFICES ASSUME NEW g \in Call, Dropped(g)'
               PROVE  \/ call'[g].prior \in call'[g].revoked
                      \/ consent'[call'[g].prior] # "on"
                      \/ call'[g].prior \in leaked'
    BY DEF PriorConsent
  <2>1. call'[g] = call[g] /\ Dropped(g)
    BY DEF PriorsGoOn, Dropped
  <2>2. call[g].prior \in Device
    BY <1>0, <2>1, CallFields DEF Dropped, CallInv
  <2> QED
    BY <2>1, <2>2 DEF ConsentInv, PriorConsent
<1>3. ConsentEndsWithDevice'
  <2> SUFFICES ASSUME NEW e \in Device, consent'[e] = "on"
               PROVE  \/ device'[e].status = "active"
                      \/ e \in leaked'
                      \/ \E g \in Call : /\ call'[g].pc = "revoke"
                                         /\ call'[g].device = e
    BY DEF ConsentEndsWithDevice
  <2>1. e # d
    OBVIOUS
  <2>2. \/ device[e].status = "active"
        \/ e \in leaked
        \/ \E g \in Call : call[g].pc = "revoke" /\ call[g].device = e
    BY <2>1 DEF ConsentInv, ConsentEndsWithDevice
  <2>3. \A g \in Call : call[g].pc = "revoke" /\ call[g].device = e
                          => call'[g] = call[g]
    BY <2>1
  <2> QED
    BY <2>1, <2>2, <2>3
<1> QED
  BY <1>1, <1>2, <1>3

LEMMA AdminConsent ==
  ASSUME ConsentInv, NEW h \in Call, AdminStep(h), ~AdminWrite(h)
  PROVE  SubscribedActive' /\ PriorConsent' /\ ConsentEndsWithDevice'
<1>0. CallInv
  BY DEF ConsentInv
<1>1. ASSUME NEW d \in Device, AdminSelect(h, d) \/ RevokeSelect(h, d)
      PROVE  SubscribedActive' /\ PriorConsent' /\ ConsentEndsWithDevice'
  <2>1. PICK s : Start(h, s) /\ s.op # "optIn" /\ s.prior = None
    <3>1. CASE AdminSelect(h, d)
      <4>1. PICK s : s = [NoCall EXCEPT !.pc = "write", !.op = "adminDisable",
                                        !.device = d, !.seen = device[d]]
        OBVIOUS
      <4>2. s.op # "optIn" /\ s.prior = None
        BY <4>1 DEF NoCall
      <4> QED
        BY <3>1, <4>1, <4>2 DEF AdminSelect
    <3>2. CASE RevokeSelect(h, d)
      <4>1. PICK s : s = [NoCall EXCEPT !.pc = "write", !.op = "adminRevoke",
                                        !.device = d,
                                        !.consents[d] = consent[d]]
        OBVIOUS
      <4>2. s.op # "optIn" /\ s.prior = None
        BY <4>1 DEF NoCall
      <4> QED
        BY <3>2, <4>1, <4>2 DEF RevokeSelect
    <3> QED
      BY <1>1, <3>1, <3>2
  <2>2. /\ call[h].pc = "idle" /\ call'[h] = s /\ Local
        /\ \A g \in Call : g # h => call'[g] = call[g]
    BY <1>0, <2>1, OnlyOneSteps DEF Start, Local
  <2>3. SubscribersGoOn /\ PriorsGoOn /\ RevokingGoesOn
    BY <2>1, <2>2 DEF SubscribersGoOn, PriorsGoOn, RevokingGoesOn, Dropped
  <2> QED
    BY <2>2, <2>3, LocalKeepsConsent
<1>2. CASE AdminRevoke(h)
  <2>1. PICK d : d = call[h].device
    OBVIOUS
  <2>2. /\ call[h].pc = "revoke" /\ d \in Device /\ Return(h)
        /\ consent' = [consent EXCEPT ![d] = Revoked(@)]
        /\ leaked' = leaked \ {d}
        /\ device' = device
    BY <1>0, <1>2, <2>1 DEF AdminRevoke, CallInv, CallsWhole
  <2>3. /\ consent'[d] # "on"
        /\ \A e \in Device : e # d => consent'[e] = consent[e]
    BY <1>0, <2>2 DEF Revoked, CallInv, DeviceTypeOK
  <2>4. /\ SubscribersGoOn /\ PriorsGoOn
        /\ \A g \in Call : g # h => call'[g] = call[g]
    BY <1>0, <2>2, ReturnConsent
  <2> QED
    BY <2>1, <2>2, <2>3, <2>4, RevokingKeepsConsent
<1>3. CASE RevokeWrite(h)
  <2>1. PICK d : d = call[h].device
    OBVIOUS
  <2>2. /\ call[h].pc = "write" /\ call[h].op = "adminRevoke" /\ d \in Device
        /\ Return(h) /\ UNCHANGED <<device, leaked>>
        /\ consent' = [consent EXCEPT ![d] =
             IF @ = "absent" THEN @
             ELSE Picked("off", call[h].consents[d], @)]
    BY <1>0, <1>3, <2>1 DEF RevokeWrite, CallInv, CallsWhole
  <2>3. \A e \in Device : consent'[e] = "on" => consent[e] = "on"
    BY <1>0, <2>2 DEF Picked, CallInv, DeviceTypeOK
  <2>4. /\ SubscribersGoOn /\ PriorsGoOn
        /\ \A g \in Call : g # h => call'[g] = call[g]
    BY <1>0, <2>2, ReturnConsent
  <2>5. SubscribedActive'
    BY <2>2, <2>4 DEF ConsentInv, SubscribedActive, SubscribersGoOn
  <2>6. \A g \in Call : Dropped(g)' => call'[g].prior \in Device
    BY <1>0, <2>4, CallFields DEF PriorsGoOn, Dropped, CallInv
  <2>7. PriorConsent'
    BY <2>2, <2>3, <2>4, <2>6 DEF ConsentInv, PriorConsent, PriorsGoOn, Dropped
  <2>8. ConsentEndsWithDevice'
    BY <2>2, <2>3, <2>4 DEF ConsentInv, ConsentEndsWithDevice
  <2> QED
    BY <2>5, <2>7, <2>8
<1> QED
  BY <1>1, <1>2, <1>3 DEF AdminStep

LEMMA DeviceStepConsent ==
  ASSUME ConsentInv, NEW d \in Device, DeviceStep(d)
  PROVE  SubscribedActive' /\ PriorConsent' /\ ConsentEndsWithDevice'
<1>0. CallInv
  BY DEF ConsentInv
<1>1. /\ RowFree(d) /\ UNCHANGED call
      /\ \A e \in Device : e # d => /\ device'[e] = device[e]
                                    /\ consent'[e] = consent[e]
      /\ leaked' = leaked \ {d}
      /\ consent'[d] # "on"
  <2>1. DisableRow(d) \/ Purge(d)
    BY DEF DeviceStep, Disable, DisableInvalidToken
  <2> QED
    BY <1>0, <2>1 DEF DisableRow, Purge, Revoked, CallInv, DeviceTypeOK
<1>2. SubscribersGoOn /\ PriorsGoOn
  BY <1>1 DEF SubscribersGoOn, PriorsGoOn
<1> QED
  BY <1>1, <1>2, RevokingKeepsConsent DEF RowFree

LEMMA CallFailsConsent ==
  ASSUME ConsentInv, NEW h \in Call, CallFails(h)
  PROVE  SubscribedActive' /\ PriorConsent' /\ ConsentEndsWithDevice'
<1>0. CallInv
  BY DEF ConsentInv
<1>1. /\ leaked' = IF call[h].pc = "revoke"
                   THEN leaked \cup {call[h].device} ELSE leaked
      /\ Return(h) /\ UNCHANGED <<device, consent, torn>>
  BY DEF CallFails
<1>2. /\ SubscribersGoOn /\ PriorsGoOn
      /\ \A g \in Call : g # h => call'[g] = call[g]
  BY <1>0, <1>1, ReturnConsent
<1>3. SubscribedActive'
  BY <1>1, <1>2 DEF ConsentInv, SubscribedActive, SubscribersGoOn
<1>4. PriorConsent'
  BY <1>1, <1>2 DEF ConsentInv, PriorConsent, PriorsGoOn, Dropped
<1>5. ConsentEndsWithDevice'
  BY <1>1, <1>2 DEF ConsentInv, ConsentEndsWithDevice
<1> QED
  BY <1>3, <1>4, <1>5

LEMMA ConsentNextKeeps ==
  ASSUME ConsentInv, [DeviceNext]_deviceVars
  PROVE  ConsentInv'
<1>0. CallInv /\ CallInv'
  BY CallNextKeeps DEF ConsentInv
<1>1. ASSUME NEW h \in Call, RegisterStep(h)
      PROVE  SubscribedActive' /\ PriorConsent' /\ ConsentEndsWithDevice'
  BY <1>1, RegisterLocalConsent, RegisterWriteConsent
<1>2. ASSUME NEW h \in Call, SubscribeStep(h)
      PROVE  SubscribedActive' /\ PriorConsent' /\ ConsentEndsWithDevice'
  <2>1. ASSUME NEW op, NEW a \in Account,
               SubscribeLock(h, op, {d \in a : Deliverable(d)})
        PROVE  SubscribedActive' /\ PriorConsent' /\ ConsentEndsWithDevice'
    <3>1. PICK D \in SUBSET Device : D = {d \in a : Deliverable(d)}
      BY AccountsAssumption
    <3> QED
      BY <2>1, <3>1, SubscribeLockConsent
  <2> QED
    BY <1>2, <2>1, SubscribeLockConsent, SubscribeWriteConsent
       DEF SubscribeStep
<1>3. ASSUME NEW h \in Call, AdminStep(h)
      PROVE  SubscribedActive' /\ PriorConsent' /\ ConsentEndsWithDevice'
  BY <1>3, AdminConsent, AdminWriteConsent
<1>4. ASSUME NEW h \in Call, CallFails(h)
      PROVE  SubscribedActive' /\ PriorConsent' /\ ConsentEndsWithDevice'
  BY <1>4, CallFailsConsent
<1>5. ASSUME NEW d \in Device, DeviceStep(d)
      PROVE  SubscribedActive' /\ PriorConsent' /\ ConsentEndsWithDevice'
  BY <1>5, DeviceStepConsent
<1>6. ASSUME UNCHANGED deviceVars
      PROVE  SubscribedActive' /\ PriorConsent' /\ ConsentEndsWithDevice'
  BY <1>6 DEF deviceVars, ConsentInv, SubscribedActive, PriorConsent,
              ConsentEndsWithDevice, Dropped
<1>7. SubscribedActive' /\ PriorConsent' /\ ConsentEndsWithDevice'
  BY <1>1, <1>2, <1>3, <1>4, <1>5, <1>6 DEF DeviceNext, CallStep
<1> QED
  BY <1>0, <1>7 DEF ConsentInv

(* Consent does not outlive its device's activity, whatever overlaps: the  *)
(* only ways out are an administrator's second write that never ran and    *)
(* consent first given while the token was moving to another device.       *)
THEOREM ConsentEndsWithDeviceHolds == DeviceSpec => []ConsentEndsWithDevice
<1>1. DeviceInit => ConsentInv
  BY CallInitial
     DEF DeviceInit, ConsentInv, SubscribedActive, PriorConsent,
         ConsentEndsWithDevice, Dropped, NoCall
<1>2. ConsentInv => ConsentEndsWithDevice
  BY DEF ConsentInv
<1> QED
  BY <1>1, <1>2, ConsentNextKeeps, PTL DEF DeviceSpec

-----------------------------------------------------------------------------
(* The workers.                                                            *)

(* A worker at work has a delivery.                                        *)
WorkersWhole ==
  \A w \in Worker : worker[w].pc # "idle" => worker[w].delivery \in Delivery

(* A worker whose claim token is on its delivery has the latest claim.     *)
ClaimsTell ==
  \A w \in Worker : worker[w].pc # "idle" /\ Owns(w) =>
    /\ delivery[worker[w].delivery].status = "processing"
    /\ delivery[worker[w].delivery].attempts = worker[w].attempts

CommitsOwn == \A w \in Worker : worker[w].pc = "commit" => Owns(w)

(* Deliveries come with their notification.                                *)
Unsent ==
  \A n \in Notification, d \in Device :
    notification[n] = "none" => delivery[<<n, d>>].status = "none"

(* The attempts that are recorded are those before the present claim.      *)
Numbered ==
  \A e \in Delivery :
    /\ delivery[e].status = "none" => recorded[e] = {}
    /\ Present(e) => \A n \in recorded[e] :
         /\ n <= delivery[e].attempts
         /\ delivery[e].status = "processing" => n < delivery[e].attempts

WorkInv == TypeOK /\ WorkersWhole /\ ClaimsTell /\ CommitsOwn /\ Unsent /\ Numbered

LEMMA NoWorkType == NoWork \in WorkerState /\ NoDelivery \in DeliveryRow
BY DEF NoWork, WorkerState, SendResult, NotificationStatus, NoDelivery,
       DeliveryRow

LEMMA WorkerFields ==
  ASSUME TypeOK, NEW w \in Worker
  PROVE  /\ worker[w] \in WorkerState
         /\ worker[w].pc \in {"idle", "claimed", "commit"}
         /\ worker[w].delivery \in Delivery \cup {None}
         /\ worker[w].attempts \in Nat
         /\ worker[w].token \in PushToken \cup {None}
         /\ worker[w].fingerprint \in PushToken \cup {None}
         /\ worker[w].result \in SendResult
         /\ worker[w].verdict \in NotificationStatus
BY DEF TypeOK, WorkerState

LEMMA DeliveryFields ==
  ASSUME TypeOK, NEW e \in Delivery
  PROVE  /\ delivery[e] \in DeliveryRow
         /\ delivery[e].status \in {"none", "pending", "processing", "retry",
                                    "delivered", "terminal", "purged"}
         /\ delivery[e].attempts \in Nat
         /\ delivery[e].claim \in Worker \cup {None}
BY DEF TypeOK, DeliveryRow

LEMMA OutcomeType ==
  ASSUME NEW result \in SendResult, NEW attempts \in Nat
  PROVE  /\ Outcome(result, attempts) \in DeliveryRow
         /\ Outcome(result, attempts).attempts = attempts
         /\ Outcome(result, attempts).status \in {"delivered", "retry",
                                                  "terminal"}
         /\ Outcome(result, attempts).claim = None
BY DEF Outcome, DeliveryRow, SendResult

LEMMA ClaimedType ==
  ASSUME NEW row \in DeliveryRow, NEW w \in Worker
  PROVE  /\ Claimed(row, w) \in DeliveryRow
         /\ Claimed(row, w).attempts = row.attempts + 1
         /\ Claimed(row, w).status = "processing"
         /\ Claimed(row, w).claim = w
<1>1. PICK n \in Nat : n = row.attempts + 1
  BY DEF DeliveryRow
<1>2. Claimed(row, w) = [row EXCEPT !.status = "processing", !.stale = FALSE,
                                    !.claim = w, !.attempts = n]
  BY <1>1 DEF Claimed
<1> QED
  BY <1>1, <1>2 DEF DeliveryRow

LEMMA VerdictType ==
  ASSUME NEW S
  PROVE  Verdict(S) \in NotificationStatus
BY DEF Verdict, NotificationStatus

-----------------------------------------------------------------------------
(* Steps of handlers and time's passing on the devices.                    *)
LEMMA ElsewhereKeeps ==
  ASSUME WorkInv, UNCHANGED deliveryVars
  PROVE  WorkInv'
BY DEF WorkInv, deliveryVars, TypeOK, WorkersWhole, ClaimsTell, CommitsOwn,
       Unsent, Numbered, Owns, Present

(* A worker drops what it does.                                            *)
LEMMA DropWorkKeeps ==
  ASSUME WorkInv, NEW w \in Worker, Work(w, NoWork),
         UNCHANGED <<notification, delivery, recorded, overlapped>>
  PROVE  WorkInv'
<1>1. /\ worker'[w] = NoWork
      /\ \A v \in Worker : v # w => worker'[v] = worker[v]
      /\ worker' \in [Worker -> WorkerState]
  BY NoWorkType DEF Work, WorkInv, TypeOK
<1>2. NoWork.pc = "idle"
  BY DEF NoWork
<1>3. TypeOK'
  BY <1>1 DEF WorkInv, TypeOK
<1>4. WorkersWhole' /\ ClaimsTell' /\ CommitsOwn'
  BY <1>1, <1>2 DEF WorkInv, WorkersWhole, ClaimsTell, CommitsOwn, Owns
<1>5. Unsent' /\ Numbered'
  BY DEF WorkInv, Unsent, Numbered, Present
<1> QED
  BY <1>3, <1>4, <1>5 DEF WorkInv

LEMMA SendKeeps ==
  ASSUME WorkInv, NEW n \in Notification, NEW D \in SUBSET Device, Send(n, D)
  PROVE  WorkInv'
<1>1. PICK r : r = [NoDelivery EXCEPT !.status = "pending", !.due = TRUE]
  OBVIOUS
<1>2. r \in DeliveryRow /\ r.status = "pending" /\ r.attempts = 0
  BY <1>1, NoWorkType DEF NoDelivery, DeliveryRow
<1>3. /\ notification[n] = "none"
      /\ notification' = [notification EXCEPT ![n] = "accepted"]
      /\ delivery' = [e \in Delivery |->
           IF e[1] = n /\ e[2] \in D THEN r ELSE delivery[e]]
      /\ UNCHANGED <<worker, recorded, overlapped>>
  BY <1>1 DEF Send
<1>4. TypeOK'
  BY <1>2, <1>3 DEF WorkInv, TypeOK, NotificationStatus
<1>5. \A e \in Delivery : e[1] = n => delivery[e].status = "none"
  BY <1>3 DEF WorkInv, Unsent, Delivery
<1>6. \A e \in Delivery : delivery[e].status # "none"
                           => delivery'[e] = delivery[e]
  BY <1>3, <1>5
<1>7. WorkersWhole'
  BY <1>3 DEF WorkInv, WorkersWhole
<1>8. \A v \in Worker : worker[v].pc # "idle" /\ Owns(v)
        => delivery'[worker[v].delivery] = delivery[worker[v].delivery]
  BY <1>6 DEF WorkInv, WorkersWhole, ClaimsTell
<1>9. CommitsOwn'
  BY <1>3, <1>8 DEF WorkInv, CommitsOwn, Owns
<1>10. ClaimsTell'
  <2>1. \A v \in Worker : worker[v].pc # "idle" /\ Owns(v)' => Owns(v)
    <3>1. r.claim = None
      BY <1>1, NoWorkType DEF NoDelivery
    <3>2. \A e \in Delivery, v \in Worker :
            delivery'[e].claim = v => delivery[e].claim = v
      BY <1>3, <3>1, NoneIsNoWorker
    <3> QED
      BY <1>3, <3>2 DEF Owns, WorkInv, WorkersWhole
  <2> QED
    BY <1>3, <1>8, <2>1 DEF WorkInv, ClaimsTell
<1>11. Unsent'
  BY <1>3 DEF WorkInv, Unsent, Delivery, TypeOK
<1>12. Numbered'
  BY <1>2, <1>3, <1>5 DEF WorkInv, Numbered, Present
<1> QED
  BY <1>4, <1>7, <1>9, <1>10, <1>11, <1>12 DEF WorkInv

LEMMA ClaimKeeps ==
  ASSUME WorkInv, CallInv, NEW w \in Worker, NEW e \in Delivery, Claim(w, e)
  PROVE  WorkInv'
<1>1. PICK r : r = Claimed(delivery[e], w)
  OBVIOUS
<1>2. /\ r \in DeliveryRow /\ r.status = "processing" /\ r.claim = w
      /\ r.attempts = delivery[e].attempts + 1
  BY <1>1, ClaimedType, DeliveryFields DEF WorkInv
<1>3. PICK s : s = [NoWork EXCEPT !.pc = "claimed", !.delivery = e,
                !.attempts = r.attempts,
                !.token = IF Deliverable(e[2]) THEN device[e[2]].token
                          ELSE None,
                !.fingerprint = device[e[2]].fingerprint]
  OBVIOUS
<1>4. device[e[2]] \in Row /\ r.attempts \in Nat
  BY <1>2 DEF CallInv, DeviceTypeOK, Delivery, DeliveryRow
<1>5. /\ device[e[2]].token \in PushToken \cup {None}
      /\ device[e[2]].fingerprint \in PushToken \cup {None}
  BY <1>4 DEF Row
<1>6. /\ s \in WorkerState /\ s.pc = "claimed" /\ s.delivery = e
      /\ s.attempts = r.attempts
  BY <1>3, <1>4, <1>5, NoWorkType DEF WorkerState, NoWork
<1>7. /\ ~Locked(e)
      /\ delivery[e].status \in {"pending", "retry", "processing"}
      /\ delivery' = [delivery EXCEPT ![e] = r]
      /\ worker' = [worker EXCEPT ![w] = s]
      /\ UNCHANGED <<notification, recorded, overlapped>>
  BY <1>1, <1>3 DEF Claim, Claimable, Work
<1>8. /\ delivery'[e] = r /\ worker'[w] = s
      /\ \A f \in Delivery : f # e => delivery'[f] = delivery[f]
      /\ \A v \in Worker : v # w => worker'[v] = worker[v]
  BY <1>7 DEF WorkInv, TypeOK
<1>9. TypeOK'
  BY <1>2, <1>6, <1>7 DEF WorkInv, TypeOK
<1>10. WorkersWhole'
  BY <1>6, <1>8 DEF WorkInv, WorkersWhole
<1>11. ClaimsTell'
  BY <1>2, <1>6, <1>8 DEF WorkInv, WorkersWhole, ClaimsTell, Owns
<1>12. CommitsOwn'
  BY <1>6, <1>7, <1>8 DEF WorkInv, WorkersWhole, CommitsOwn, Owns, Locked
<1>13. Unsent'
  BY <1>7, <1>8 DEF WorkInv, Unsent, Delivery
<1>14. Numbered'
  <2> SUFFICES ASSUME NEW f \in Delivery
               PROVE  /\ delivery'[f].status = "none" => recorded'[f] = {}
                      /\ Present(f)' => \A n \in recorded'[f] :
                           /\ n <= delivery'[f].attempts
                           /\ delivery'[f].status = "processing"
                                => n < delivery'[f].attempts
    BY DEF Numbered
  <2>1. CASE f # e
    BY <1>7, <1>8, <2>1 DEF WorkInv, Numbered, Present
  <2>2. CASE f = e
    <3>1. /\ Present(e) /\ delivery[e].attempts \in Nat
          /\ recorded[e] \subseteq Nat
      BY <1>7, DeliveryFields DEF Present, WorkInv, TypeOK
    <3>2. \A n \in recorded[e] : n < r.attempts /\ n <= r.attempts
      BY <1>2, <3>1 DEF WorkInv, Numbered
    <3> QED
      BY <1>2, <1>7, <1>8, <2>2, <3>2
  <2> QED
    BY <2>1, <2>2
<1> QED
  BY <1>9, <1>10, <1>11, <1>12, <1>13, <1>14 DEF WorkInv

LEMMA RecordKeeps ==
  ASSUME WorkInv, NEW w \in Worker, NEW result \in SendResult,
         Record(w, result)
  PROVE  WorkInv'
<1>1. PICK v : v = Verdict(Counted(worker[w].delivery,
                     Outcome(result, worker[w].attempts).status))
  OBVIOUS
<1>2. v \in NotificationStatus
  BY <1>1, VerdictType
<1>3. PICK s : s = [worker[w] EXCEPT !.pc = "commit", !.result = result,
                                     !.verdict = v]
  OBVIOUS
<1>4. /\ s \in WorkerState /\ s.pc = "commit"
      /\ s.delivery = worker[w].delivery /\ s.attempts = worker[w].attempts
  BY <1>2, <1>3, WorkerFields DEF WorkInv, WorkerState
<1>5. /\ worker[w].pc = "claimed" /\ Owns(w)
      /\ worker' = [worker EXCEPT ![w].pc = "commit", ![w].result = result,
                                  ![w].verdict = v]
      /\ UNCHANGED <<notification, delivery, recorded>>
  BY <1>1 DEF Record
<1>6. worker' = [worker EXCEPT ![w] = s]
  BY <1>3, <1>5 DEF WorkInv, TypeOK
<1>7. /\ worker'[w] = s
      /\ \A u \in Worker : u # w => worker'[u] = worker[u]
  BY <1>6 DEF WorkInv, TypeOK
<1>8. overlapped' \subseteq Notification
  BY <1>5 DEF Record, WorkInv, TypeOK, WorkersWhole, Delivery
<1>9. TypeOK'
  BY <1>4, <1>5, <1>6, <1>8, ZenonT(60) DEF WorkInv, TypeOK
<1>10. \A u \in Worker : /\ worker'[u].delivery = worker[u].delivery
                         /\ worker'[u].attempts = worker[u].attempts
                         /\ Owns(u)' <=> Owns(u)
                         /\ u # w => worker'[u].pc = worker[u].pc
  BY <1>4, <1>5, <1>7 DEF Owns
<1>11. WorkersWhole'
  BY <1>5, <1>10 DEF WorkInv, WorkersWhole
<1>12. ClaimsTell'
  <2> SUFFICES ASSUME NEW u \in Worker, worker'[u].pc # "idle", Owns(u)'
               PROVE  /\ delivery'[worker'[u].delivery].status = "processing"
                      /\ delivery'[worker'[u].delivery].attempts
                           = worker'[u].attempts
    BY DEF ClaimsTell
  <2>1. worker[u].pc # "idle" /\ Owns(u)
    BY <1>5, <1>10
  <2>2. /\ delivery[worker[u].delivery].status = "processing"
        /\ delivery[worker[u].delivery].attempts = worker[u].attempts
    BY <2>1 DEF WorkInv, ClaimsTell
  <2> QED
    BY <1>5, <1>10, <2>2
<1>13. CommitsOwn'
  BY <1>5, <1>10 DEF WorkInv, CommitsOwn
<1>14. Unsent' /\ Numbered'
  BY <1>5 DEF WorkInv, Unsent, Numbered, Present
<1> QED
  BY <1>9, <1>11, <1>12, <1>13, <1>14 DEF WorkInv

(* A worker that commits has the last word on its delivery.                *)
LEMMA CommitRows ==
  ASSUME WorkInv, NEW w \in Worker, NEW e, e = worker[w].delivery, Commit(w)
  PROVE  /\ e \in Delivery
         /\ delivery[e].status = "processing"
         /\ delivery[e].attempts = worker[w].attempts
         /\ delivery[e].claim = w
         /\ delivery'[e] = Outcome(worker[w].result, worker[w].attempts)
         /\ delivery'[e] \in DeliveryRow
         /\ \A f \in Delivery : f # e => delivery'[f] = delivery[f]
         /\ recorded'[e] = recorded[e] \cup {worker[w].attempts}
         /\ \A f \in Delivery : f # e => recorded'[f] = recorded[f]
         /\ worker[w].attempts \notin recorded[e]
<1>1. /\ worker[w].pc = "commit"
      /\ delivery' = [delivery EXCEPT
           ![e] = Outcome(worker[w].result, worker[w].attempts)]
      /\ recorded' = [recorded EXCEPT ![e] = @ \cup {worker[w].attempts}]
  BY DEF Commit
<1>2. /\ e \in Delivery
      /\ delivery[e].status = "processing"
      /\ delivery[e].attempts = worker[w].attempts
      /\ delivery[e].claim = w
  BY <1>1 DEF WorkInv, WorkersWhole, ClaimsTell, CommitsOwn, Owns
<1>3. Outcome(worker[w].result, worker[w].attempts) \in DeliveryRow
  BY WorkerFields, OutcomeType DEF WorkInv
<1>4. worker[w].attempts \in Nat /\ recorded[e] \subseteq Nat
  BY <1>2, WorkerFields DEF WorkInv, TypeOK
<1>5. \A n \in recorded[e] : n < worker[w].attempts
  BY <1>2 DEF WorkInv, Numbered, Present
<1>6. worker[w].attempts \notin recorded[e]
  BY <1>4, <1>5
<1> QED
  BY <1>1, <1>2, <1>3, <1>6 DEF WorkInv, TypeOK

LEMMA CommitKeeps ==
  ASSUME WorkInv, NEW w \in Worker, Commit(w)
  PROVE  WorkInv'
<1>1. PICK e : e = worker[w].delivery
  OBVIOUS
<1>2. PICK a \in Nat : a = worker[w].attempts
  BY WorkerFields DEF WorkInv
<1>3. PICK r : r = Outcome(worker[w].result, a)
  OBVIOUS
<1>4. /\ r.attempts = a /\ r.claim = None
      /\ r.status \in {"delivered", "retry", "terminal"}
  BY <1>2, <1>3, OutcomeType, WorkerFields DEF WorkInv
<1>5. /\ e \in Delivery /\ delivery[e].status = "processing"
      /\ delivery[e].attempts = a
      /\ delivery'[e] = r /\ r \in DeliveryRow
      /\ \A f \in Delivery : f # e => delivery'[f] = delivery[f]
      /\ recorded'[e] = recorded[e] \cup {a}
      /\ \A f \in Delivery : f # e => recorded'[f] = recorded[f]
  BY <1>1, <1>2, <1>3, CommitRows
<1>6. /\ delivery' = [delivery EXCEPT ![e] = r]
      /\ recorded' = [recorded EXCEPT ![e] = @ \cup {a}]
      /\ Work(w, NoWork)
      /\ notification' = IF worker[w].verdict = "none" THEN notification
                         ELSE [notification EXCEPT ![e[1]] = worker[w].verdict]
      /\ UNCHANGED overlapped
  BY <1>1, <1>2, <1>3 DEF Commit
<1>7. /\ worker'[w] = NoWork
      /\ \A v \in Worker : v # w => worker'[v] = worker[v]
      /\ worker' \in [Worker -> WorkerState]
      /\ NoWork.pc = "idle"
  BY <1>6, NoWorkType DEF Work, WorkInv, TypeOK, NoWork
<1>8. notification' \in [Notification -> NotificationStatus]
  BY <1>6, WorkerFields DEF WorkInv, TypeOK
<1>9. TypeOK'
  BY <1>2, <1>5, <1>6, <1>7, <1>8 DEF WorkInv, TypeOK
<1>10. WorkersWhole'
  BY <1>7 DEF WorkInv, WorkersWhole
<1>11. ClaimsTell'
  BY <1>4, <1>5, <1>7, NoneIsNoWorker
     DEF WorkInv, WorkersWhole, ClaimsTell, Owns
<1>12. CommitsOwn'
  <2> SUFFICES ASSUME NEW v \in Worker, worker'[v].pc = "commit"
               PROVE  Owns(v)'
    BY DEF CommitsOwn
  <2>1. v # w /\ worker'[v] = worker[v] /\ Owns(v)
    BY <1>7 DEF WorkInv, CommitsOwn
  <2>2. worker[v].delivery # e
    BY <1>1, <2>1, CommitRows DEF Owns
  <2> QED
    BY <1>5, <2>1, <2>2 DEF Owns, WorkInv, WorkersWhole
<1>13. Unsent'
  <2> SUFFICES ASSUME NEW n \in Notification, NEW d \in Device,
                      notification'[n] = "none"
               PROVE  delivery'[<<n, d>>].status = "none"
    BY DEF Unsent
  <2>1. notification[n] = "none"
    BY <1>6 DEF WorkInv, TypeOK
  <2>2. delivery[<<n, d>>].status = "none" /\ <<n, d>> \in Delivery
    BY <2>1 DEF WorkInv, Unsent, Delivery
  <2> QED
    BY <1>5, <2>2
<1>14. Numbered'
  <2> SUFFICES ASSUME NEW f \in Delivery
               PROVE  /\ delivery'[f].status = "none" => recorded'[f] = {}
                      /\ Present(f)' => \A n \in recorded'[f] :
                           /\ n <= delivery'[f].attempts
                           /\ delivery'[f].status = "processing"
                                => n < delivery'[f].attempts
    BY DEF Numbered
  <2>1. CASE f # e
    BY <1>5, <2>1 DEF WorkInv, Numbered, Present
  <2>2. CASE f = e
    <3>1. \A n \in recorded[e] : n <= a
      BY <1>5 DEF WorkInv, Numbered, Present
    <3>2. \A n \in recorded[e] \cup {a} : n <= a
      BY <1>2, <3>1
    <3> QED
      BY <1>4, <1>5, <2>2, <3>2
  <2> QED
    BY <2>1, <2>2
<1> QED
  BY <1>9, <1>10, <1>11, <1>12, <1>13, <1>14 DEF WorkInv

(* Time makes a claimable delivery of what is not settled.                 *)
LEMMA TimeKeeps ==
  ASSUME WorkInv, NEW e \in Delivery, BecomeDue(e) \/ BecomeStale(e)
  PROVE  WorkInv'
<1>1. PICK r : r = IF BecomeDue(e) THEN [delivery[e] EXCEPT !.due = TRUE]
                  ELSE [delivery[e] EXCEPT !.stale = TRUE]
  OBVIOUS
<1>2. UNCHANGED <<notification, worker, recorded, overlapped>>
  BY DEF BecomeDue, BecomeStale
<1>3. /\ r \in DeliveryRow /\ delivery' = [delivery EXCEPT ![e] = r]
      /\ r.status = delivery[e].status /\ r.claim = delivery[e].claim
      /\ r.attempts = delivery[e].attempts
  <2>1. delivery[e] \in DeliveryRow
    BY DEF WorkInv, TypeOK
  <2>2. /\ r \in DeliveryRow
        /\ r.status = delivery[e].status /\ r.claim = delivery[e].claim
        /\ r.attempts = delivery[e].attempts
    BY <1>1, <2>1 DEF DeliveryRow
  <2>3. delivery' = [delivery EXCEPT ![e] = r]
    BY <1>1 DEF BecomeDue, BecomeStale
  <2> QED
    BY <2>2, <2>3
<1>4. TypeOK'
  BY <1>2, <1>3 DEF WorkInv, TypeOK
<1>5. \A f \in Delivery : /\ delivery'[f].status = delivery[f].status
                          /\ delivery'[f].claim = delivery[f].claim
                          /\ delivery'[f].attempts = delivery[f].attempts
  BY <1>3 DEF WorkInv, TypeOK
<1>6. WorkersWhole'
  BY <1>2 DEF WorkInv, WorkersWhole
<1>7. ClaimsTell'
  BY <1>2, <1>5 DEF WorkInv, WorkersWhole, ClaimsTell, Owns
<1>8. CommitsOwn'
  BY <1>2, <1>5 DEF WorkInv, WorkersWhole, CommitsOwn, Owns
<1>9. Unsent'
  BY <1>2, <1>5 DEF WorkInv, Unsent, Delivery
<1>10. Numbered'
  BY <1>2, <1>5 DEF WorkInv, Numbered, Present
<1> QED
  BY <1>4, <1>6, <1>7, <1>8, <1>9, <1>10 DEF WorkInv

LEMMA PurgeDeviceKeeps ==
  ASSUME WorkInv, NEW d \in Device, PurgeDevice(d)
  PROVE  WorkInv'
<1>1. PICK r : r = [NoDelivery EXCEPT !.status = "purged"]
  OBVIOUS
<1>2. /\ r \in DeliveryRow /\ r.status = "purged" /\ r.claim = None
  BY <1>1, NoWorkType DEF NoDelivery, DeliveryRow
<1>3. /\ \A e \in Delivery : e[2] = d => ~Locked(e)
      /\ delivery' = [e \in Delivery |->
           IF e[2] = d /\ Present(e) THEN r ELSE delivery[e]]
      /\ UNCHANGED <<notification, worker, recorded, overlapped>>
  BY <1>1 DEF PurgeDevice
<1>4. \A e \in Delivery :
        \/ delivery'[e] = delivery[e]
        \/ delivery'[e] = r /\ e[2] = d /\ Present(e)
  BY <1>3
<1>5. TypeOK'
  BY <1>2, <1>3 DEF WorkInv, TypeOK
<1>6. WorkersWhole'
  BY <1>3 DEF WorkInv, WorkersWhole
<1>7. ClaimsTell'
  BY <1>2, <1>3, <1>4, NoneIsNoWorker
     DEF WorkInv, WorkersWhole, ClaimsTell, Owns
<1>8. CommitsOwn'
  BY <1>3, <1>4 DEF WorkInv, WorkersWhole, CommitsOwn, Owns, Locked
<1>9. Unsent'
  BY <1>3, <1>4 DEF WorkInv, Unsent, Delivery, Present
<1>10. Numbered'
  BY <1>2, <1>3, <1>4 DEF WorkInv, Numbered, Present
<1> QED
  BY <1>5, <1>6, <1>7, <1>8, <1>9, <1>10 DEF WorkInv

LEMMA WorkInitial == Init => WorkInv
<1> SUFFICES ASSUME Init PROVE WorkInv
  OBVIOUS
<1>1. TypeOK
  BY NoWorkType DEF Init, TypeOK, NotificationStatus
<1>2. WorkersWhole /\ ClaimsTell /\ CommitsOwn
  BY DEF Init, NoWork, WorkersWhole, ClaimsTell, CommitsOwn
<1>3. Unsent /\ Numbered
  BY DEF Init, NoDelivery, Unsent, Numbered, Present, Delivery
<1> QED
  BY <1>1, <1>2, <1>3 DEF WorkInv

LEMMA WorkNextKeeps ==
  ASSUME WorkInv, CallInv, [Next]_vars
  PROVE  WorkInv'
<1>1. ASSUME NEW w \in Worker, WorkerStep(w) \/ WorkerFails(w) PROVE WorkInv'
  BY <1>1, DropWorkKeeps, RecordKeeps, CommitKeeps
     DEF WorkerStep, Disowned, WorkerFails
<1>2. ASSUME NEW w \in Worker, NEW e \in Delivery, Claim(w, e) PROVE WorkInv'
  BY <1>2, ClaimKeeps
<1>3. ASSUME NEW e \in Delivery, BecomeDue(e) \/ BecomeStale(e) PROVE WorkInv'
  BY <1>3, TimeKeeps
<1>4. ASSUME NEW n \in Notification, NEW D \in SUBSET Device, Send(n, D)
      PROVE  WorkInv'
  BY <1>4, SendKeeps
<1>5. ASSUME NEW d \in Device, PurgeDevice(d) PROVE WorkInv'
  BY <1>5, PurgeDeviceKeeps
<1>6. ASSUME DeviceAction \/ UNCHANGED vars PROVE WorkInv'
  BY <1>6, ElsewhereKeeps DEF DeviceAction, vars
<1> QED
  BY <1>1, <1>2, <1>3, <1>4, <1>5, <1>6 DEF Next

-----------------------------------------------------------------------------
(* The devices do not notice the deliveries: a step of the whole is a step *)
(* of NotificationDevices or leaves its variables alone.  The rejection    *)
(* of a token is the one that recordResult asks for.                       *)
LEMMA DevicesStep ==
  ASSUME WorkInv, [Next]_vars
  PROVE  [DeviceNext]_deviceVars
<1>1. ASSUME NEW w \in Worker, Commit(w) PROVE [DeviceNext]_deviceVars
  <2>1. PICK e \in Delivery : e = worker[w].delivery
    BY <1>1 DEF Commit, WorkInv, WorkersWhole
  <2>2. PICK d \in Device : d = e[2]
    BY DEF Delivery
  <2>3. PICK t \in PushToken \cup {None} : t = worker[w].fingerprint
    BY WorkerFields DEF WorkInv
  <2>4. CASE Rejects(w)
    <3>1. t \in PushToken /\ HoldsToken(d, t)
      BY <2>1, <2>2, <2>3, <2>4 DEF Rejects
    <3>2. DisableRow(d)
      BY <1>1, <2>1, <2>2, <2>4 DEF Commit
    <3> QED
      BY <3>1, <3>2 DEF DisableInvalidToken, DeviceStep, DeviceNext
  <2>5. CASE ~Rejects(w)
    BY <1>1, <2>5 DEF Commit
  <2> QED
    BY <2>4, <2>5
<1>2. ASSUME NEW w \in Worker,
             Disowned(w) \/ (\E result \in SendResult : Record(w, result))
               \/ WorkerFails(w)
      PROVE  UNCHANGED deviceVars
  BY <1>2 DEF Disowned, Record, WorkerFails
<1>3. ASSUME NEW w \in Worker, NEW e \in Delivery, Claim(w, e)
      PROVE  UNCHANGED deviceVars
  BY <1>3 DEF Claim
<1>4. ASSUME NEW e \in Delivery, BecomeDue(e) \/ BecomeStale(e)
      PROVE  UNCHANGED deviceVars
  BY <1>4 DEF BecomeDue, BecomeStale
<1>5. ASSUME NEW n \in Notification, NEW D \in SUBSET Device, Send(n, D)
      PROVE  UNCHANGED deviceVars
  BY <1>5 DEF Send
<1>6. ASSUME NEW d \in Device, PurgeDevice(d) PROVE DeviceNext
  BY <1>6 DEF PurgeDevice, DeviceNext, DeviceStep
<1>7. ASSUME DeviceAction PROVE DeviceNext
  BY <1>7 DEF DeviceAction, DeviceNext, DeviceStep
<1>8. ASSUME UNCHANGED vars PROVE UNCHANGED deviceVars
  BY <1>8 DEF vars
<1> QED
  BY <1>1, <1>2, <1>3, <1>4, <1>5, <1>6, <1>7, <1>8 DEF Next, WorkerStep

-----------------------------------------------------------------------------
LEMMA DeliveryRun == Spec => [](WorkInv /\ CallInv)
<1>1. Init => WorkInv /\ CallInv
  BY WorkInitial, CallInitial DEF Init
<1>2. WorkInv /\ CallInv /\ [Next]_vars => (WorkInv /\ CallInv)'
  BY WorkNextKeeps, DevicesStep, CallNextKeeps
<1> QED
  BY <1>1, <1>2, PTL DEF Spec

(* Rows and workers keep their types: every result of an attempt leaves a  *)
(* status that some reader of notification_deliveries knows.               *)
THEOREM TypeCorrect == Spec => []TypeOK
<1>1. WorkInv => TypeOK
  BY DEF WorkInv
<1> QED
  BY <1>1, DeliveryRun, PTL

(* The devices under the delivery worker are those of NotificationDevices, *)
(* whose theorems hold of the whole: the worker touches a device only by   *)
(* disableInvalidToken.                                                    *)
THEOREM ImplementsDevices == Spec => DeviceSpec
<1>1. Init => DeviceInit
  BY DEF Init
<1>2. WorkInv /\ [Next]_vars => [DeviceNext]_deviceVars
  BY DevicesStep
<1> QED
  BY <1>1, <1>2, DeliveryRun, PTL DEF Spec, DeviceSpec

(* An attempt is recorded under a number of its own: a claim counts before *)
(* it sends, and only the holder of the latest claim records.              *)
THEOREM AttemptNumbersUniqueHolds == Spec => []AttemptNumbersUnique
<1>1. WorkInv => AttemptNumbersUnique
  <2> SUFFICES ASSUME WorkInv, NEW w \in Worker, worker[w].pc = "commit"
               PROVE  worker[w].attempts \notin recorded[worker[w].delivery]
    BY DEF AttemptNumbersUnique
  <2>1. PICK e \in Delivery : e = worker[w].delivery
    BY DEF WorkInv, WorkersWhole
  <2>2. PICK a \in Nat : a = worker[w].attempts
    BY WorkerFields DEF WorkInv
  <2>3. /\ delivery[e].status = "processing"
        /\ delivery[e].attempts = a
    BY <2>1, <2>2 DEF WorkInv, CommitsOwn, ClaimsTell
  <2>4. recorded[e] \subseteq Nat /\ \A n \in recorded[e] : n < a
    BY <2>3 DEF WorkInv, TypeOK, Numbered, Present
  <2>5. a \notin recorded[e]
    BY <2>2, <2>4
  <2> QED
    BY <2>1, <2>2, <2>5
<1> QED
  BY <1>1, DeliveryRun, PTL

(* A settled delivery is not claimed again, and a worker that commits has  *)
(* the delivery in processing: it stays settled until it is purged.        *)
THEOREM SettledStaysHolds == Spec => SettledStays
<1> DEFINE Keeps(e) == delivery'[e] = delivery[e]
                         \/ delivery'[e].status = "purged"
<1>1. ASSUME WorkInv, [Next]_vars, NEW e \in Delivery,
             Settled(delivery[e].status)
      PROVE  Keeps(e)
  <2>1. delivery[e].status \in {"delivered", "terminal"}
    BY <1>1 DEF Settled
  <2>2. ASSUME NEW w \in Worker, Commit(w) PROVE Keeps(e)
    BY <1>1, <2>1, <2>2, CommitRows
  <2>3. ASSUME NEW w \in Worker,
               Disowned(w) \/ (\E result \in SendResult : Record(w, result))
                 \/ WorkerFails(w)
        PROVE  Keeps(e)
    BY <2>3 DEF Disowned, Record, WorkerFails
  <2>4. ASSUME NEW w \in Worker, NEW f \in Delivery, Claim(w, f)
        PROVE  Keeps(e)
    <3>1. f # e /\ delivery' = [delivery EXCEPT ![f] = Claimed(@, w)]
      BY <2>1, <2>4 DEF Claim, Claimable
    <3> QED
      BY <1>1, <3>1 DEF WorkInv, TypeOK
  <2>5. ASSUME NEW f \in Delivery, BecomeDue(f) \/ BecomeStale(f)
        PROVE  Keeps(e)
    <3>1. f # e
      BY <2>1, <2>5 DEF BecomeDue, BecomeStale
    <3> QED
      BY <1>1, <2>5, <3>1 DEF BecomeDue, BecomeStale, WorkInv, TypeOK
  <2>6. ASSUME NEW n \in Notification, NEW D \in SUBSET Device, Send(n, D)
        PROVE  Keeps(e)
    <3>1. notification[n] = "none"
      BY <2>6 DEF Send
    <3>2. e[1] # n
      BY <1>1, <2>1, <3>1 DEF WorkInv, Unsent, Delivery
    <3> QED
      BY <2>6, <3>2 DEF Send
  <2>7. ASSUME NEW d \in Device, PurgeDevice(d) PROVE Keeps(e)
    BY <2>7 DEF PurgeDevice, NoDelivery
  <2>8. ASSUME DeviceAction \/ UNCHANGED vars PROVE Keeps(e)
    BY <2>8 DEF DeviceAction, vars, deliveryVars
  <2> QED
    BY <1>1, <2>2, <2>3, <2>4, <2>5, <2>6, <2>7, <2>8 DEF Next, WorkerStep
<1>2. WorkInv /\ [Next]_vars =>
        [\A e \in Delivery : Settled(delivery[e].status) =>
           delivery'[e] = delivery[e] \/ delivery'[e].status = "purged"]_vars
  BY <1>1
<1> QED
  BY <1>2, DeliveryRun, PTL DEF Spec, SettledStays

-----------------------------------------------------------------------------
(* A push is addressed to the token whose fingerprint the claim noted, and *)
(* without a token there is no push that could be rejected.                *)
Aims ==
  \A w \in Worker : worker[w].pc # "idle" =>
    /\ worker[w].token # None /\ worker[w].fingerprint # None
         => worker[w].token = worker[w].fingerprint
    /\ worker[w].pc = "commit" /\ worker[w].token = None
         => worker[w].result = "terminal"

AimInv == WorkInv /\ WholeInv /\ MatchInv /\ Aims

LEMMA ClaimAims ==
  ASSUME AimInv, NEW w \in Worker, NEW e \in Delivery, Claim(w, e)
  PROVE  Aims'
<1>1. PICK s : s = [NoWork EXCEPT !.pc = "claimed", !.delivery = e,
                !.attempts = Claimed(delivery[e], w).attempts,
                !.token = IF Deliverable(e[2]) THEN device[e[2]].token
                          ELSE None,
                !.fingerprint = device[e[2]].fingerprint]
  OBVIOUS
<1>2. s.pc = "claimed" /\ s.fingerprint = device[e[2]].fingerprint
      /\ s.token \in {device[e[2]].token, None}
  BY <1>1 DEF NoWork
<1>3. e[2] \in Device
  BY DEF Delivery
<1>4. s.token # None /\ s.fingerprint # None => s.token = s.fingerprint
  BY <1>2, <1>3 DEF AimInv, MatchInv, Matched
<1>5. worker' = [worker EXCEPT ![w] = s]
  BY <1>1 DEF Claim, Work
<1>6. worker'[w] = s /\ \A v \in Worker : v # w => worker'[v] = worker[v]
  BY <1>5 DEF AimInv, WorkInv, TypeOK
<1> QED
  BY <1>2, <1>4, <1>6 DEF AimInv, Aims

LEMMA RecordAims ==
  ASSUME AimInv, NEW w \in Worker, NEW result \in SendResult,
         Record(w, result)
  PROVE  Aims'
<1>1. PICK v : v = Verdict(Counted(worker[w].delivery,
                     Outcome(result, worker[w].attempts).status))
  OBVIOUS
<1>2. PICK s : s = [worker[w] EXCEPT !.pc = "commit", !.result = result,
                                     !.verdict = v]
  OBVIOUS
<1>3. /\ worker[w].pc = "claimed"
      /\ worker[w].token = None => result = "terminal"
      /\ worker' = [worker EXCEPT ![w].pc = "commit", ![w].result = result,
                                  ![w].verdict = v]
  BY <1>1 DEF Record
<1>4. worker' = [worker EXCEPT ![w] = s]
  BY <1>2, <1>3 DEF AimInv, WorkInv, TypeOK
<1>5. worker'[w] = s /\ \A u \in Worker : u # w => worker'[u] = worker[u]
  BY <1>4 DEF AimInv, WorkInv, TypeOK
<1>6. /\ s.token = worker[w].token /\ s.fingerprint = worker[w].fingerprint
      /\ s.result = result
  BY <1>2, WorkerFields DEF AimInv, WorkInv, WorkerState
<1>7. worker[w].token # None /\ worker[w].fingerprint # None
        => worker[w].token = worker[w].fingerprint
  BY <1>3 DEF AimInv, Aims
<1> SUFFICES ASSUME NEW u \in Worker, worker'[u].pc # "idle"
             PROVE  /\ worker'[u].token # None /\ worker'[u].fingerprint # None
                         => worker'[u].token = worker'[u].fingerprint
                    /\ worker'[u].pc = "commit" /\ worker'[u].token = None
                         => worker'[u].result = "terminal"
  BY DEF Aims
<1>8. CASE u = w
  BY <1>3, <1>5, <1>6, <1>7, <1>8
<1>9. CASE u # w
  BY <1>5, <1>9 DEF AimInv, Aims
<1> QED
  BY <1>8, <1>9

LEMMA DropWorkAims ==
  ASSUME AimInv, NEW w \in Worker, Work(w, NoWork)
  PROVE  Aims'
<1>1. worker'[w].pc = "idle"
      /\ \A v \in Worker : v # w => worker'[v] = worker[v]
  BY DEF Work, NoWork, AimInv, WorkInv, TypeOK
<1> QED
  BY <1>1 DEF AimInv, Aims

LEMMA AimNextKeeps ==
  ASSUME AimInv, [Next]_vars
  PROVE  AimInv'
<1>1. WorkInv' /\ WholeInv' /\ MatchInv'
  BY WorkNextKeeps, DevicesStep, WholeNextKeeps, MatchNextKeeps
     DEF AimInv, WholeInv
<1>2. ASSUME NEW w \in Worker, WorkerStep(w) \/ WorkerFails(w) PROVE Aims'
  BY <1>2, DropWorkAims, RecordAims
     DEF WorkerStep, Disowned, WorkerFails, Commit
<1>3. ASSUME UNCHANGED worker PROVE Aims'
  BY <1>3 DEF AimInv, Aims
<1>4. Aims'
  BY <1>2, <1>3, ClaimAims
     DEF Next, BecomeDue, BecomeStale, Send, PurgeDevice, DeviceAction, vars,
         deliveryVars
<1> QED
  BY <1>1, <1>4 DEF AimInv

(* The commit of a rejection, on a device whose row is whole.              *)
LEMMA RejectionHits ==
  ASSUME AimInv, NEW w \in Worker, Commit(w),
         worker[w].result = "invalid_token", worker[w].fingerprint # None,
         NEW d, d = worker[w].delivery[2], d \notin torn
  PROVE  IF device[d].token = worker[w].token
         THEN device'[d] = Disabled ELSE device'[d] = device[d]
<1>1. /\ worker[w].pc = "commit" /\ d \in Device
  BY DEF Commit, AimInv, WorkInv, WorkersWhole, Delivery
<1>2. PICK t : t = worker[w].fingerprint /\ t # None /\ worker[w].token = t
  BY <1>1 DEF AimInv, Aims
<1>3. device[d].fingerprint = device[d].token
      /\ (device[d].status = "active" <=> device[d].token # None)
  BY <1>1 DEF AimInv, WholeInv, WholeRows
<1>4. Rejects(w) <=> device[d].token = worker[w].token
  BY <1>2, <1>3 DEF Rejects, HoldsToken
<1>5. CASE Rejects(w)
  <2>1. device' = [device EXCEPT ![d] = Disabled]
    BY <1>5 DEF Commit, DisableRow
  <2> QED
    BY <1>1, <1>4, <1>5, <2>1 DEF AimInv, MatchInv, CallInv, DeviceTypeOK
<1>6. CASE ~Rejects(w)
  BY <1>4, <1>6 DEF Commit, deviceVars
<1> QED
  BY <1>5, <1>6

(* A rejection that arrives late, when the device has another token or has *)
(* given its own to another device, hits nothing; one that arrives in time *)
(* disables the device whose token it was.  Exempt are devices whose row a *)
(* save has torn.                                                          *)
THEOREM RejectionHitsItsTokenHolds == Spec => RejectionHitsItsToken
<1> DEFINE Hits == \A w \in Worker :
       worker[w].pc = "commit" /\ worker[w].result = "invalid_token"
         /\ worker[w].fingerprint # None /\ recorded' # recorded
         /\ worker'[w].pc = "idle"
       => LET d == worker[w].delivery[2] IN
          d \in torn \/
            IF device[d].token = worker[w].token
            THEN device'[d] = Disabled ELSE device'[d] = device[d]
<1>1. AimInv /\ [Next]_vars => [Hits]_vars
  <2> SUFFICES ASSUME AimInv, Next, NEW w \in Worker,
                      worker[w].pc = "commit", recorded' # recorded,
                      worker'[w].pc = "idle"
               PROVE  Commit(w)
    BY RejectionHits
  <2>1. PICK v \in Worker : Commit(v)
    BY DEF Next, WorkerStep, Disowned, Record, WorkerFails, Claim, BecomeDue,
           BecomeStale, Send, PurgeDevice, DeviceAction, deliveryVars
  <2>2. v # w => worker'[w] = worker[w]
    BY <2>1 DEF Commit, Work, AimInv, WorkInv, TypeOK
  <2> QED
    BY <2>1, <2>2
<1>2. Init => AimInv
  <2>1. Init => WorkInv /\ CallInv /\ MatchInv
    BY WorkInitial, CallInitial, MatchInitial DEF Init
  <2>2. Init => WholeRows /\ Aims
    BY DEF Init, DeviceInit, WholeRows, NoRow, Aims, NoWork
  <2> QED
    BY <2>1, <2>2 DEF AimInv, WholeInv
<1> QED
  BY <1>1, <1>2, AimNextKeeps, PTL DEF Spec, RejectionHitsItsToken

-----------------------------------------------------------------------------
(* Lemmas about Verdict.                                                   *)
LEMMA VerdictOpen ==
  ASSUME NEW S
  PROVE  Verdict(S) = "none" <=> \E e \in DOMAIN S : ~Settled(S[e])
BY DEF Verdict, Settled

(* Statuses that are not settled are alike to it.                          *)
LEMMA VerdictAlike ==
  ASSUME NEW S, NEW T, DOMAIN S = DOMAIN T,
         \A e \in DOMAIN S : \/ S[e] = T[e]
                             \/ ~Settled(S[e]) /\ ~Settled(T[e])
  PROVE  Verdict(S) = Verdict(T)
<1>1. CASE \E e \in DOMAIN S : ~Settled(S[e])
  <2>1. \E e \in DOMAIN T : ~Settled(T[e])
    BY <1>1
  <2> QED
    BY <1>1, <2>1, VerdictOpen
<1>2. CASE \A e \in DOMAIN S : Settled(S[e])
  <2>1. \A e \in DOMAIN S : S[e] = T[e]
    BY <1>2
  <2> QED
    BY <2>1 DEF Verdict
<1> QED
  BY <1>1, <1>2

-----------------------------------------------------------------------------
(* No device has taken its delivery of n along.                            *)
Kept(n) == \A d \in Device : delivery[<<n, d>>].status # "purged"

(* What w's transaction has made of the statuses, as they are now.         *)
Count(w) == Counted(worker[w].delivery,
                    Outcome(worker[w].result, worker[w].attempts).status)

(* Two transactions on one notification are known to overlap.              *)
OverlapsKnown ==
  \A v, w \in Worker :
    v # w /\ worker[v].pc = "commit" /\ worker[w].pc = "commit"
      /\ worker[v].delivery[1] = worker[w].delivery[1]
    => worker[v].delivery[1] \in overlapped

(* A verdict that is about to be written is still right; one that was not  *)
(* reached is still out of reach, unless another transaction overlaps.     *)
VerdictsHold ==
  \A w \in Worker : worker[w].pc = "commit" /\ Kept(worker[w].delivery[1]) =>
    /\ worker[w].verdict # "none" => worker[w].verdict = Verdict(Count(w))
    /\ worker[w].verdict = "none" /\ worker[w].delivery[1] \notin overlapped
         => Verdict(Count(w)) = "none"

(* The part of StatusFollowsDeliveries about n.                            *)
Follows(n) ==
  notification[n] # "none" /\ Kept(n)
    => \/ Verdict(Statuses(n)) = "none" /\ notification[n] = "accepted"
       \/ /\ Verdict(Statuses(n)) # "none"
          /\ notification[n] = Verdict(Statuses(n))
       \/ n \in overlapped /\ notification[n] = "accepted"

StatusInv ==
  /\ WorkInv
  /\ OverlapsKnown
  /\ VerdictsHold
  /\ \A n \in Notification : Follows(n)

LEMMA FollowsAll ==
  StatusFollowsDeliveries <=> \A n \in Notification : Follows(n)
BY DEF StatusFollowsDeliveries, Follows, Kept

(* A step that settles no delivery of n and adds none.                     *)
AlikeStep(n) ==
  Kept(n)' =>
    /\ Kept(n)
    /\ \A e \in Delivery : e[1] = n =>
         /\ Present(e)' <=> Present(e)
         /\ \/ delivery'[e].status = delivery[e].status
            \/ ~Settled(delivery'[e].status) /\ ~Settled(delivery[e].status)

LEMMA AlikeStatuses ==
  ASSUME NEW n \in Notification, AlikeStep(n), Kept(n)'
  PROVE  /\ Kept(n)
         /\ DeliveriesOf(n)' = DeliveriesOf(n)
         /\ Verdict(Statuses(n))' = Verdict(Statuses(n))
<1>1. DeliveriesOf(n)' = DeliveriesOf(n)
  BY DEF AlikeStep, DeliveriesOf
<1>2. \A e \in DeliveriesOf(n) :
        \/ delivery'[e].status = delivery[e].status
        \/ ~Settled(delivery'[e].status) /\ ~Settled(delivery[e].status)
  BY DEF AlikeStep, DeliveriesOf
<1>3. PICK S : S = Statuses(n)
  OBVIOUS
<1>4. PICK T : T = Statuses(n)'
  OBVIOUS
<1>5. /\ DOMAIN S = DeliveriesOf(n) /\ DOMAIN T = DeliveriesOf(n)
      /\ \A e \in DeliveriesOf(n) : /\ S[e] = delivery[e].status
                                    /\ T[e] = delivery'[e].status
  BY <1>1, <1>3, <1>4 DEF Statuses
<1>6. Verdict(S) = Verdict(T)
  <2>1. \A e \in DOMAIN S : \/ S[e] = T[e]
                            \/ ~Settled(S[e]) /\ ~Settled(T[e])
    BY <1>2, <1>5
  <2>2. DOMAIN S = DOMAIN T
    BY <1>5
  <2> QED
    BY <2>1, <2>2, VerdictAlike
<1>7. Verdict(Statuses(n))' = Verdict(T)
  BY <1>4 DEF Verdict
<1> QED
  BY <1>1, <1>3, <1>6, <1>7 DEF AlikeStep

LEMMA AlikeCounts ==
  ASSUME NEW e \in Delivery, NEW status, NEW n \in Notification, n = e[1],
         AlikeStep(n), Kept(n)'
  PROVE  Verdict(Counted(e, status)') = Verdict(Counted(e, status))
<1>1. DeliveriesOf(n)' = DeliveriesOf(n)
  BY AlikeStatuses
<1>2. \A f \in DeliveriesOf(n) :
        \/ delivery'[f].status = delivery[f].status
        \/ ~Settled(delivery'[f].status) /\ ~Settled(delivery[f].status)
  BY DEF AlikeStep, DeliveriesOf
<1>3. PICK S : S = Counted(e, status)
  OBVIOUS
<1>4. PICK T : T = Counted(e, status)'
  OBVIOUS
<1>5. /\ DOMAIN S = DeliveriesOf(n)
      /\ \A f \in DeliveriesOf(n) :
           S[f] = IF f = e THEN status ELSE delivery[f].status
  BY <1>3 DEF Counted, Statuses
<1>6. /\ DOMAIN T = DeliveriesOf(n)
      /\ \A f \in DeliveriesOf(n) :
           T[f] = IF f = e THEN status ELSE delivery'[f].status
  BY <1>1, <1>4 DEF Counted, Statuses
<1>7. Verdict(S) = Verdict(T)
  <2>1. \A f \in DOMAIN S : \/ S[f] = T[f]
                            \/ ~Settled(S[f]) /\ ~Settled(T[f])
    BY <1>2, <1>5, <1>6
  <2>2. DOMAIN S = DOMAIN T
    BY <1>5, <1>6
  <2> QED
    BY <2>1, <2>2, VerdictAlike
<1> QED
  BY <1>3, <1>4, <1>7

(* A worker that goes on with what it does keeps its part of VerdictsHold. *)
LEMMA GoingOnHolds ==
  ASSUME StatusInv, NEW w \in Worker, worker[w].pc = "commit",
         worker'[w] = worker[w], overlapped \subseteq overlapped',
         NEW n \in Notification, n = worker[w].delivery[1],
         AlikeStep(n), Kept(n)'
  PROVE  /\ worker'[w].verdict # "none"
              => worker'[w].verdict = Verdict(Count(w)')
         /\ worker'[w].verdict = "none" /\ n \notin overlapped'
              => Verdict(Count(w)') = "none"
<1>1. PICK e \in Delivery : e = worker[w].delivery
  BY DEF StatusInv, WorkInv, WorkersWhole
<1>2. PICK s : s = Outcome(worker[w].result, worker[w].attempts).status
  OBVIOUS
<1>3. Verdict(Counted(e, s)') = Verdict(Counted(e, s))
  BY <1>1, AlikeCounts
<1>4. Count(w) = Counted(e, s)
  BY <1>1, <1>2 DEF Count
<1>5. Count(w)' = Counted(e, s)'
  BY <1>1, <1>2 DEF Count
<1>6. Kept(n)
  BY AlikeStatuses
<1>7. /\ worker[w].verdict # "none" => worker[w].verdict = Verdict(Count(w))
      /\ worker[w].verdict = "none" /\ n \notin overlapped
           => Verdict(Count(w)) = "none"
  BY <1>6 DEF StatusInv, VerdictsHold
<1> QED
  BY <1>3, <1>4, <1>5, <1>7

LEMMA AlikeFollows ==
  ASSUME StatusInv, NEW n \in Notification, AlikeStep(n),
         notification'[n] = notification[n], overlapped \subseteq overlapped'
  PROVE  Follows(n)'
<1> SUFFICES ASSUME notification'[n] # "none", Kept(n)'
             PROVE  \/ /\ Verdict(Statuses(n)') = "none"
                       /\ notification'[n] = "accepted"
                    \/ /\ Verdict(Statuses(n)') # "none"
                       /\ notification'[n] = Verdict(Statuses(n)')
                    \/ n \in overlapped' /\ notification'[n] = "accepted"
  BY DEF Follows
<1>1. Kept(n) /\ Verdict(Statuses(n)') = Verdict(Statuses(n))
  BY AlikeStatuses
<1> QED
  BY <1>1 DEF StatusInv, Follows

(* The steps that settle nothing: no worker is about to commit that was    *)
(* not, and none that was has changed.                                     *)
LEMMA AlikeKeeps ==
  ASSUME StatusInv, \A n \in Notification : AlikeStep(n),
         UNCHANGED <<notification, overlapped>>,
         \A w \in Worker : worker'[w].pc = "commit" => worker'[w] = worker[w]
  PROVE  OverlapsKnown' /\ VerdictsHold' /\ \A n \in Notification : Follows(n)'
<1>1. OverlapsKnown'
  BY DEF StatusInv, OverlapsKnown
<1>2. \A n \in Notification : Follows(n)'
  BY AlikeFollows
<1>3. VerdictsHold'
  <2> SUFFICES ASSUME NEW w \in Worker, worker'[w].pc = "commit",
                      Kept(worker[w].delivery[1])'
               PROVE  /\ worker'[w].verdict # "none"
                           => worker'[w].verdict = Verdict(Count(w)')
                      /\ worker'[w].verdict = "none"
                           /\ worker'[w].delivery[1] \notin overlapped'
                           => Verdict(Count(w)') = "none"
    BY DEF VerdictsHold
  <2>1. worker'[w] = worker[w] /\ worker[w].pc = "commit"
    OBVIOUS
  <2>2. PICK n \in Notification : n = worker[w].delivery[1]
    BY <2>1 DEF StatusInv, WorkInv, WorkersWhole, Delivery
  <2>3. Kept(n)'
    BY <2>1, <2>2 DEF Kept
  <2> QED
    BY <2>1, <2>2, <2>3, GoingOnHolds
<1> QED
  BY <1>1, <1>2, <1>3

LEMMA SameAlike ==
  ASSUME UNCHANGED delivery
  PROVE  \A n \in Notification : AlikeStep(n)
BY DEF AlikeStep, Kept, Present

LEMMA ClaimAlike ==
  ASSUME WorkInv, NEW w \in Worker, NEW e \in Delivery, Claim(w, e)
  PROVE  /\ \A n \in Notification : AlikeStep(n)
         /\ \A v \in Worker : worker'[v].pc = "commit" => worker'[v] = worker[v]
<1>1. PICK r : r = Claimed(delivery[e], w)
  OBVIOUS
<1>2. r.status = "processing"
  BY <1>1, ClaimedType, DeliveryFields DEF WorkInv
<1>3. /\ delivery[e].status \in {"pending", "retry", "processing"}
      /\ delivery' = [delivery EXCEPT ![e] = r]
  BY <1>1 DEF Claim, Claimable
<1>4. delivery'[e] = r /\ \A f \in Delivery : f # e => delivery'[f] = delivery[f]
  BY <1>3 DEF WorkInv, TypeOK
<1>5. \A n \in Notification : AlikeStep(n)
  BY <1>2, <1>3, <1>4 DEF AlikeStep, Kept, Present, Settled, Delivery
<1>6. PICK s : s = [NoWork EXCEPT !.pc = "claimed", !.delivery = e,
                !.attempts = Claimed(delivery[e], w).attempts,
                !.token = IF Deliverable(e[2]) THEN device[e[2]].token
                          ELSE None,
                !.fingerprint = device[e[2]].fingerprint]
  OBVIOUS
<1>7. s.pc = "claimed" /\ worker' = [worker EXCEPT ![w] = s]
  BY <1>6 DEF Claim, Work, NoWork
<1>8. worker'[w] = s /\ \A v \in Worker : v # w => worker'[v] = worker[v]
  BY <1>7 DEF WorkInv, TypeOK
<1> QED
  BY <1>5, <1>7, <1>8

LEMMA TimeAlike ==
  ASSUME WorkInv, NEW e \in Delivery, BecomeDue(e) \/ BecomeStale(e)
  PROVE  \A n \in Notification : AlikeStep(n)
<1>1. PICK r : r = IF BecomeDue(e) THEN [delivery[e] EXCEPT !.due = TRUE]
                  ELSE [delivery[e] EXCEPT !.stale = TRUE]
  OBVIOUS
<1>2. r.status = delivery[e].status
  BY <1>1, DeliveryFields DEF WorkInv, DeliveryRow
<1>3. delivery' = [delivery EXCEPT ![e] = r]
  BY <1>1 DEF BecomeDue, BecomeStale
<1>4. \A f \in Delivery : delivery'[f].status = delivery[f].status
  BY <1>2, <1>3 DEF WorkInv, TypeOK
<1> QED
  BY <1>4 DEF AlikeStep, Kept, Present, Delivery

(* What takes a delivery along leaves its notification out of the claim.   *)
LEMMA PurgeDeviceAlike ==
  ASSUME WorkInv, NEW d \in Device, PurgeDevice(d)
  PROVE  \A n \in Notification : AlikeStep(n)
<1>1. PICK r : r = [NoDelivery EXCEPT !.status = "purged"]
  OBVIOUS
<1>2. r.status = "purged"
  BY <1>1 DEF NoDelivery
<1>3. delivery' = [e \in Delivery |->
         IF e[2] = d /\ Present(e) THEN r ELSE delivery[e]]
  BY <1>1 DEF PurgeDevice
<1>4. \A e \in Delivery : \/ delivery'[e] = delivery[e]
                          \/ delivery'[e].status = "purged"
  BY <1>2, <1>3
<1>5. \A e \in Delivery : delivery[e].status = "purged"
                            => delivery'[e] = delivery[e]
  BY <1>3 DEF Present
<1>6. \A n \in Notification : Kept(n)' => \A e \in Delivery : e[1] = n =>
        delivery'[e] = delivery[e]
  BY <1>4 DEF Kept, Delivery
<1> QED
  BY <1>5, <1>6 DEF AlikeStep, Kept, Present, Delivery

(* A transaction begins: what it counts is what it will leave behind, as   *)
(* long as no other transaction settles a delivery in between.             *)
LEMMA RecordStatus ==
  ASSUME StatusInv, NEW w \in Worker, NEW result \in SendResult,
         Record(w, result)
  PROVE  OverlapsKnown' /\ VerdictsHold' /\ \A n \in Notification : Follows(n)'
<1>0. WorkInv
  BY DEF StatusInv
<1>1. PICK e \in Delivery : e = worker[w].delivery
  BY <1>0 DEF Record, WorkInv, WorkersWhole
<1>2. PICK new : new = Outcome(result, worker[w].attempts).status
  OBVIOUS
<1>3. PICK v : v = Verdict(Counted(e, new))
  OBVIOUS
<1>4. PICK s : s = [worker[w] EXCEPT !.pc = "commit", !.result = result,
                                     !.verdict = v]
  OBVIOUS
<1>5. /\ s.pc = "commit" /\ s.result = result /\ s.verdict = v
      /\ s.delivery = e /\ s.attempts = worker[w].attempts
  BY <1>0, <1>1, <1>4, WorkerFields DEF WorkInv, WorkerState
<1>6. /\ worker[w].pc = "claimed" /\ delivery[e].claim = w
      /\ worker' = [worker EXCEPT ![w].pc = "commit", ![w].result = result,
                                  ![w].verdict = v]
      /\ overlapped' =
           IF \E f \in Delivery : f # e /\ f[1] = e[1] /\ Locked(f)
           THEN overlapped \cup {e[1]} ELSE overlapped
      /\ UNCHANGED <<notification, delivery>>
  BY <1>1, <1>2, <1>3 DEF Record, Owns
<1>7. worker' = [worker EXCEPT ![w] = s]
  BY <1>0, <1>4, <1>6 DEF WorkInv, TypeOK
<1>8. worker'[w] = s /\ \A u \in Worker : u # w => worker'[u] = worker[u]
  BY <1>0, <1>7 DEF WorkInv, TypeOK
<1>9. \A n \in Notification : AlikeStep(n)
  BY <1>6, SameAlike
<1>10. overlapped \subseteq overlapped'
  BY <1>6
<1>11. \A n \in Notification : Follows(n)'
  BY <1>6, <1>9, <1>10, AlikeFollows
<1>12. ASSUME NEW u \in Worker, u # w, worker[u].pc = "commit",
              worker[u].delivery[1] = e[1]
       PROVE  e[1] \in overlapped'
  <2>1. /\ worker[u].delivery \in Delivery
        /\ delivery[worker[u].delivery].claim = u
    BY <1>0, <1>12 DEF WorkInv, WorkersWhole, CommitsOwn, Owns
  <2>2. worker[u].delivery # e /\ Locked(worker[u].delivery)
    BY <1>6, <1>12, <2>1 DEF Locked
  <2> QED
    BY <1>6, <1>12, <2>1, <2>2
<1>13. OverlapsKnown'
  <2> SUFFICES ASSUME NEW u \in Worker, NEW x \in Worker, u # x,
                      worker'[u].pc = "commit", worker'[x].pc = "commit",
                      worker'[u].delivery[1] = worker'[x].delivery[1]
               PROVE  worker'[u].delivery[1] \in overlapped'
    BY DEF OverlapsKnown
  <2>1. CASE u # w /\ x # w
    BY <1>8, <1>10, <2>1 DEF StatusInv, OverlapsKnown
  <2>2. CASE u = w \/ x = w
    BY <1>5, <1>8, <1>12, <2>2
  <2> QED
    BY <2>1, <2>2
<1>14. VerdictsHold'
  <2> SUFFICES ASSUME NEW u \in Worker, worker'[u].pc = "commit",
                      Kept(worker[u].delivery[1])'
               PROVE  /\ worker'[u].verdict # "none"
                           => worker'[u].verdict = Verdict(Count(u)')
                      /\ worker'[u].verdict = "none"
                           /\ worker'[u].delivery[1] \notin overlapped'
                           => Verdict(Count(u)') = "none"
    BY DEF VerdictsHold
  <2>1. CASE u # w
    <3>1. worker'[u] = worker[u] /\ worker[u].pc = "commit"
      BY <1>8, <2>1
    <3>2. PICK n \in Notification : n = worker[u].delivery[1]
      BY <1>0, <3>1 DEF WorkInv, WorkersWhole, Delivery
    <3>3. Kept(n)'
      BY <3>1, <3>2 DEF Kept
    <3> QED
      BY <1>9, <1>10, <3>1, <3>2, <3>3, GoingOnHolds
  <2>2. CASE u = w
    <3>1. Count(u)' = Counted(e, new)'
      BY <1>2, <1>5, <1>8, <2>2 DEF Count
    <3>2. Counted(e, new)' = Counted(e, new)
      BY <1>6 DEF Counted, Statuses, DeliveriesOf, Present
    <3> QED
      BY <1>3, <1>5, <1>8, <2>2, <3>1, <3>2
  <2> QED
    BY <2>1, <2>2
<1> QED
  BY <1>11, <1>13, <1>14

(* A transaction ends: its notification's status is what it counted.  One  *)
(* that overlaps with it counted its delivery as open, so has no verdict.  *)
LEMMA CommitStatus ==
  ASSUME StatusInv, NEW w \in Worker, Commit(w)
  PROVE  OverlapsKnown' /\ VerdictsHold' /\ \A n \in Notification : Follows(n)'
<1>0. WorkInv
  BY DEF StatusInv
<1>1. PICK e \in Delivery : e = worker[w].delivery
  BY <1>0 DEF Commit, WorkInv, WorkersWhole
<1>2. PICK new : new = Outcome(worker[w].result, worker[w].attempts).status
  OBVIOUS
<1>3. PICK n \in Notification : n = e[1]
  BY DEF Delivery
<1>4. new \in {"delivered", "retry", "terminal"}
  BY <1>0, <1>2, OutcomeType, WorkerFields DEF WorkInv
<1>5. /\ delivery[e].status = "processing" /\ delivery[e].claim = w
      /\ delivery'[e].status = new
      /\ \A f \in Delivery : f # e => delivery'[f] = delivery[f]
  BY <1>0, <1>1, <1>2, CommitRows
<1>6. /\ worker[w].pc = "commit" /\ Work(w, NoWork) /\ UNCHANGED overlapped
      /\ notification' = IF worker[w].verdict = "none" THEN notification
                         ELSE [notification EXCEPT ![n] = worker[w].verdict]
  BY <1>1, <1>3 DEF Commit
<1>7. /\ worker'[w].pc = "idle"
      /\ \A u \in Worker : u # w => worker'[u] = worker[u]
  BY <1>0, <1>6 DEF Work, NoWork, WorkInv, TypeOK
<1>8. \A m \in Notification : m # n =>
        notification'[m] = notification[m] /\ AlikeStep(m)
  <2>1. \A m \in Notification : m # n => AlikeStep(m)
    BY <1>3, <1>5 DEF AlikeStep, Kept, Present, Delivery
  <2> QED
    BY <1>0, <1>6, <2>1 DEF WorkInv, TypeOK
<1>9. Kept(n)' => Kept(n)
  BY <1>5 DEF Kept, Delivery
<1>10. Statuses(n)' = Counted(e, new)
  <2>1. DeliveriesOf(n)' = DeliveriesOf(n) /\ e \in DeliveriesOf(n)
    BY <1>3, <1>4, <1>5 DEF DeliveriesOf, Present
  <2> QED
    BY <1>3, <1>5, <2>1 DEF Statuses, Counted, DeliveriesOf
<1>11. Counted(e, new) = Count(w)
  BY <1>1, <1>2 DEF Count
<1>12. Kept(n) => notification[n] = "accepted"
  <2>1. e \in DeliveriesOf(n) /\ ~Settled(delivery[e].status)
    BY <1>3, <1>5 DEF DeliveriesOf, Present, Settled
  <2>2. PICK S : S = Statuses(n)
    OBVIOUS
  <2>3. e \in DOMAIN S /\ ~Settled(S[e])
    BY <2>1, <2>2 DEF Statuses
  <2>4. Verdict(Statuses(n)) = "none"
    BY <2>2, <2>3, VerdictOpen
  <2>5. notification[n] # "none"
    BY <1>0, <1>3, <1>5 DEF WorkInv, Unsent, Delivery
  <2> QED
    BY <2>4, <2>5 DEF StatusInv, Follows
<1>13. Follows(n)'
  <2> SUFFICES ASSUME Kept(n)'
               PROVE  \/ /\ Verdict(Statuses(n)') = "none"
                         /\ notification'[n] = "accepted"
                      \/ /\ Verdict(Statuses(n)') # "none"
                         /\ notification'[n] = Verdict(Statuses(n)')
                      \/ n \in overlapped' /\ notification'[n] = "accepted"
    BY DEF Follows
  <2>1. /\ worker[w].verdict # "none"
             => worker[w].verdict = Verdict(Statuses(n)')
        /\ worker[w].verdict = "none" /\ n \notin overlapped
             => Verdict(Statuses(n)') = "none"
    BY <1>1, <1>3, <1>6, <1>9, <1>10, <1>11 DEF StatusInv, VerdictsHold
  <2>2. notification'[n] = IF worker[w].verdict = "none" THEN "accepted"
                           ELSE worker[w].verdict
    BY <1>0, <1>6, <1>9, <1>12 DEF WorkInv, TypeOK
  <2> QED
    BY <1>6, <2>1, <2>2
<1>14. \A m \in Notification : Follows(m)'
  BY <1>6, <1>8, <1>13, AlikeFollows
<1>15. OverlapsKnown'
  BY <1>6, <1>7 DEF StatusInv, OverlapsKnown
<1>16. VerdictsHold'
  <2> SUFFICES ASSUME NEW u \in Worker, worker'[u].pc = "commit",
                      Kept(worker[u].delivery[1])'
               PROVE  /\ worker'[u].verdict # "none"
                           => worker'[u].verdict = Verdict(Count(u)')
                      /\ worker'[u].verdict = "none"
                           /\ worker'[u].delivery[1] \notin overlapped'
                           => Verdict(Count(u)') = "none"
    BY DEF VerdictsHold
  <2>1. u # w /\ worker'[u] = worker[u] /\ worker[u].pc = "commit"
    BY <1>7
  <2>2. PICK f \in Delivery : f = worker[u].delivery
    BY <1>0, <2>1 DEF WorkInv, WorkersWhole
  <2>3. CASE f[1] # n
    <3>1. PICK m \in Notification : m = f[1]
      BY DEF Delivery
    <3>2. Kept(m)' /\ AlikeStep(m)
      BY <1>8, <2>1, <2>2, <2>3, <3>1 DEF Kept
    <3> QED
      BY <1>6, <2>1, <2>2, <3>1, <3>2, GoingOnHolds
  <2>4. CASE f[1] = n
    <3>1. n \in overlapped
      BY <1>1, <1>3, <1>6, <2>1, <2>2, <2>4 DEF StatusInv, OverlapsKnown
    <3>2. f # e
      BY <1>0, <1>5, <2>1, <2>2 DEF WorkInv, CommitsOwn, Owns
    <3>3. Kept(n)
      BY <1>9, <2>1, <2>2, <2>4 DEF Kept
    <3>4. PICK S : S = Count(u)
      OBVIOUS
    <3>5. e \in DOMAIN S /\ S[e] = "processing"
      BY <1>3, <1>5, <2>2, <2>4, <3>2, <3>4
         DEF Count, Counted, Statuses, DeliveriesOf, Present
    <3>6. Verdict(Count(u)) = "none"
      BY <3>4, <3>5, VerdictOpen DEF Settled
    <3>7. worker[u].verdict = "none"
      BY <2>1, <2>2, <2>4, <3>3, <3>6 DEF StatusInv, VerdictsHold
    <3> QED
      BY <1>6, <2>1, <2>2, <2>4, <3>1, <3>7
  <2> QED
    BY <2>3, <2>4
<1> QED
  BY <1>14, <1>15, <1>16

(* A notification is sent with every delivery open.                        *)
LEMMA SendStatus ==
  ASSUME StatusInv, NEW n \in Notification, NEW D \in SUBSET Device, Send(n, D)
  PROVE  OverlapsKnown' /\ VerdictsHold' /\ \A m \in Notification : Follows(m)'
<1>0. WorkInv
  BY DEF StatusInv
<1>1. PICK r : r = [NoDelivery EXCEPT !.status = "pending", !.due = TRUE]
  OBVIOUS
<1>2. r.status = "pending"
  BY <1>1 DEF NoDelivery
<1>3. /\ notification[n] = "none"
      /\ notification' = [notification EXCEPT ![n] = "accepted"]
      /\ delivery' = [e \in Delivery |->
           IF e[1] = n /\ e[2] \in D THEN r ELSE delivery[e]]
      /\ UNCHANGED <<worker, overlapped>>
  BY <1>1 DEF Send
<1>4. \A m \in Notification : m # n =>
        notification'[m] = notification[m] /\ AlikeStep(m)
  <2>1. \A e \in Delivery : e[1] # n => delivery'[e] = delivery[e]
    BY <1>3
  <2>2. \A m \in Notification : m # n => AlikeStep(m)
    BY <2>1 DEF AlikeStep, Kept, Present, Delivery
  <2> QED
    BY <1>0, <1>3, <2>2 DEF WorkInv, TypeOK
<1>5. Follows(n)'
  <2>1. PICK d \in D : TRUE
    BY DEF Send
  <2>2. PICK e \in Delivery : e = <<n, d>>
    BY DEF Delivery
  <2>3. delivery'[e].status = "pending"
    BY <1>2, <1>3, <2>2
  <2>4. PICK S : S = Statuses(n)'
    OBVIOUS
  <2>5. e \in DOMAIN S /\ S[e] = "pending"
    BY <2>2, <2>3, <2>4 DEF Statuses, DeliveriesOf, Present
  <2>6. Verdict(Statuses(n)') = "none"
    BY <2>4, <2>5, VerdictOpen DEF Settled
  <2>7. notification'[n] = "accepted"
    BY <1>0, <1>3 DEF WorkInv, TypeOK
  <2> QED
    BY <2>6, <2>7 DEF Follows
<1>6. \A m \in Notification : Follows(m)'
  BY <1>3, <1>4, <1>5, AlikeFollows
<1>7. OverlapsKnown'
  BY <1>3 DEF StatusInv, OverlapsKnown
<1>8. VerdictsHold'
  <2> SUFFICES ASSUME NEW u \in Worker, worker'[u].pc = "commit",
                      Kept(worker[u].delivery[1])'
               PROVE  /\ worker'[u].verdict # "none"
                           => worker'[u].verdict = Verdict(Count(u)')
                      /\ worker'[u].verdict = "none"
                           /\ worker'[u].delivery[1] \notin overlapped'
                           => Verdict(Count(u)') = "none"
    BY DEF VerdictsHold
  <2>1. worker'[u] = worker[u] /\ worker[u].pc = "commit"
    BY <1>3
  <2>2. PICK f \in Delivery : f = worker[u].delivery
    BY <1>0, <2>1 DEF WorkInv, WorkersWhole
  <2>3. PICK m \in Notification : m = f[1]
    BY DEF Delivery
  <2>4. delivery[f].status = "processing"
    BY <1>0, <2>1, <2>2 DEF WorkInv, CommitsOwn, ClaimsTell
  <2>5. m # n
    BY <1>0, <1>3, <2>3, <2>4 DEF WorkInv, Unsent, Delivery
  <2>6. Kept(m)' /\ AlikeStep(m)
    BY <1>4, <2>1, <2>2, <2>3, <2>5 DEF Kept
  <2> QED
    BY <1>3, <2>1, <2>2, <2>3, <2>6, GoingOnHolds
<1> QED
  BY <1>6, <1>7, <1>8

LEMMA StatusNextKeeps ==
  ASSUME StatusInv, CallInv, [Next]_vars
  PROVE  StatusInv'
<1> DEFINE Goal == OverlapsKnown' /\ VerdictsHold'
                     /\ \A n \in Notification : Follows(n)'
<1>0. WorkInv /\ WorkInv'
  BY WorkNextKeeps DEF StatusInv
<1>1. ASSUME NEW w \in Worker, Disowned(w) \/ WorkerFails(w) PROVE Goal
  <2>1. /\ Work(w, NoWork)
        /\ UNCHANGED <<notification, delivery, overlapped>>
    BY <1>1 DEF Disowned, WorkerFails
  <2>2. \A v \in Worker : worker'[v].pc = "commit" => worker'[v] = worker[v]
    BY <1>0, <2>1 DEF Work, NoWork, WorkInv, TypeOK
  <2> QED
    BY <2>1, <2>2, SameAlike, AlikeKeeps
<1>2. ASSUME NEW w \in Worker, NEW e \in Delivery, Claim(w, e) PROVE Goal
  <2>1. UNCHANGED <<notification, overlapped>>
    BY <1>2 DEF Claim
  <2> QED
    BY <1>0, <1>2, <2>1, ClaimAlike, AlikeKeeps
<1>3. ASSUME NEW e \in Delivery, BecomeDue(e) \/ BecomeStale(e) PROVE Goal
  <2>1. UNCHANGED <<notification, worker, overlapped>>
    BY <1>3 DEF BecomeDue, BecomeStale
  <2> QED
    BY <1>0, <1>3, <2>1, TimeAlike, AlikeKeeps
<1>4. ASSUME NEW d \in Device, PurgeDevice(d) PROVE Goal
  <2>1. UNCHANGED <<notification, worker, overlapped>>
    BY <1>4 DEF PurgeDevice
  <2> QED
    BY <1>0, <1>4, <2>1, PurgeDeviceAlike, AlikeKeeps
<1>5. ASSUME DeviceAction \/ UNCHANGED vars PROVE Goal
  <2>1. UNCHANGED <<notification, delivery, worker, overlapped>>
    BY <1>5 DEF DeviceAction, vars, deliveryVars
  <2> QED
    BY <2>1, SameAlike, AlikeKeeps
<1>6. Goal
  BY <1>1, <1>2, <1>3, <1>4, <1>5, RecordStatus, CommitStatus, SendStatus
     DEF Next, WorkerStep
<1> QED
  BY <1>0, <1>6 DEF StatusInv

(* A reader of a notification's status learns what has become of its       *)
(* deliveries: "accepted" means that one is open, a verdict that none is,  *)
(* whichever of them.  That recordResult counts in its own transaction     *)
(* without a lock on the notification leaves one way for "accepted" to     *)
(* outlast the last delivery: two transactions that overlap.               *)
THEOREM StatusFollowsDeliveriesHolds == Spec => []StatusFollowsDeliveries
<1>1. Init => StatusInv /\ CallInv
  <2>1. Init => WorkInv /\ CallInv
    BY WorkInitial, CallInitial DEF Init
  <2>2. Init => /\ OverlapsKnown /\ VerdictsHold
                /\ \A n \in Notification : Follows(n)
    BY DEF Init, NoWork, OverlapsKnown, VerdictsHold, Follows
  <2> QED
    BY <2>1, <2>2 DEF StatusInv
<1>2. StatusInv /\ CallInv /\ [Next]_vars => (StatusInv /\ CallInv)'
  BY StatusNextKeeps, DevicesStep, CallNextKeeps DEF StatusInv
<1>3. StatusInv => StatusFollowsDeliveries
  BY FollowsAll DEF StatusInv
<1> QED
  BY <1>1, <1>2, <1>3, PTL DEF Spec
=============================================================================
