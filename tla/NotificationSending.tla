------------------------ MODULE NotificationSending ------------------------
(***************************************************************************)
(* A service sends notifications (NotificationSendService.send).  A send   *)
(* has an idempotency key and is retried by its caller when the answer is  *)
(* lost; the first one under a key decides the answer of all, until the    *)
(* record of the key expires.                                              *)
(*                                                                         *)
(* A send is one transaction that holds an advisory lock on its key from   *)
(* the first statement on, so that two sends of a key never overlap and    *)
(* its INSERT never meets the unique index of the records.  What it reads  *)
(* of accounts, assignments and devices is not locked.                     *)
(* One service; texts, metadata and actions are part of the payload.       *)
(***************************************************************************)
EXTENDS Naturals, FiniteSets

CONSTANTS IdempotencyKey,
          Payload,       \* the inputs of send
          Destination,   \* the devices a payload asks for
          Device,        \* the devices of the recipient
          Sender,        \* the requests that may run at the same time
          NoPayload,     \* an unset local
          NoSender

ASSUME DestinationAssumption == Destination \in [Payload -> SUBSET Device]
ASSUME SenderAssumption == NoSender \notin Sender /\ NoPayload \notin Payload

VARIABLES record,   \* notification_idempotency_keys
          keyLock,  \* the transaction that holds the lock on a key
          sender,   \* the local state of each request
          allowed,  \* whether the recipient is active and has a permission
          eligible, \* its devices that are active, known and subscribed
          answers,  \* history: what was answered under each record
          sent      \* history: the notifications made under each record

sendingVars == <<record, keyLock, sender, allowed, eligible, answers, sent>>
reachVars == <<allowed, eligible>>

(* The answer, reduced to whether there were devices.                      *)
Response == {"accepted", "no_destinations"}

Record == [status : {"none", "valid", "expired"},
           payload : Payload \cup {NoPayload}, response : Response]

NoRecord == [status |-> "none", payload |-> NoPayload,
             response |-> "no_destinations"]

SenderState == [pc : {"idle", "lock", "find", "check", "commit"},
                key : IdempotencyKey, payload : Payload \cup {NoPayload},
                devices : SUBSET Device]

-----------------------------------------------------------------------------
(* The transaction of s ends.                                              *)
Finished(s) == [sender EXCEPT ![s].pc = "idle", ![s].payload = NoPayload,
                              ![s].devices = {}]

Unlock(s) == keyLock' = [k \in IdempotencyKey |->
                           IF keyLock[k] = s THEN NoSender ELSE keyLock[k]]

Answer(k, p, response) ==
  answers' = [answers EXCEPT ![k] = @ \cup {<<p, response>>}]

-----------------------------------------------------------------------------
(* A new request, or a retry of an earlier one.                            *)
SendStart(s, k, p) ==
  /\ sender[s].pc = "idle"
  /\ sender' = [sender EXCEPT ![s] =
       [pc |-> "lock", key |-> k, payload |-> p, devices |-> {}]]
  /\ UNCHANGED <<record, keyLock, reachVars, answers, sent>>

(* pg_advisory_xact_lock.                                                  *)
SendLock(s) ==
  /\ sender[s].pc = "lock"
  /\ keyLock[sender[s].key] = NoSender
  /\ keyLock' = [keyLock EXCEPT ![sender[s].key] = s]
  /\ sender' = [sender EXCEPT ![s].pc = "find"]
  /\ UNCHANGED <<record, reachVars, answers, sent>>

(* A valid record answers, or refuses another payload; an expired one is   *)
(* removed by this transaction.                                            *)
SendFind(s) ==
  LET k == sender[s].key
      r == record[k]
  IN
  /\ sender[s].pc = "find"
  /\ IF r.status = "valid"
     THEN /\ IF r.payload = sender[s].payload
             THEN Answer(k, r.payload, r.response) ELSE UNCHANGED answers
          /\ sender' = Finished(s)
          /\ Unlock(s)
     ELSE /\ sender' = [sender EXCEPT ![s].pc = "check"]
          /\ UNCHANGED <<keyLock, answers>>
  /\ UNCHANGED <<record, reachVars, sent>>

(* assertRecipientAssignment, eligibleDevices, selectDestination: the asked*)
(* devices must all be eligible, a payload that asks for none gets all.    *)
SendCheck(s) ==
  LET asked == Destination[sender[s].payload] IN
  /\ sender[s].pc = "check"
  /\ IF allowed /\ asked \subseteq eligible
     THEN /\ sender' = [sender EXCEPT
               ![s].pc = "commit",
               ![s].devices = IF asked = {} THEN eligible ELSE asked]
          /\ UNCHANGED keyLock
     ELSE sender' = Finished(s) /\ Unlock(s)
  /\ UNCHANGED <<record, reachVars, answers, sent>>

(* Mutant of SendCommit: only a send that reached somebody is recorded.    *)
SendCommitSome(s) ==
  LET k == sender[s].key
      p == sender[s].payload
      response == IF sender[s].devices = {} THEN "no_destinations"
                  ELSE "accepted"
  IN
  /\ sender[s].pc = "commit"
  /\ record' = IF sender[s].devices = {} THEN record
               ELSE [record EXCEPT ![k] = [status |-> "valid", payload |-> p,
                                           response |-> response]]
  /\ sent' = [sent EXCEPT ![k] = @ + IF response = "accepted" THEN 1 ELSE 0]
  /\ Answer(k, p, response)
  /\ sender' = Finished(s)
  /\ Unlock(s)
  /\ UNCHANGED reachVars

(* The notification, its deliveries and the record are committed.          *)
SendCommit(s) ==
  LET k == sender[s].key
      p == sender[s].payload
      response == IF sender[s].devices = {} THEN "no_destinations"
                  ELSE "accepted"
  IN
  /\ sender[s].pc = "commit"
  /\ record' = [record EXCEPT ![k] = [status |-> "valid", payload |-> p,
                                      response |-> response]]
  /\ sent' = [sent EXCEPT ![k] = @ + IF response = "accepted" THEN 1 ELSE 0]
  /\ Answer(k, p, response)
  /\ sender' = Finished(s)
  /\ Unlock(s)
  /\ UNCHANGED reachVars

(* The process dies before the commit.  When it dies later, or the answer  *)
(* is lost, the caller knows less than answers; it retries, SendStart.     *)
SendCrash(s) ==
  /\ sender[s].pc # "idle"
  /\ sender' = Finished(s)
  /\ Unlock(s)
  /\ UNCHANGED <<record, reachVars, answers, sent>>

-----------------------------------------------------------------------------
(* After IDEMPOTENCY_TTL_MS; the history is of one record.                 *)
ExpireRecord(k) ==
  /\ record[k].status = "valid"
  /\ record' = [record EXCEPT ![k].status = "expired"]
  /\ answers' = [answers EXCEPT ![k] = {}]
  /\ sent' = [sent EXCEPT ![k] = 0]
  /\ UNCHANGED <<keyLock, sender, reachVars>>

(* purge of the retention.                                                 *)
PurgeRecord(k) ==
  /\ record[k].status = "expired"
  /\ record' = [record EXCEPT ![k] = NoRecord]
  /\ UNCHANGED <<keyLock, sender, reachVars, answers, sent>>

(* Administrators and the recipient's devices change what a send may reach.*)
ChangeReach ==
  /\ allowed' \in BOOLEAN
  /\ eligible' \in SUBSET Device
  /\ reachVars' # reachVars
  /\ UNCHANGED <<record, keyLock, sender, answers, sent>>

SendingInit ==
  /\ record = [k \in IdempotencyKey |-> NoRecord]
  /\ keyLock = [k \in IdempotencyKey |-> NoSender]
  /\ \E k \in IdempotencyKey :
       sender = [s \in Sender |-> [pc |-> "idle", key |-> k,
                                   payload |-> NoPayload, devices |-> {}]]
  /\ allowed = TRUE
  /\ eligible = {}
  /\ answers = [k \in IdempotencyKey |-> {}]
  /\ sent = [k \in IdempotencyKey |-> 0]

SendingNext ==
  \/ \E s \in Sender : \/ \E k \in IdempotencyKey, p \in Payload : SendStart(s, k, p)
                       \/ SendLock(s)
                       \/ SendFind(s)
                       \/ SendCheck(s)
                       \/ SendCommit(s)
                       \/ SendCrash(s)
  \/ \E k \in IdempotencyKey : ExpireRecord(k) \/ PurgeRecord(k)
  \/ ChangeReach

SendingSpec == SendingInit /\ [][SendingNext]_sendingVars

-----------------------------------------------------------------------------
(* Type invariant of the sends.                                            *)
SendingTypeOK ==
  /\ record \in [IdempotencyKey -> Record]
  /\ keyLock \in [IdempotencyKey -> Sender \cup {NoSender}]
  /\ sender \in [Sender -> SenderState]
  /\ allowed \in BOOLEAN
  /\ eligible \subseteq Device
  /\ answers \in [IdempotencyKey -> SUBSET (Payload \X Response)]
  /\ sent \in [IdempotencyKey -> Nat]

(* Until its record expires, a key has one payload and one answer, however *)
(* often it is retried and whatever becomes reachable meanwhile, and at    *)
(* most one notification (send: "idempotency_payload_conflict", replayed). *)
OneAnswerPerKey ==
  \A k \in IdempotencyKey : Cardinality(answers[k]) <= 1 /\ sent[k] <= 1
=============================================================================
