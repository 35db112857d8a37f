------------------------ MODULE NotificationDelivery ------------------------
(***************************************************************************)
(* The delivery of notifications, NotificationDeliveryWorkerService, over  *)
(* the devices of NotificationDevices.                                     *)
(*                                                                         *)
(* send writes a notification and one delivery per chosen device.  The     *)
(* worker of each process polls: it claims a due delivery in one statement *)
(* (FOR UPDATE SKIP LOCKED), sends it to Firebase without a transaction,   *)
(* and records the result in a transaction that locks the delivery, counts *)
(* the notification's deliveries and updates its status.  A claim that is  *)
(* ten minutes old is up for grabs, whether its worker is dead or slow.    *)
(*                                                                         *)
(* A claim token is drawn for each claim.  The worker's name stands for    *)
(* it: a worker knows only the token of its current claim.                 *)
(***************************************************************************)
EXTENDS NotificationDevices

CONSTANTS Notification, \* the notifications that may be sent
          Worker,       \* one delivery worker per process
          RetryLimit,   \* the number of RETRY_DELAYS_MS
          MaxAttempts   \* bound: a later claim is neither lost nor overtaken

ASSUME RetryAssumption == RetryLimit \in Nat /\ MaxAttempts \in Nat
ASSUME NoneIsNoWorker == None \notin Worker

VARIABLES notification, \* status of each notification, "none" if not sent
          delivery,     \* the rows of notification_deliveries
          worker,       \* the local state of each worker
          recorded,     \* attempt numbers in notification_delivery_attempts
          overlapped    \* history: the notifications two of whose
                        \* deliveries were recorded at the same time

deliveryVars == <<notification, delivery, worker, recorded, overlapped>>
vars == <<deviceVars, deliveryVars>>

(* One row per notification and device, as the unique index has it.        *)
Delivery == Notification \X Device

NotificationStatus == {"none", "accepted", "delivered", "partial", "failed"}

(* due: nextAttemptAt has come; stale: updatedAt is ten minutes ago.       *)
DeliveryRow ==
  [status   : {"none", "pending", "processing", "retry", "delivered",
               "terminal", "purged"},
   attempts : Nat,
   due      : BOOLEAN,
   stale    : BOOLEAN,
   claim    : Worker \cup {None}]

NoDelivery == [status |-> "none", attempts |-> 0, due |-> FALSE,
               stale |-> FALSE, claim |-> None]

SendResult == {"delivered", "transient", "terminal", "invalid_token"}

(* Between "claimed" and "commit" the worker sends; verdict is the status  *)
(* that refreshNotificationStatus is about to write, if any.               *)
WorkerState ==
  [pc          : {"idle", "claimed", "commit"},
   delivery    : Delivery \cup {None},
   attempts    : Nat,
   token       : PushToken \cup {None},   \* None: the device is unavailable
   fingerprint : PushToken \cup {None},
   result      : SendResult,
   verdict     : NotificationStatus]

NoWork == [pc |-> "idle", delivery |-> None, attempts |-> 0, token |-> None,
           fingerprint |-> None, result |-> "transient", verdict |-> "none"]

Settled(status) == status \in {"delivered", "terminal"}

Present(e) == delivery[e].status \notin {"none", "purged"}

DeliveriesOf(n) == {e \in Delivery : e[1] = n /\ Present(e)}

-----------------------------------------------------------------------------
(* recordResult holds the delivery's row from its lock to its commit.      *)
Locked(e) == \E w \in Worker :
               worker[w].pc = "commit" /\ worker[w].delivery = e

(* Mutant of Owns: the delivery is looked up without the claim token.      *)
OwnsAny(w) == Present(worker[w].delivery)

Owns(w) == delivery[worker[w].delivery].claim = w

(* What refreshNotificationStatus makes of the statuses S, a function on   *)
(* the notification's deliveries.                                          *)
Verdict(S) ==
  CASE \E e \in DOMAIN S : ~Settled(S[e])        -> "none"
    [] \A e \in DOMAIN S : S[e] = "delivered"    -> "delivered"
    [] \A e \in DOMAIN S : S[e] = "terminal"     -> "failed"
    [] OTHER                                     -> "partial"

Statuses(n) == [e \in DeliveriesOf(n) |-> delivery[e].status]

(* Mutant of Counted: the counts are taken before the update.              *)
CountedBefore(e, status) == Statuses(e[1])

(* What the transaction that gives e a status counts: its own update and   *)
(* the rows that are committed.                                            *)
Counted(e, status) == [Statuses(e[1]) EXCEPT ![e] = status]

(* Mutant of Claimed: the attempt is not counted.                          *)
ClaimedUncounted(row, w) ==
  [row EXCEPT !.status = "processing", !.stale = FALSE, !.claim = w]

(* The row that a claim leaves behind.                                     *)
Claimed(row, w) ==
  [row EXCEPT !.status = "processing", !.stale = FALSE, !.claim = w,
              !.attempts = @ + 1]

(* The row that the result of an attempt leaves behind.                    *)
Outcome(result, attempts) ==
  [status   |-> CASE result = "delivered" -> "delivered"
                  [] result = "transient" /\ attempts <= RetryLimit -> "retry"
                  [] OTHER -> "terminal",
   attempts |-> attempts, due |-> FALSE, stale |-> FALSE, claim |-> None]

Work(w, state) == worker' = [worker EXCEPT ![w] = state]

-----------------------------------------------------------------------------
(* NotificationSendService.send, for the chosen ones of the devices whose  *)
(* consent includes the sender.                                            *)
Send(n, D) ==
  /\ notification[n] = "none"
  /\ D # {}
  /\ \A d \in D : consent[d] = "on" /\ Deliverable(d)
  /\ notification' = [notification EXCEPT ![n] = "accepted"]
  /\ delivery' = [e \in Delivery |->
       IF e[1] = n /\ e[2] \in D
       THEN [NoDelivery EXCEPT !.status = "pending", !.due = TRUE]
       ELSE delivery[e]]
  /\ UNCHANGED <<deviceVars, worker, recorded, overlapped>>

(* Mutant of Claimable: a claim that was lost is not taken over.           *)
ClaimableNew(e) ==
  delivery[e].status \in {"pending", "retry"} /\ delivery[e].due /\ ~Locked(e)

Claimable(e) ==
  /\ \/ delivery[e].status \in {"pending", "retry"} /\ delivery[e].due
     \/ delivery[e].status = "processing" /\ delivery[e].stale
  /\ ~Locked(e)

(* claimNext, joined with the device as it is at that moment.              *)
Claim(w, e) ==
  /\ worker[w].pc = "idle"
  /\ Claimable(e)
  /\ delivery' = [delivery EXCEPT ![e] = Claimed(@, w)]
  /\ Work(w, [NoWork EXCEPT !.pc = "claimed", !.delivery = e,
                !.attempts = Claimed(delivery[e], w).attempts,
                !.token = IF Deliverable(e[2]) THEN device[e[2]].token
                          ELSE None,
                !.fingerprint = device[e[2]].fingerprint])
  /\ UNCHANGED <<deviceVars, notification, recorded, overlapped>>

(* Firebase answers, or nothing was sent; recordResult finds that another  *)
(* worker has claimed the delivery since (or that it is gone).             *)
Disowned(w) ==
  /\ worker[w].pc = "claimed"
  /\ ~Owns(w)
  /\ Work(w, NoWork)
  /\ UNCHANGED <<deviceVars, notification, delivery, recorded, overlapped>>

(* recordResult locks the delivery it owns, notes the attempt and the      *)
(* result, and counts the statuses of the notification's deliveries.       *)
Record(w, result) ==
  LET e == worker[w].delivery
      new == Outcome(result, worker[w].attempts).status
  IN
  /\ worker[w].pc = "claimed"
  /\ Owns(w)
  /\ worker[w].token = None => result = "terminal"
  /\ worker' = [worker EXCEPT ![w].pc = "commit", ![w].result = result,
                  ![w].verdict = Verdict(Counted(e, new))]
  /\ overlapped' =
       IF \E f \in Delivery : f # e /\ f[1] = e[1] /\ Locked(f)
       THEN overlapped \cup {e[1]} ELSE overlapped
  /\ UNCHANGED <<deviceVars, notification, delivery, recorded>>

(* Mutant of Rejects: the device's present token is not looked at.         *)
RejectsDevice(w) ==
  /\ worker[w].result = "invalid_token"
  /\ worker[w].fingerprint # None
  /\ device[worker[w].delivery[2]].status = "active"

(* A rejected token disables the device if it still has that token.        *)
Rejects(w) ==
  /\ worker[w].result = "invalid_token"
  /\ worker[w].fingerprint # None
  /\ HoldsToken(worker[w].delivery[2], worker[w].fingerprint)

(* The transaction's writes become visible.                                *)
Commit(w) ==
  LET e == worker[w].delivery IN
  /\ worker[w].pc = "commit"
  /\ delivery' = [delivery EXCEPT
       ![e] = Outcome(worker[w].result, worker[w].attempts)]
  /\ recorded' = [recorded EXCEPT ![e] = @ \cup {worker[w].attempts}]
  /\ notification' = IF worker[w].verdict = "none" THEN notification
                     ELSE [notification EXCEPT ![e[1]] = worker[w].verdict]
  /\ IF Rejects(w) THEN DisableRow(e[2])
     ELSE UNCHANGED deviceVars
  /\ Work(w, NoWork)
  /\ UNCHANGED overlapped

(* The process dies or a statement throws: an open transaction is rolled   *)
(* back, a claim stays.                                                    *)
WorkerFails(w) ==
  /\ worker[w].pc # "idle"
  /\ Owns(w) => worker[w].attempts < MaxAttempts
  /\ Work(w, NoWork)
  /\ UNCHANGED <<deviceVars, notification, delivery, recorded, overlapped>>

-----------------------------------------------------------------------------
BecomeDue(e) ==
  /\ delivery[e].status = "retry" /\ ~delivery[e].due
  /\ delivery' = [delivery EXCEPT ![e].due = TRUE]
  /\ UNCHANGED <<deviceVars, notification, worker, recorded, overlapped>>

Orphan(e) == \A w \in Worker : delivery[e].claim = w => worker[w].delivery # e

(* Ten minutes pass since the claim.                                       *)
BecomeStale(e) ==
  /\ delivery[e].status = "processing" /\ ~delivery[e].stale
  /\ Orphan(e) \/ delivery[e].attempts < MaxAttempts
  /\ delivery' = [delivery EXCEPT ![e].stale = TRUE]
  /\ UNCHANGED <<deviceVars, notification, worker, recorded, overlapped>>

(* A device that is purged takes its deliveries along.                     *)
PurgeDevice(d) ==
  /\ Purge(d)
  /\ \A e \in Delivery : e[2] = d => ~Locked(e)
  /\ delivery' = [e \in Delivery |->
       IF e[2] = d /\ Present(e) THEN [NoDelivery EXCEPT !.status = "purged"]
       ELSE delivery[e]]
  /\ UNCHANGED <<notification, worker, recorded, overlapped>>

(* The rest of NotificationDevices leaves deliveries alone.                *)
DeviceAction ==
  /\ (\E h \in Call : CallStep(h)) \/ (\E d \in Device : Disable(d))
  /\ UNCHANGED deliveryVars

Init ==
  /\ DeviceInit
  /\ notification = [n \in Notification |-> "none"]
  /\ delivery = [e \in Delivery |-> NoDelivery]
  /\ worker = [w \in Worker |-> NoWork]
  /\ recorded = [e \in Delivery |-> {}]
  /\ overlapped = {}

WorkerStep(w) ==
  Disowned(w) \/ (\E result \in SendResult : Record(w, result)) \/ Commit(w)

Next ==
  \/ \E w \in Worker : WorkerStep(w) \/ WorkerFails(w)
  \/ \E w \in Worker, e \in Delivery : Claim(w, e)
  \/ \E e \in Delivery : BecomeDue(e) \/ BecomeStale(e)
  \/ \E n \in Notification, D \in SUBSET Device : Send(n, D)
  \/ \E d \in Device : PurgeDevice(d)
  \/ DeviceAction

Spec == Init /\ [][Next]_vars

(* Time passes, every process polls and finishes its step or fails in it,  *)
(* handlers end.  A claim takes the delivery that has been due longest, so *)
(* one that is claimable again and again is claimed.                       *)
Fairness ==
  /\ \A e \in Delivery : /\ WF_vars(BecomeDue(e))
                         /\ WF_vars(BecomeStale(e))
                         /\ SF_vars(\E w \in Worker : Claim(w, e))
  /\ \A w \in Worker : SF_vars(WorkerStep(w))
  /\ \A h \in Call : WF_vars(CallStep(h) /\ UNCHANGED deliveryVars)

FairSpec == Spec /\ Fairness

-----------------------------------------------------------------------------
(* Type invariant.                                                         *)
TypeOK ==
  /\ notification \in [Notification -> NotificationStatus]
  /\ delivery \in [Delivery -> DeliveryRow]
  /\ worker \in [Worker -> WorkerState]
  /\ recorded \in [Delivery -> SUBSET Nat]
  /\ overlapped \subseteq Notification

(* The status of a notification is that of its deliveries: "accepted" as   *)
(* long as one is not settled, then what they add up to.  Only when two    *)
(* workers record deliveries of it at the same time, neither seeing the    *)
(* other's, may it stay "accepted" for ever.                               *)
StatusFollowsDeliveries ==
  \A n \in Notification :
    notification[n] # "none" /\ (\A d \in Device :
                                   delivery[<<n, d>>].status # "purged")
      => LET verdict == Verdict(Statuses(n)) IN
         \/ verdict = "none" /\ notification[n] = "accepted"
         \/ verdict # "none" /\ notification[n] = verdict
         \/ n \in overlapped /\ notification[n] = "accepted"

(* Each attempt is recorded under a number of its own: the unique index on *)
(* (delivery, attempt) never makes recordResult fail and the push repeat.  *)
AttemptNumbersUnique ==
  \A w \in Worker : worker[w].pc = "commit" =>
    worker[w].attempts \notin recorded[worker[w].delivery]

(* What is settled stays settled: no worker that was slow, and no claim    *)
(* that was taken over, opens a delivery again or changes its outcome.     *)
SettledStays ==
  [][\A e \in Delivery : Settled(delivery[e].status) =>
       delivery'[e] = delivery[e] \/ delivery'[e].status = "purged"]_vars

(* A rejection by the provider disables the device that has the token it   *)
(* was for, and leaves alone one that has registered another token since.  *)
RejectionHitsItsToken ==
  [][\A w \in Worker :
       worker[w].pc = "commit" /\ worker[w].result = "invalid_token"
         /\ worker[w].fingerprint # None /\ recorded' # recorded
         /\ worker'[w].pc = "idle"
       => LET d == worker[w].delivery[2] IN
          d \in torn \/
            IF device[d].token = worker[w].token
            THEN device'[d] = Disabled ELSE device'[d] = device[d]]_vars

(* Every delivery is settled in the end, as long as not each claim is      *)
(* lost.                                                                   *)
Settles ==
  \A e \in Delivery : Present(e) ~> ~Present(e) \/ Settled(delivery[e].status)
=============================================================================
