---------------------- MODULE PermissionWebhookOutbox ----------------------
(***************************************************************************)
(* Table permission_webhook_outbox: events enqueued with a permission      *)
(* change, claimed under a lease and posted by the dispatcher of each      *)
(* process, and manually retried by administrators.                        *)
(*                                                                         *)
(* A worker is one process's dispatch loop; its running flag allows one.   *)
(* Every statement is one step.  A lease may run out while its worker is   *)
(* still at work: the request deadline bounds the post but not the         *)
(* statements around it.                                                   *)
(***************************************************************************)
EXTENDS Naturals, FiniteSets

CONSTANTS Event,       \* the events that may be enqueued
          Service,     \* the services they are about
          EventType,   \* the event types
          Worker,      \* the processes
          Admin,       \* the manual retries that may run at the same time
          MaxAttempts, \* PERMISSION_WEBHOOK_MAX_ATTEMPTS
          None         \* SQL NULL, or an unset local

ASSUME MaxAttemptsAssumption == MaxAttempts \in Nat \ {0}
ASSUME NoneAssumption == None \notin Event \cup Worker \cup Service \cup EventType

VARIABLES row,          \* the outbox
          subscription, \* table permission_webhook_subscriptions
          worker,       \* the local state of each dispatch loop
          retry         \* the local state of each retryDelivery call

(* History, read by the properties and by no guard.                        *)
VARIABLES acked,    \* events whose receiver has answered 2xx
          tries,    \* claims since the event was enqueued or last retried
          overtaken \* events whose last retry wrote over a row that had
                    \* changed since it was read

history == <<acked, tries, overtaken>>

vars == <<row, subscription, worker, retry, history>>

(* A claim_token is a random UUID.  Since a worker has at most one claim   *)
(* and forgets it when it fails, it is named here by its worker.           *)
Row == [status   : {"absent", "pending", "delivered", "exhausted"},
        service  : Service \cup {None},
        type     : EventType \cup {None},
        attempts : 0 .. MaxAttempts,
        next     : {"null", "later", "due"},  \* nextAttemptAt against now()
        claim    : Worker \cup {None}]

Subscription == [status : {"none", "active", "disabled"},
                 types  : SUBSET EventType]

WorkerState == [pc       : {"idle", "claim", "find", "post", "succeed", "fail"},
                event    : Event \cup {None},
                attempts : 0 .. MaxAttempts]

(* seen is the row as save read it.                                        *)
RetryState == [pc    : {"idle", "select", "write"},
               event : Event \cup {None},
               seen  : Row]

NoRow == [status |-> "absent", service |-> None, type |-> None,
          attempts |-> 0, next |-> "null", claim |-> None]

Unclaimed == [pc |-> "idle", event |-> None, attempts |-> 0]

NoRetry == [pc |-> "idle", event |-> None, seen |-> NoRow]

Active(s) == subscription[s].status = "active"

Present(e) == row[e].status # "absent"

Pending(e) == row[e].status = "pending"

-----------------------------------------------------------------------------
(* enqueueMany, in the transaction that changes the permission: nothing is *)
(* inserted unless the service has an active subscription to the type.     *)
Enqueue(e, s, type) ==
  /\ ~Present(e)
  /\ Active(s)
  /\ type \in subscription[s].types
  /\ row' = [row EXCEPT ![e] = [status |-> "pending", service |-> s,
                                type |-> type, attempts |-> 0,
                                next |-> "due", claim |-> None]]
  /\ UNCHANGED <<subscription, worker, retry, history>>

(* configureFromApprovedOnboarding and setStatus: the subscription's saved *)
(* status and event types.  What they validate first changes nothing.      *)
Subscribe(s, types) ==
  /\ subscription' = [subscription EXCEPT
                        ![s] = [status |-> "active", types |-> types]]
  /\ UNCHANGED <<row, worker, retry, history>>

SetStatus(s, status) ==
  /\ subscription[s].status # "none"
  /\ subscription' = [subscription EXCEPT ![s].status = status]
  /\ UNCHANGED <<row, worker, retry, history>>

(* now() passes an event's nextAttemptAt.                                  *)
BecomeDue(e) ==
  /\ row[e].next = "later"
  /\ row' = [row EXCEPT ![e].next = "due"]
  /\ UNCHANGED <<subscription, worker, retry, history>>

-----------------------------------------------------------------------------
(* Mutant of Expired: off by one.                                          *)
ExpiredLate(e) ==
  Pending(e) /\ row[e].attempts > MaxAttempts /\ row[e].next = "due"

Expired(e) == Pending(e) /\ row[e].attempts >= MaxAttempts /\ row[e].next = "due"

(* Mutant of Sweep: the dead claim stays on the row.                       *)
SweepKeepsClaim(w) ==
  /\ worker[w].pc = "idle"
  /\ row' = [e \in Event |->
               IF Expired(e)
               THEN [row[e] EXCEPT !.status = "exhausted", !.next = "null"]
               ELSE row[e]]
  /\ worker' = [worker EXCEPT ![w].pc = "claim"]
  /\ UNCHANGED <<subscription, retry, history>>

(* claimNext, first statement: leases that ran out at the last attempt.    *)
Sweep(w) ==
  /\ worker[w].pc = "idle"
  /\ row' = [e \in Event |->
               IF Expired(e)
               THEN [row[e] EXCEPT !.status = "exhausted", !.next = "null",
                                   !.claim = None]
               ELSE row[e]]
  /\ worker' = [worker EXCEPT ![w].pc = "claim"]
  /\ UNCHANGED <<subscription, retry, history>>

Claimable(e) ==
  /\ Pending(e)
  /\ row[e].next = "due"
  /\ row[e].attempts < MaxAttempts
  /\ Active(row[e].service)
  /\ row[e].type \in subscription[row[e].service].types

(* Mutant of Claim: the attempt is not counted when it starts.             *)
ClaimUncounted(w, e) ==
  /\ worker[w].pc = "claim"
  /\ Claimable(e)
  /\ row' = [row EXCEPT ![e].next = "later", ![e].claim = w]
  /\ worker' = [worker EXCEPT ![w] = [pc |-> "find", event |-> e,
                                      attempts |-> row[e].attempts]]
  /\ tries' = [tries EXCEPT ![e] = @ + 1]
  /\ UNCHANGED <<subscription, retry, acked, overtaken>>

(* claimNext, second statement, for one of the claimable rows.             *)
Claim(w, e) ==
  /\ worker[w].pc = "claim"
  /\ Claimable(e)
  /\ row' = [row EXCEPT ![e].attempts = @ + 1, ![e].next = "later",
                        ![e].claim = w]
  /\ worker' = [worker EXCEPT ![w] = [pc |-> "find", event |-> e,
                                      attempts |-> row[e].attempts + 1]]
  /\ tries' = [tries EXCEPT ![e] = @ + 1]
  /\ UNCHANGED <<subscription, retry, acked, overtaken>>

(* Nothing is due: the loop ends until the next poll.                      *)
ClaimNothing(w) ==
  /\ worker[w].pc = "claim"
  /\ \A e \in Event : ~Claimable(e)
  /\ worker' = [worker EXCEPT ![w] = Unclaimed]
  /\ UNCHANGED <<row, subscription, retry, history>>

(* dispatchOnce reads the subscription again; if it is not active now, the *)
(* attempt counts as failed.                                               *)
FindSubscription(w) ==
  /\ worker[w].pc = "find"
  /\ worker' = [worker EXCEPT
       ![w].pc = IF Active(row[worker[w].event].service) THEN "post"
                 ELSE "fail"]
  /\ UNCHANGED <<row, subscription, retry, history>>

(* http.post: the receiver answers 2xx, or the attempt fails in any way,   *)
(* the receiver having seen the event or not.                              *)
Post(w) ==
  /\ worker[w].pc = "post"
  /\ \/ /\ worker' = [worker EXCEPT ![w].pc = "succeed"]
        /\ acked' = acked \cup {worker[w].event}
     \/ /\ worker' = [worker EXCEPT ![w].pc = "fail"]
        /\ UNCHANGED acked
  /\ UNCHANGED <<row, subscription, retry, tries, overtaken>>

(* Mutant of Owns: a claim without a token.                                *)
OwnsAttempt(w) == row[worker[w].event].attempts = worker[w].attempts

(* The row is still under this claim.                                      *)
Owns(w) ==
  LET e == worker[w].event IN
  row[e].attempts = worker[w].attempts /\ row[e].claim = w

(* After a 2xx: update the row, if it is still under this claim.           *)
RecordDelivered(w) ==
  LET e == worker[w].event IN
  /\ worker[w].pc = "succeed"
  /\ row' = IF Owns(w)
            THEN [row EXCEPT ![e].status = "delivered", ![e].next = "null",
                             ![e].claim = None]
            ELSE row
  /\ worker' = [worker EXCEPT ![w] = Unclaimed]
  /\ UNCHANGED <<subscription, retry, history>>

(* That update throws, inside the try: the attempt is rescheduled after    *)
(* all.                                                                    *)
RecordThrows(w) ==
  /\ worker[w].pc = "succeed"
  /\ worker' = [worker EXCEPT ![w].pc = "fail"]
  /\ UNCHANGED <<row, subscription, retry, history>>

(* Mutant of Reschedule: off by one.                                       *)
RescheduleEarly(w) ==
  LET e == worker[w].event
      exhausted == worker[w].attempts >= MaxAttempts - 1
  IN
  /\ worker[w].pc = "fail"
  /\ row' = IF Owns(w)
            THEN [row EXCEPT
                    ![e].status = IF exhausted THEN "exhausted" ELSE "pending",
                    ![e].next = IF exhausted THEN "null" ELSE "later",
                    ![e].claim = None]
            ELSE row
  /\ worker' = [worker EXCEPT ![w] = Unclaimed]
  /\ UNCHANGED <<subscription, retry, history>>

(* reschedule, if the row is still under this claim.                       *)
Reschedule(w) ==
  LET e == worker[w].event
      exhausted == worker[w].attempts >= MaxAttempts
  IN
  /\ worker[w].pc = "fail"
  /\ row' = IF Owns(w)
            THEN [row EXCEPT
                    ![e].status = IF exhausted THEN "exhausted" ELSE "pending",
                    ![e].next = IF exhausted THEN "null" ELSE "later",
                    ![e].claim = None]
            ELSE row
  /\ worker' = [worker EXCEPT ![w] = Unclaimed]
  /\ UNCHANGED <<subscription, retry, history>>

(* The process dies and starts anew, or a statement of it throws: its loop *)
(* begins again, with no memory of the claim.                              *)
WorkerFails(w) ==
  /\ worker[w].pc # "idle"
  /\ worker' = [worker EXCEPT ![w] = Unclaimed]
  /\ UNCHANGED <<row, subscription, retry, history>>

-----------------------------------------------------------------------------
(* retryDelivery loads the event and resets it, whatever its state;        *)
(* TypeORM's save then reads the row again, and updates the columns in     *)
(* which the reset event differs from what it read.                        *)
RetryFind(h, e) ==
  /\ retry[h].pc = "idle"
  /\ Present(e)
  /\ retry' = [retry EXCEPT ![h] = [pc |-> "select", event |-> e,
                                    seen |-> NoRow]]
  /\ UNCHANGED <<row, subscription, worker, history>>

RetrySelect(h) ==
  /\ retry[h].pc = "select"
  /\ retry' = [retry EXCEPT ![h].pc = "write",
                            ![h].seen = row[retry[h].event]]
  /\ UNCHANGED <<row, subscription, worker, history>>

(* nextAttemptAt is a new Date, so it always differs.                      *)
ResetRow(current, seen) ==
  [current EXCEPT
     !.status   = IF seen.status # "pending" THEN "pending" ELSE @,
     !.attempts = IF seen.attempts # 0 THEN 0 ELSE @,
     !.next     = "due",
     !.claim    = IF seen.claim # None THEN None ELSE @]

Unchanged(current, seen) ==
  /\ current.status = seen.status
  /\ current.attempts = seen.attempts
  /\ current.claim = seen.claim

RetryWrite(h) ==
  LET e == retry[h].event IN
  /\ retry[h].pc = "write"
  /\ row' = [row EXCEPT ![e] = ResetRow(row[e], retry[h].seen)]
  /\ retry' = [retry EXCEPT ![h] = NoRetry]
  /\ tries' = [tries EXCEPT ![e] = 0]
  /\ overtaken' = IF Unchanged(row[e], retry[h].seen) THEN overtaken \ {e}
                  ELSE overtaken \cup {e}
  /\ UNCHANGED <<subscription, worker, acked>>

-----------------------------------------------------------------------------
Init ==
  /\ row = [e \in Event |-> NoRow]
  /\ subscription = [s \in Service |-> [status |-> "none", types |-> {}]]
  /\ worker = [w \in Worker |-> Unclaimed]
  /\ retry = [h \in Admin |-> NoRetry]
  /\ acked = {}
  /\ tries = [e \in Event |-> 0]
  /\ overtaken = {}

(* One iteration of the dispatch loop, when nothing goes wrong.            *)
Dispatch(w) ==
  \/ Sweep(w)
  \/ \E e \in Event : Claim(w, e)
  \/ ClaimNothing(w)
  \/ FindSubscription(w)
  \/ Post(w)
  \/ RecordDelivered(w)
  \/ Reschedule(w)

RetryStep(h) ==
  \/ \E e \in Event : RetryFind(h, e)
  \/ RetrySelect(h)
  \/ RetryWrite(h)

ServiceStep(s) ==
  \/ \E e \in Event, type \in EventType : Enqueue(e, s, type)
  \/ \E types \in SUBSET EventType \ {{}} : Subscribe(s, types)
  \/ \E status \in {"active", "disabled"} : SetStatus(s, status)

Next ==
  \/ \E w \in Worker : Dispatch(w) \/ RecordThrows(w) \/ WorkerFails(w)
  \/ \E h \in Admin : RetryStep(h)
  \/ \E s \in Service : ServiceStep(s)
  \/ \E e \in Event : BecomeDue(e)

Spec == Init /\ [][Next]_vars

(* Time passes and every process polls.  A claim takes the row that has    *)
(* been due longest, and a loop does not fail for ever just before it: so  *)
(* an event that is claimable again and again is claimed.                  *)
Fairness ==
  /\ \A e \in Event : /\ WF_vars(BecomeDue(e))
                      /\ SF_vars(\E w \in Worker : Claim(w, e))
  /\ \A w \in Worker : WF_vars(Dispatch(w))

FairSpec == Spec /\ Fairness

-----------------------------------------------------------------------------
(* Type invariant.                                                         *)
TypeOK ==
  /\ row \in [Event -> Row]
  /\ subscription \in [Service -> Subscription]
  /\ worker \in [Worker -> WorkerState]
  /\ retry \in [Admin -> RetryState]
  /\ acked \subseteq Event
  /\ tries \in [Event -> Nat]
  /\ overtaken \subseteq Event

(* A claim dies with the attempt it was made for: a row that is delivered, *)
(* exhausted or rescheduled is under no claim.  The guards of the workers' *)
(* updates do not ask for the status, so this alone keeps a late worker    *)
(* from settling a settled row again.                                      *)
ClaimImpliesPending ==
  \A e \in Event : row[e].claim # None => Pending(e)

(* An event is attempted at most MaxAttempts times until someone retries   *)
(* it by hand, whatever leases run out and processes die.                  *)
TriesBounded == \A e \in Event : tries[e] <= MaxAttempts

(* An event is given up only after all its attempts, unless the last       *)
(* manual retry overlapped with a worker's update of the row.              *)
ExhaustedAfterAllTries ==
  \A e \in Event :
    row[e].status = "exhausted" /\ e \notin overtaken
      => tries[e] = MaxAttempts

(* Each event is delivered, given up and retried as EventDelivery says.    *)
Delivery == INSTANCE EventDelivery
              WITH outcome <- [e \in Event |-> row[e].status],
                   asked   <- {retry[h].event : h \in Admin} \ {None}

ImplementsDelivery == Delivery!Spec

(* Every pending event is settled in the end, once its service stays       *)
(* subscribed to it and it is not retried by hand again and again: no      *)
(* lease, crash or deadline leaves it pending for ever.                    *)
Undisturbed(e) ==
  /\ Present(e)
  /\ Active(row[e].service)
  /\ row[e].type \in subscription[row[e].service].types
  /\ \A h \in Admin : retry[h].event # e

Settles ==
  \A e \in Event : <>[]Undisturbed(e) => (Pending(e) ~> ~Pending(e))
=============================================================================
