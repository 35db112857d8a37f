------------------- MODULE PermissionWebhookOutbox_proofs -------------------
(***************************************************************************)
(* Proofs about module PermissionWebhookOutbox: type correctness, the      *)
(* safety invariants, and that the outbox implements EventDelivery.        *)
(***************************************************************************)
EXTENDS PermissionWebhookOutbox, TLAPS

(* A worker past its claim has an event, which is in the outbox; past a    *)
(* 2xx, the event is acknowledged.                                         *)
WorkerHasEvent ==
  \A w \in Worker :
    worker[w].pc \in {"find", "post", "succeed", "fail"} =>
      /\ worker[w].event \in Event
      /\ Present(worker[w].event)
      /\ worker[w].pc = "succeed" => worker[w].event \in acked

(* A manual retry at work has an event, which is in the outbox.            *)
RetryHasEvent ==
  \A h \in Admin :
    IF retry[h].pc = "idle" THEN retry[h].event = None
    ELSE retry[h].event \in Event /\ Present(retry[h].event)

TypeInv == TypeOK /\ WorkerHasEvent /\ RetryHasEvent

-----------------------------------------------------------------------------
LEMMA RowParts ==
  ASSUME TypeOK, NEW e \in Event
  PROVE  /\ row[e] \in Row
         /\ row[e].status \in {"absent", "pending", "delivered", "exhausted"}
         /\ row[e].service \in Service \cup {None}
         /\ row[e].type \in EventType \cup {None}
         /\ row[e].attempts \in 0 .. MaxAttempts
         /\ row[e].next \in {"null", "later", "due"}
         /\ row[e].claim \in Worker \cup {None}
BY DEF TypeOK, Row

LEMMA WorkerParts ==
  ASSUME TypeOK, NEW w \in Worker
  PROVE  /\ worker[w] \in WorkerState
         /\ worker[w].pc \in {"idle", "claim", "find", "post", "succeed",
                              "fail"}
         /\ worker[w].event \in Event \cup {None}
         /\ worker[w].attempts \in 0 .. MaxAttempts
BY DEF TypeOK, WorkerState

LEMMA RetryParts ==
  ASSUME TypeOK, NEW h \in Admin
  PROVE  /\ retry[h] \in RetryState
         /\ retry[h].pc \in {"idle", "select", "write"}
         /\ retry[h].event \in Event \cup {None}
         /\ retry[h].seen \in Row
BY DEF TypeOK, RetryState

LEMMA Empties ==
  /\ NoRow \in Row
  /\ Unclaimed \in WorkerState
  /\ NoRetry \in RetryState
BY MaxAttemptsAssumption
   DEF NoRow, Row, Unclaimed, WorkerState, NoRetry, RetryState

(* A row whose claim ends is a row.                                        *)
LEMMA ReleasedType ==
  ASSUME NEW r \in Row, NEW next \in {"null", "later", "due"},
         NEW status \in {"absent", "pending", "delivered", "exhausted"}
  PROVE  [r EXCEPT !.status = status, !.next = next, !.claim = None] \in Row
BY DEF Row

(* What a retry writes over a row is a row, and an event stays present.    *)
LEMMA ResetRowType ==
  ASSUME NEW current \in Row, NEW seen \in Row
  PROVE  /\ ResetRow(current, seen) \in Row
         /\ current.status # "absent" =>
              ResetRow(current, seen).status # "absent"
<1>1. PICK status, attempts, claim :
        /\ status = IF seen.status # "pending" THEN "pending"
                    ELSE current.status
        /\ attempts = IF seen.attempts # 0 THEN 0 ELSE current.attempts
        /\ claim = IF seen.claim # None THEN None ELSE current.claim
  OBVIOUS
<1>2. /\ status \in {"absent", "pending", "delivered", "exhausted"}
      /\ current.status # "absent" => status # "absent"
      /\ attempts \in 0 .. MaxAttempts
      /\ claim \in Worker \cup {None}
  BY <1>1, MaxAttemptsAssumption DEF Row
<1>3. ResetRow(current, seen) =
        [current EXCEPT !.status = status, !.attempts = attempts,
                        !.next = "due", !.claim = claim]
  BY <1>1 DEF ResetRow, Row
<1> QED
  BY <1>2, <1>3 DEF Row

LEMMA Initially == Init => TypeInv
<1> SUFFICES ASSUME Init PROVE TypeInv
  OBVIOUS
<1>1. TypeOK
  BY Empties DEF Init, TypeOK, Subscription
<1>2. WorkerHasEvent /\ RetryHasEvent
  BY DEF Init, WorkerHasEvent, RetryHasEvent, Unclaimed, NoRetry
<1> QED
  BY <1>1, <1>2 DEF TypeInv

(* An action that writes rows that stay present, and moves nothing else,   *)
(* leaves every worker and retry its event.                                *)
LEMMA RowsKeep ==
  ASSUME TypeInv, row' \in [Event -> Row],
         \A e \in Event : Present(e) => Present(e)',
         subscription' \in [Service -> Subscription],
         UNCHANGED <<worker, retry, history>>
  PROVE  TypeInv'
<1>1. TypeOK'
  BY DEF TypeInv, TypeOK, history
<1>2. WorkerHasEvent' /\ RetryHasEvent'
  BY DEF TypeInv, WorkerHasEvent, RetryHasEvent, history
<1> QED
  BY <1>1, <1>2 DEF TypeInv

(* A worker may forget its claim, whatever it writes.                      *)
LEMMA ForgetKeeps ==
  ASSUME TypeInv, NEW w \in Worker, row' \in [Event -> Row],
         \A e \in Event : Present(e) => Present(e)',
         worker' = [worker EXCEPT ![w] = Unclaimed],
         UNCHANGED <<subscription, retry, history>>
  PROVE  TypeInv'
<1>1. TypeOK'
  BY Empties DEF TypeInv, TypeOK, history
<1>2. WorkerHasEvent'
  BY DEF TypeInv, TypeOK, WorkerHasEvent, Unclaimed, history
<1>3. RetryHasEvent'
  BY DEF TypeInv, RetryHasEvent
<1> QED
  BY <1>1, <1>2, <1>3 DEF TypeInv

(* A worker with an event may go on with it.                               *)
LEMMA GoOnKeeps ==
  ASSUME TypeInv, NEW w \in Worker,
         worker[w].pc \in {"find", "post", "succeed"},
         NEW pc \in {"post", "succeed", "fail"},
         worker' = [worker EXCEPT ![w].pc = pc],
         acked' = acked \/ acked' = acked \cup {worker[w].event},
         pc = "succeed" => worker[w].event \in acked',
         UNCHANGED <<row, subscription, retry, tries, overtaken>>
  PROVE  TypeInv'
<1>1. worker[w].event \in Event /\ Present(worker[w].event)
  BY DEF TypeInv, WorkerHasEvent
<1>2. worker' \in [Worker -> WorkerState]
  BY DEF TypeInv, TypeOK, WorkerState
<1>3. TypeOK'
  BY <1>1, <1>2 DEF TypeInv, TypeOK
<1>4. WorkerHasEvent'
  BY <1>1 DEF TypeInv, TypeOK, WorkerHasEvent, Present
<1>5. RetryHasEvent'
  BY DEF TypeInv, RetryHasEvent, Present
<1> QED
  BY <1>3, <1>4, <1>5 DEF TypeInv

-----------------------------------------------------------------------------
LEMMA ServiceStepKeeps ==
  ASSUME TypeInv, NEW s \in Service, ServiceStep(s)
  PROVE  TypeInv'
<1>0. TypeOK
  BY DEF TypeInv
<1>1. ASSUME NEW e \in Event, NEW type \in EventType, Enqueue(e, s, type)
      PROVE  TypeInv'
  <2>1. row' \in [Event -> Row]
    BY <1>0, <1>1, MaxAttemptsAssumption DEF Enqueue, TypeOK, Row
  <2>2. \A f \in Event : Present(f) => Present(f)'
    BY <1>0, <1>1 DEF Enqueue, Present, TypeOK
  <2>3. subscription' \in [Service -> Subscription]
    BY <1>0, <1>1 DEF Enqueue, TypeOK
  <2> QED
    BY <1>1, <2>1, <2>2, <2>3, RowsKeep DEF Enqueue
<1>2. ASSUME NEW types \in SUBSET EventType \ {{}}, Subscribe(s, types)
      PROVE  TypeInv'
  <2>1. subscription' \in [Service -> Subscription]
    BY <1>0, <1>2 DEF Subscribe, TypeOK, Subscription
  <2> QED
    BY <1>0, <1>2, <2>1, RowsKeep DEF Subscribe, TypeOK, Present
<1>3. ASSUME NEW status \in {"active", "disabled"}, SetStatus(s, status)
      PROVE  TypeInv'
  <2>1. subscription' \in [Service -> Subscription]
    BY <1>0, <1>3 DEF SetStatus, TypeOK, Subscription
  <2> QED
    BY <1>0, <1>3, <2>1, RowsKeep DEF SetStatus, TypeOK, Present
<1> QED
  BY <1>1, <1>2, <1>3 DEF ServiceStep

LEMMA BecomeDueKeeps ==
  ASSUME TypeInv, NEW e \in Event, BecomeDue(e)
  PROVE  TypeInv'
<1>0. TypeOK
  BY DEF TypeInv
<1>1. row' \in [Event -> Row]
  BY <1>0 DEF BecomeDue, TypeOK, Row
<1>2. \A f \in Event : Present(f) => Present(f)'
  BY <1>0 DEF BecomeDue, Present, TypeOK, Row
<1> QED
  BY <1>0, <1>1, <1>2, RowsKeep DEF BecomeDue, TypeOK

LEMMA SweepKeeps ==
  ASSUME TypeInv, NEW w \in Worker, Sweep(w)
  PROVE  TypeInv'
<1>0. TypeOK
  BY DEF TypeInv
<1>1. \A e \in Event :
        [row[e] EXCEPT !.status = "exhausted", !.next = "null",
                       !.claim = None] \in Row
  BY <1>0, RowParts, ReleasedType
<1>2. row' \in [Event -> Row]
  BY <1>0, <1>1, RowParts DEF Sweep
<1>3. \A e \in Event : Present(e) => Present(e)'
  BY <1>0, RowParts DEF Sweep, Present, Row
<1>4. worker' \in [Worker -> WorkerState]
  BY <1>0 DEF Sweep, TypeOK, WorkerState
<1>7. TypeOK'
  BY <1>0, <1>2, <1>4 DEF Sweep, TypeOK, history
<1>5. WorkerHasEvent'
  <2>1. \A v \in Worker :
          worker'[v] = worker[v] \/ worker'[v].pc = "claim"
    BY <1>0 DEF Sweep, TypeOK, WorkerState
  <2>2. acked' = acked
    BY DEF Sweep, history
  <2> QED
    BY <1>3, <2>1, <2>2 DEF TypeInv, WorkerHasEvent
<1>6. RetryHasEvent'
  BY <1>3 DEF Sweep, TypeInv, RetryHasEvent
<1> QED
  BY <1>7, <1>5, <1>6 DEF TypeInv

LEMMA ClaimKeeps ==
  ASSUME TypeInv, NEW w \in Worker, NEW e \in Event, Claim(w, e)
  PROVE  TypeInv'
<1>0. TypeOK
  BY DEF TypeInv
<1>1. row[e].attempts + 1 \in 0 .. MaxAttempts
  BY <1>0, RowParts, MaxAttemptsAssumption DEF Claim, Claimable
<1>2. row' \in [Event -> Row]
  <2>1. [row[e] EXCEPT !.attempts = row[e].attempts + 1, !.next = "later",
                       !.claim = w] \in Row
    BY <1>0, <1>1, RowParts DEF Row
  <2> QED
    BY <1>0, <2>1 DEF Claim, TypeOK
<1>3. \A f \in Event : Present(f) => Present(f)'
  BY <1>0 DEF Claim, Present, TypeOK, Row
<1>4. Present(e)
  BY DEF Claim, Claimable, Pending, Present
<1>5. TypeOK'
  BY <1>0, <1>1, <1>2 DEF Claim, TypeOK, WorkerState
<1>6. WorkerHasEvent'
  BY <1>0, <1>3, <1>4 DEF Claim, TypeInv, TypeOK, WorkerHasEvent
<1>7. RetryHasEvent'
  BY <1>3 DEF Claim, TypeInv, RetryHasEvent
<1> QED
  BY <1>5, <1>6, <1>7 DEF TypeInv

LEMMA RecordDeliveredKeeps ==
  ASSUME TypeInv, NEW w \in Worker, RecordDelivered(w)
  PROVE  TypeInv'
<1>0. TypeOK
  BY DEF TypeInv
<1>1. row' \in [Event -> Row]
  <2> PICK e : e = worker[w].event
    OBVIOUS
  <2>1. e \in Event
    BY DEF RecordDelivered, TypeInv, WorkerHasEvent
  <2>2. [row[e] EXCEPT !.status = "delivered", !.next = "null",
                       !.claim = None] \in Row
    BY <1>0, <2>1, RowParts, ReleasedType
  <2>3. \/ row' = row
        \/ row' = [row EXCEPT ![e] = [row[e] EXCEPT !.status = "delivered",
                                         !.next = "null", !.claim = None]]
    BY <1>0, <2>1 DEF RecordDelivered, TypeOK
  <2> QED
    BY <1>0, <2>1, <2>2, <2>3 DEF TypeOK
<1>2. \A f \in Event : Present(f) => Present(f)'
  BY <1>0 DEF RecordDelivered, Present, TypeOK, Row
<1> QED
  BY <1>1, <1>2, ForgetKeeps DEF RecordDelivered

LEMMA RescheduleKeeps ==
  ASSUME TypeInv, NEW w \in Worker, Reschedule(w)
  PROVE  TypeInv'
<1>0. TypeOK
  BY DEF TypeInv
<1>1. row' \in [Event -> Row]
  <2> PICK e : e = worker[w].event
    OBVIOUS
  <2>1. e \in Event
    BY DEF Reschedule, TypeInv, WorkerHasEvent
  <2>2. PICK status \in {"exhausted", "pending"}, next \in {"null", "later"} :
          row' = row \/ row' = [row EXCEPT ![e].status = status,
                                          ![e].next = next, ![e].claim = None]
    BY DEF Reschedule
  <2>3. [row[e] EXCEPT !.status = status, !.next = next, !.claim = None] \in Row
    BY <1>0, <2>1, RowParts, ReleasedType
  <2>4. \/ row' = row
        \/ row' = [row EXCEPT ![e] = [row[e] EXCEPT !.status = status,
                                         !.next = next, !.claim = None]]
    BY <1>0, <2>1, <2>2 DEF TypeOK
  <2> QED
    BY <1>0, <2>1, <2>3, <2>4 DEF TypeOK
<1>2. \A f \in Event : Present(f) => Present(f)'
  BY <1>0 DEF Reschedule, Present, TypeOK, Row
<1> QED
  BY <1>1, <1>2, ForgetKeeps DEF Reschedule

LEMMA WorkerKeeps ==
  ASSUME TypeInv, NEW w \in Worker,
         Dispatch(w) \/ RecordThrows(w) \/ WorkerFails(w)
  PROVE  TypeInv'
<1>0. TypeOK
  BY DEF TypeInv
<1>1. CASE Sweep(w)
  BY <1>1, SweepKeeps
<1>2. CASE \E e \in Event : Claim(w, e)
  BY <1>2, ClaimKeeps
<1>3. CASE ClaimNothing(w) \/ WorkerFails(w)
  BY <1>0, <1>3, ForgetKeeps DEF ClaimNothing, WorkerFails, TypeOK, Present
<1>4. CASE FindSubscription(w)
  <2>1. PICK pc \in {"post", "fail"} :
          worker' = [worker EXCEPT ![w].pc = pc]
    BY <1>4 DEF FindSubscription
  <2> QED
    BY <1>4, <2>1, GoOnKeeps DEF FindSubscription, history
<1>5. CASE Post(w)
  <2>1. PICK pc \in {"succeed", "fail"} :
          /\ worker' = [worker EXCEPT ![w].pc = pc]
          /\ acked' = acked \/ acked' = acked \cup {worker[w].event}
          /\ pc = "succeed" => worker[w].event \in acked'
    BY <1>5 DEF Post
  <2> QED
    BY <1>5, <2>1, GoOnKeeps DEF Post
<1>6. CASE RecordThrows(w)
  BY <1>6, GoOnKeeps DEF RecordThrows, history
<1>7. CASE RecordDelivered(w)
  BY <1>7, RecordDeliveredKeeps
<1>8. CASE Reschedule(w)
  BY <1>8, RescheduleKeeps
<1> QED
  BY <1>1, <1>2, <1>3, <1>4, <1>5, <1>6, <1>7, <1>8 DEF Dispatch

LEMMA RetryStepKeeps ==
  ASSUME TypeInv, NEW h \in Admin, RetryStep(h)
  PROVE  TypeInv'
<1>0. TypeOK
  BY DEF TypeInv
<1>1. ASSUME NEW e \in Event, RetryFind(h, e) PROVE TypeInv'
  <2>1. TypeOK'
    BY <1>0, <1>1, Empties DEF RetryFind, TypeOK, RetryState, history
  <2>2. RetryHasEvent'
    BY <1>0, <1>1 DEF RetryFind, TypeInv, TypeOK, RetryHasEvent, Present
  <2>3. WorkerHasEvent'
    BY <1>1 DEF RetryFind, TypeInv, WorkerHasEvent, Present, history
  <2> QED
    BY <2>1, <2>2, <2>3 DEF TypeInv
<1>2. CASE RetrySelect(h)
  <2>1. row[retry[h].event] \in Row
    BY <1>0, <1>2, RowParts DEF RetrySelect, TypeInv, RetryHasEvent
  <2>2. TypeOK'
    BY <1>0, <1>2, <2>1 DEF RetrySelect, TypeOK, RetryState, history
  <2>3. RetryHasEvent'
    BY <1>0, <1>2 DEF RetrySelect, TypeInv, TypeOK, RetryState,
                      RetryHasEvent, Present
  <2>4. WorkerHasEvent'
    BY <1>2 DEF RetrySelect, TypeInv, WorkerHasEvent, Present, history
  <2> QED
    BY <2>2, <2>3, <2>4 DEF TypeInv
<1>3. CASE RetryWrite(h)
  <2> PICK e : e = retry[h].event
    OBVIOUS
  <2>1. e \in Event /\ Present(e)
    BY <1>3 DEF RetryWrite, TypeInv, RetryHasEvent
  <2>2. /\ ResetRow(row[e], retry[h].seen) \in Row
        /\ ResetRow(row[e], retry[h].seen).status # "absent"
    BY <1>0, <2>1, RowParts, RetryParts, ResetRowType DEF Present
  <2>3. row' \in [Event -> Row]
    BY <1>0, <1>3, <2>1, <2>2 DEF RetryWrite, TypeOK
  <2>4. \A f \in Event : Present(f) => Present(f)'
    BY <1>0, <1>3, <2>1, <2>2 DEF RetryWrite, TypeOK, Present
  <2>5. TypeOK'
    BY <1>0, <1>3, <2>1, <2>3, Empties DEF RetryWrite, TypeOK
  <2>6. WorkerHasEvent'
    BY <1>3, <2>4 DEF RetryWrite, TypeInv, WorkerHasEvent
  <2>7. RetryHasEvent'
    BY <1>0, <1>3, <2>4 DEF RetryWrite, TypeInv, TypeOK, RetryHasEvent,
                            NoRetry
  <2> QED
    BY <2>5, <2>6, <2>7 DEF TypeInv
<1> QED
  BY <1>1, <1>2, <1>3 DEF RetryStep

LEMMA TypeStep == TypeInv /\ [Next]_vars => TypeInv'
<1> SUFFICES ASSUME TypeInv, [Next]_vars PROVE TypeInv'
  OBVIOUS
<1>1. CASE UNCHANGED vars
  BY <1>1 DEF vars, history, TypeInv, TypeOK, WorkerHasEvent, RetryHasEvent,
              Present
<1>2. CASE Next
  BY <1>2, WorkerKeeps, RetryStepKeeps, ServiceStepKeeps, BecomeDueKeeps
     DEF Next
<1> QED
  BY <1>1, <1>2

(* Table, workers and retries have their types, and what is at work has an *)
(* event to work on.                                                       *)
THEOREM TypeCorrect == Spec => []TypeOK
<1>1. TypeInv => TypeOK
  BY DEF TypeInv
<1> QED
  BY <1>1, Initially, TypeStep, PTL DEF Spec

-----------------------------------------------------------------------------
(* The claims made of an event are counted by its row, until a manual      *)
(* retry overlaps with an update: then the row may have counted more.  And *)
(* a pending event has its next attempt scheduled, a settled one has none  *)
(* unless such a retry gave it one.                                        *)
Sound(e) ==
  /\ row[e].claim # None => Pending(e)
  /\ tries[e] <= row[e].attempts
  /\ ~Present(e) => tries[e] = 0
  /\ e \notin overtaken => tries[e] = row[e].attempts
  /\ row[e].status = "exhausted" /\ e \notin overtaken
       => row[e].attempts = MaxAttempts
  /\ Pending(e) => row[e].next # "null"
  /\ row[e].next # "null" /\ e \notin overtaken => Pending(e)

OutboxInv == TypeInv /\ \A e \in Event : Sound(e)

LEMMA SoundInitially == Init => \A e \in Event : Sound(e)
BY DEF Init, Sound, NoRow, Present, Pending

(* An event whose row, claims and retries a step leaves alone stays sound. *)
LEMMA Elsewhere ==
  ASSUME NEW e \in Event, Sound(e), row'[e] = row[e], tries'[e] = tries[e],
         e \in overtaken' <=> e \in overtaken
  PROVE  Sound(e)'
BY DEF Sound, Pending, Present

LEMMA EnqueueSound ==
  ASSUME OutboxInv, NEW s \in Service, NEW e \in Event,
         NEW type \in EventType, Enqueue(e, s, type), NEW f \in Event
  PROVE  Sound(f)'
<1>0. TypeOK /\ Sound(e) /\ Sound(f)
  BY DEF OutboxInv, TypeInv
<1>1. CASE f = e
  BY <1>0, <1>1 DEF Enqueue, TypeOK, Sound, Pending, Present, history
<1>2. CASE f # e
  BY <1>0, <1>2, Elsewhere DEF Enqueue, TypeOK, history
<1> QED
  BY <1>1, <1>2

LEMMA BecomeDueSound ==
  ASSUME OutboxInv, NEW e \in Event, BecomeDue(e), NEW f \in Event
  PROVE  Sound(f)'
<1>0. TypeOK /\ Sound(e) /\ Sound(f)
  BY DEF OutboxInv, TypeInv
<1>1. CASE f = e
  <2>1. row'[e] = [row[e] EXCEPT !.next = "due"]
    BY <1>0 DEF BecomeDue, TypeOK
  <2> QED
    BY <1>0, <1>1, <2>1, RowParts
       DEF BecomeDue, Sound, Pending, Present, history, Row
<1>2. CASE f # e
  BY <1>0, <1>2, Elsewhere DEF BecomeDue, TypeOK, history
<1> QED
  BY <1>1, <1>2

LEMMA SweepSound ==
  ASSUME OutboxInv, NEW w \in Worker, Sweep(w), NEW f \in Event
  PROVE  Sound(f)'
<1>0. TypeOK /\ Sound(f)
  BY DEF OutboxInv, TypeInv
<1>1. CASE Expired(f)
  <2>1. row'[f] = [row[f] EXCEPT !.status = "exhausted", !.next = "null",
                                 !.claim = None]
    BY <1>1 DEF Sweep
  <2>2. row[f].attempts = MaxAttempts
    BY <1>0, <1>1, RowParts, MaxAttemptsAssumption DEF Expired
  <2> QED
    BY <1>0, <2>1, <2>2, RowParts DEF Sweep, Sound, Pending, Present,
                                      history, Row
<1>2. CASE ~Expired(f)
  BY <1>0, <1>2, Elsewhere DEF Sweep, history
<1> QED
  BY <1>1, <1>2

LEMMA ClaimSound ==
  ASSUME OutboxInv, NEW w \in Worker, NEW e \in Event, Claim(w, e),
         NEW f \in Event
  PROVE  Sound(f)'
<1>0. TypeOK /\ Sound(e) /\ Sound(f)
  BY DEF OutboxInv, TypeInv
<1>1. CASE f = e
  <2>1. row'[e] = [row[e] EXCEPT !.attempts = row[e].attempts + 1,
                                 !.next = "later", !.claim = w]
    BY <1>0 DEF Claim, TypeOK
  <2>2. tries'[e] = tries[e] + 1 /\ overtaken' = overtaken
    BY <1>0 DEF Claim, TypeOK
  <2>3. Pending(e)
    BY DEF Claim, Claimable
  <2>4. tries[e] \in Nat
    BY <1>0 DEF TypeOK
  <2> QED
    BY <1>0, <1>1, <2>1, <2>2, <2>3, <2>4, RowParts, MaxAttemptsAssumption
       DEF Sound, Pending, Present, Row
<1>2. CASE f # e
  BY <1>0, <1>2, Elsewhere DEF Claim, TypeOK
<1> QED
  BY <1>1, <1>2

LEMMA RecordDeliveredSound ==
  ASSUME OutboxInv, NEW w \in Worker, RecordDelivered(w), NEW f \in Event
  PROVE  Sound(f)'
<1>0. TypeOK /\ Sound(f)
  BY DEF OutboxInv, TypeInv
<1> PICK e : e = worker[w].event
  OBVIOUS
<1>1. CASE f = e /\ Owns(w)
  <2>1. row'[f] = [row[f] EXCEPT !.status = "delivered", !.next = "null",
                                 !.claim = None]
    BY <1>0, <1>1 DEF RecordDelivered, TypeOK
  <2>2. /\ row'[f].status = "delivered"
        /\ row'[f].attempts = row[f].attempts
        /\ row'[f].claim = None
        /\ row'[f].next = "null"
    BY <1>0, <2>1, RowParts DEF Row
  <2>3. Present(f)
    BY <1>1 DEF RecordDelivered, OutboxInv, TypeInv, WorkerHasEvent
  <2>4. UNCHANGED <<tries, overtaken>>
    BY DEF RecordDelivered, history
  <2> QED
    BY <1>0, <2>2, <2>3, <2>4 DEF Sound, Pending, Present
<1>2. CASE ~(f = e /\ Owns(w))
  BY <1>0, <1>2, Elsewhere DEF RecordDelivered, TypeOK, history
<1> QED
  BY <1>1, <1>2

LEMMA RescheduleSound ==
  ASSUME OutboxInv, NEW w \in Worker, Reschedule(w), NEW f \in Event
  PROVE  Sound(f)'
<1>0. TypeOK /\ Sound(f)
  BY DEF OutboxInv, TypeInv
<1> PICK e : e = worker[w].event
  OBVIOUS
<1>1. CASE f = e /\ Owns(w)
  <2>1. PICK status, next :
          /\ status = IF worker[w].attempts >= MaxAttempts THEN "exhausted"
                      ELSE "pending"
          /\ next = IF worker[w].attempts >= MaxAttempts THEN "null"
                    ELSE "later"
    OBVIOUS
  <2>2. row' = [row EXCEPT ![f].status = status, ![f].next = next,
                           ![f].claim = None]
    BY <1>1, <2>1 DEF Reschedule
  <2>3. /\ row'[f].status = status
        /\ row'[f].attempts = row[f].attempts
        /\ row'[f].claim = None
        /\ row'[f].next = next
    BY <1>0, <2>2, RowParts DEF TypeOK, Row
  <2>4. status = "exhausted" => row[f].attempts = MaxAttempts
    BY <1>0, <1>1, <2>1, RowParts, MaxAttemptsAssumption DEF Owns
  <2>5. /\ status \in {"exhausted", "pending"}
        /\ next = "null" <=> status = "exhausted"
    BY <2>1
  <2>6. UNCHANGED <<tries, overtaken>>
    BY DEF Reschedule, history
  <2> QED
    BY <1>0, <2>3, <2>4, <2>5, <2>6 DEF Sound, Pending, Present
<1>2. CASE ~(f = e /\ Owns(w))
  BY <1>0, <1>2, Elsewhere DEF Reschedule, TypeOK, history
<1> QED
  BY <1>1, <1>2

LEMMA RetryWriteSound ==
  ASSUME OutboxInv, NEW h \in Admin, RetryWrite(h), NEW f \in Event
  PROVE  Sound(f)'
<1>0. TypeOK /\ Sound(f)
  BY DEF OutboxInv, TypeInv
<1> PICK e : e = retry[h].event
  OBVIOUS
<1>1. CASE f = e
  <2> PICK new, seen : /\ new = row'[f]
                       /\ seen = retry[h].seen
    OBVIOUS
  <2>0. /\ retry[h].pc = "write"
        /\ \/ Unchanged(row[e], retry[h].seen)
           \/ overtaken' = overtaken \cup {e}
    BY DEF RetryWrite
  <2>1. Present(f)
    BY <1>1, <2>0 DEF OutboxInv, TypeInv, RetryHasEvent
  <2>2. new = ResetRow(row[f], seen)
    BY <1>0, <1>1 DEF RetryWrite, TypeOK
  <2>3. /\ new.status = IF seen.status # "pending" THEN "pending"
                        ELSE row[f].status
        /\ new.attempts = IF seen.attempts # 0 THEN 0 ELSE row[f].attempts
        /\ new.claim = IF seen.claim # None THEN None ELSE row[f].claim
        /\ new.next = "due"
    BY <1>0, <2>2, RowParts DEF ResetRow, Row
  <2>4. new.claim # None => new.status = "pending"
    BY <1>0, <2>3 DEF Sound, Pending
  <2>5. new.attempts \in Nat /\ new.status # "absent"
    BY <1>0, <2>1, <2>3, RowParts DEF Present
  <2>6. tries'[f] = 0
    BY <1>0, <1>1 DEF RetryWrite, TypeOK
  <2>7. f \notin overtaken' => Unchanged(row[f], seen)
    BY <1>1, <2>0
  <2>8. f \notin overtaken' => new.attempts = 0 /\ new.status = "pending"
    BY <2>3, <2>7 DEF Unchanged
  <2> QED
    BY <2>3, <2>4, <2>5, <2>6, <2>8 DEF Sound, Pending, Present
<1>2. CASE f # e
  BY <1>0, <1>2, Elsewhere DEF RetryWrite, TypeOK
<1> QED
  BY <1>1, <1>2

LEMMA SoundStep ==
  ASSUME OutboxInv, [Next]_vars, NEW f \in Event
  PROVE  Sound(f)'
<1>0. Sound(f)
  BY DEF OutboxInv
<1>1. CASE UNCHANGED <<row, tries, overtaken>>
  BY <1>0, <1>1, Elsewhere
<1>2. CASE UNCHANGED vars
  BY <1>0, <1>2, Elsewhere DEF vars, history
<1>3. ASSUME NEW w \in Worker, Dispatch(w) \/ RecordThrows(w) \/ WorkerFails(w)
      PROVE  Sound(f)'
  BY <1>1, <1>3, SweepSound, ClaimSound, RecordDeliveredSound, RescheduleSound
     DEF Dispatch, ClaimNothing, FindSubscription, Post, RecordThrows,
         WorkerFails, history
<1>4. ASSUME NEW h \in Admin, RetryStep(h) PROVE Sound(f)'
  BY <1>1, <1>4, RetryWriteSound
     DEF RetryStep, RetryFind, RetrySelect, history
<1>5. ASSUME NEW s \in Service, ServiceStep(s) PROVE Sound(f)'
  BY <1>1, <1>5, EnqueueSound DEF ServiceStep, Subscribe, SetStatus, history
<1> QED
  BY <1>2, <1>3, <1>4, <1>5, BecomeDueSound DEF Next

(* Every reachable state of the outbox satisfies the inductive invariant.  *)
THEOREM OutboxInvariant == Spec => []OutboxInv
<1>1. Init => OutboxInv
  BY Initially, SoundInitially DEF OutboxInv
<1>2. OutboxInv /\ [Next]_vars => OutboxInv'
  BY TypeStep, SoundStep DEF OutboxInv
<1> QED
  BY <1>1, <1>2, PTL DEF Spec

(* A claim never outlives its attempt: ClaimImpliesPending holds of every  *)
(* reachable state.                                                        *)
THEOREM ClaimImpliesPendingHolds == Spec => []ClaimImpliesPending
<1>1. OutboxInv => ClaimImpliesPending
  BY DEF OutboxInv, Sound, ClaimImpliesPending
<1> QED
  BY <1>1, OutboxInvariant, PTL

(* No event is claimed more than MaxAttempts times between two manual      *)
(* retries: TriesBounded holds of every reachable state.                   *)
THEOREM TriesBoundedHolds == Spec => []TriesBounded
<1>1. OutboxInv => TriesBounded
  <2> SUFFICES ASSUME OutboxInv, NEW e \in Event
               PROVE  tries[e] <= MaxAttempts
    BY DEF TriesBounded
  <2>1. TypeOK /\ Sound(e)
    BY DEF OutboxInv, TypeInv
  <2>2. tries[e] \in Nat
    BY <2>1 DEF TypeOK
  <2> QED
    BY <2>1, <2>2, RowParts, MaxAttemptsAssumption DEF Sound
<1> QED
  BY <1>1, OutboxInvariant, PTL

(* No event is given up early: ExhaustedAfterAllTries holds of every       *)
(* reachable state.                                                        *)
THEOREM ExhaustedAfterAllTriesHolds == Spec => []ExhaustedAfterAllTries
<1>1. OutboxInv => ExhaustedAfterAllTries
  BY DEF OutboxInv, Sound, ExhaustedAfterAllTries
<1> QED
  BY <1>1, OutboxInvariant, PTL

(* No event is forgotten: a pending event always has a time of its next    *)
(* attempt, at which a worker claims it or sweeps it, and a settled one    *)
(* has none, unless a manual retry wrote over the row while a worker       *)
(* settled it.  That a due event is claimed in time is Settles.            *)
THEOREM PendingIsScheduled ==
  Spec => [](\A e \in Event :
               /\ Pending(e) => row[e].next # "null"
               /\ row[e].next # "null" /\ e \notin overtaken => Pending(e))
<1>1. OutboxInv =>
        \A e \in Event :
          /\ Pending(e) => row[e].next # "null"
          /\ row[e].next # "null" /\ e \notin overtaken => Pending(e)
  BY DEF OutboxInv, Sound
<1> QED
  BY <1>1, OutboxInvariant, PTL

-----------------------------------------------------------------------------
(* The refinement.  What the outbox reports of an event is its status; the *)
(* events asked for again are those of the retries at work.                *)
Outcome == [e \in Event |-> row[e].status]

Asked == {retry[h].event : h \in Admin} \ {None}

Abstract == <<Outcome, acked, Asked>>

LEMMA DeliveryActions ==
  /\ \A e \in Event :
       /\ Delivery!Enqueue(e) => Delivery!Next
       /\ Delivery!Acknowledge(e) => Delivery!Next
       /\ Delivery!Deliver(e) => Delivery!Next
       /\ Delivery!Ask(e) => Delivery!Next
       /\ Delivery!Redeliver(e) => Delivery!Next
  /\ \A events \in SUBSET Event : Delivery!GiveUp(events) => Delivery!Next
BY DEF Delivery!Next

(* An action that keeps every status, every retry and every answer is a    *)
(* stutter.                                                                *)
LEMMA Stutter ==
  ASSUME \A e \in Event : row'[e].status = row[e].status,
         retry' = retry, acked' = acked
  PROVE  UNCHANGED Abstract
BY DEF Abstract, Outcome, Asked

(* A manual retry keeps Asked unless it begins or ends.                    *)
LEMMA AskedStep ==
  ASSUME TypeInv, NEW h \in Admin, NEW new \in RetryState,
         retry' = [retry EXCEPT ![h] = new]
  PROVE  /\ retry[h].event = None =>
              Asked' = Asked \cup ({new.event} \ {None})
         /\ new.event = retry[h].event => Asked' = Asked
         /\ new.event = None =>
              Asked' \in {Asked, Asked \ {retry[h].event}}
<1>1. \A g \in Admin :
        retry'[g].event = IF g = h THEN new.event ELSE retry[g].event
  BY DEF TypeInv, TypeOK
<1>2. Asked' = {retry'[g].event : g \in Admin} \ {None}
  BY DEF Asked
<1>3. ASSUME retry[h].event = None
      PROVE  Asked' = Asked \cup ({new.event} \ {None})
  BY <1>1, <1>2, <1>3 DEF Asked
<1>4. ASSUME new.event = retry[h].event PROVE Asked' = Asked
  BY <1>1, <1>2, <1>4 DEF Asked
<1>5. ASSUME new.event = None
      PROVE  Asked' \in {Asked, Asked \ {retry[h].event}}
  <2>1. CASE \E g \in Admin : g # h /\ retry[g].event = retry[h].event
    BY <1>1, <1>2, <1>5, <2>1 DEF Asked
  <2>2. CASE ~ \E g \in Admin : g # h /\ retry[g].event = retry[h].event
    BY <1>1, <1>2, <1>5, <2>2 DEF Asked
  <2> QED
    BY <2>1, <2>2
<1> QED
  BY <1>3, <1>4, <1>5

LEMMA AbstractInit == Init => Delivery!Init
BY DEF Init, Delivery!Init, NoRow, NoRetry

LEMMA EnqueueDelivers ==
  ASSUME OutboxInv, NEW s \in Service, NEW e \in Event,
         NEW type \in EventType, Enqueue(e, s, type)
  PROVE  Delivery!Enqueue(e)
<1>1. TypeOK /\ row[e].status = "absent"
  BY DEF OutboxInv, TypeInv, Enqueue, Present
<1>2. Outcome' = [Outcome EXCEPT ![e] = "pending"]
  BY <1>1 DEF Outcome, Enqueue, TypeOK
<1> QED
  BY <1>1, <1>2 DEF Delivery!Enqueue, Outcome, Enqueue, history

LEMMA SweepGivesUp ==
  ASSUME OutboxInv, NEW w \in Worker, Sweep(w)
  PROVE  Delivery!Next
<1> PICK events : events = {e \in Event : Expired(e)}
  OBVIOUS
<1>0. TypeOK
  BY DEF OutboxInv, TypeInv
<1>1. \A e \in Event :
        row'[e].status = IF Expired(e) THEN "exhausted" ELSE row[e].status
  BY <1>0, RowParts DEF Sweep, Row
<1>2. Outcome' = [e \in Event |-> IF e \in events THEN "exhausted"
                                  ELSE Outcome[e]]
  BY <1>1 DEF Outcome
<1>3. \A e \in events : Outcome[e] = "pending"
  BY DEF Expired, Pending, Outcome
<1>4. Delivery!GiveUp(events)
  BY <1>2, <1>3 DEF Delivery!GiveUp, Outcome, Sweep, history
<1> QED
  BY <1>4, DeliveryActions

LEMMA ClaimStutters ==
  ASSUME OutboxInv, NEW w \in Worker, NEW e \in Event, Claim(w, e)
  PROVE  UNCHANGED Abstract
<1>0. TypeOK
  BY DEF OutboxInv, TypeInv
<1>1. \A f \in Event : row'[f].status = row[f].status
  BY <1>0, RowParts DEF Claim, TypeOK, Row
<1> QED
  BY <1>1, Stutter DEF Claim

LEMMA BecomeDueStutters ==
  ASSUME OutboxInv, NEW e \in Event, BecomeDue(e)
  PROVE  UNCHANGED Abstract
<1>0. TypeOK
  BY DEF OutboxInv, TypeInv
<1>1. \A f \in Event : row'[f].status = row[f].status
  BY <1>0, RowParts DEF BecomeDue, TypeOK, Row
<1> QED
  BY <1>1, Stutter DEF BecomeDue, history

LEMMA PostAcknowledges ==
  ASSUME OutboxInv, NEW w \in Worker, Post(w)
  PROVE  Delivery!Next \/ UNCHANGED Abstract
<1> PICK e : e = worker[w].event
  OBVIOUS
<1>1. e \in Event /\ Present(e)
  BY DEF OutboxInv, TypeInv, WorkerHasEvent, Post
<1>2. CASE acked' = acked
  BY <1>2, Stutter DEF Post
<1>3. CASE acked' = acked \cup {e}
  <2>1. Delivery!Acknowledge(e)
    BY <1>1, <1>3 DEF Delivery!Acknowledge, Post, Present
  <2> QED
    BY <1>1, <2>1, DeliveryActions
<1> QED
  BY <1>2, <1>3 DEF Post

(* A worker that owns its claim settles a pending event.                   *)
LEMMA OwnedIsPending ==
  ASSUME OutboxInv, NEW w \in Worker, Owns(w), worker[w].event \in Event
  PROVE  row[worker[w].event].status = "pending"
BY NoneAssumption DEF OutboxInv, Sound, Owns, Pending

LEMMA RecordDelivers ==
  ASSUME OutboxInv, NEW w \in Worker, RecordDelivered(w)
  PROVE  Delivery!Next \/ UNCHANGED Abstract
<1> PICK e : e = worker[w].event
  OBVIOUS
<1>0. TypeOK
  BY DEF OutboxInv, TypeInv
<1>1. e \in Event /\ e \in acked
  BY DEF RecordDelivered, OutboxInv, TypeInv, WorkerHasEvent
<1>2. UNCHANGED <<retry, acked>>
  BY DEF RecordDelivered, history
<1>3. CASE Owns(w)
  <2>1. row' = [row EXCEPT ![e].status = "delivered", ![e].next = "null",
                           ![e].claim = None]
    BY <1>3 DEF RecordDelivered
  <2>2. \A f \in Event :
          row'[f].status = IF f = e THEN "delivered" ELSE row[f].status
    BY <1>0, <1>1, <2>1, RowParts DEF TypeOK, Row
  <2>3. Outcome' = [Outcome EXCEPT ![e] = "delivered"]
    BY <2>2 DEF Outcome
  <2>4. Outcome[e] = "pending"
    BY <1>1, <1>3, OwnedIsPending DEF Outcome
  <2>5. Delivery!Deliver(e)
    BY <1>1, <1>2, <2>3, <2>4 DEF Delivery!Deliver, Outcome
  <2> QED
    BY <1>1, <2>5, DeliveryActions
<1>4. CASE ~Owns(w)
  BY <1>2, <1>4, Stutter DEF RecordDelivered
<1> QED
  BY <1>3, <1>4

LEMMA RescheduleGivesUp ==
  ASSUME OutboxInv, NEW w \in Worker, Reschedule(w)
  PROVE  Delivery!Next \/ UNCHANGED Abstract
<1> PICK e, status, next :
      /\ e = worker[w].event
      /\ status = IF worker[w].attempts >= MaxAttempts THEN "exhausted"
                  ELSE "pending"
      /\ next = IF worker[w].attempts >= MaxAttempts THEN "null" ELSE "later"
  OBVIOUS
<1>0. TypeOK
  BY DEF OutboxInv, TypeInv
<1>1. e \in Event
  BY DEF Reschedule, OutboxInv, TypeInv, WorkerHasEvent
<1>2. UNCHANGED <<retry, acked>>
  BY DEF Reschedule, history
<1>3. CASE Owns(w)
  <2>1. row' = [row EXCEPT ![e].status = status, ![e].next = next,
                           ![e].claim = None]
    BY <1>3 DEF Reschedule
  <2>2. \A f \in Event :
          row'[f].status = IF f = e THEN status ELSE row[f].status
    BY <1>0, <1>1, <2>1, RowParts DEF TypeOK, Row
  <2>3. row[e].status = "pending"
    BY <1>1, <1>3, OwnedIsPending
  <2>4. CASE status = "pending"
    BY <1>2, <2>2, <2>3, <2>4, Stutter
  <2>5. CASE status = "exhausted"
    <3>1. Outcome' = [f \in Event |-> IF f \in {e} THEN "exhausted"
                                      ELSE Outcome[f]]
      BY <2>2, <2>5 DEF Outcome
    <3>2. \A f \in {e} : Outcome[f] = "pending"
      BY <1>1, <2>3 DEF Outcome
    <3> PICK events : events = {e}
      OBVIOUS
    <3>3. Delivery!GiveUp(events)
      BY <1>2, <3>1, <3>2 DEF Delivery!GiveUp, Outcome
    <3> QED
      BY <1>1, <3>3, DeliveryActions
  <2> QED
    BY <2>4, <2>5
<1>4. CASE ~Owns(w)
  BY <1>2, <1>4, Stutter DEF Reschedule
<1> QED
  BY <1>3, <1>4

LEMMA RetryFindAsks ==
  ASSUME OutboxInv, NEW h \in Admin, NEW e \in Event, RetryFind(h, e)
  PROVE  Delivery!Ask(e)
<1>1. [pc |-> "select", event |-> e, seen |-> NoRow] \in RetryState
  BY Empties DEF RetryState
<1>2. retry[h].event = None
  BY DEF RetryFind, OutboxInv, TypeInv, RetryHasEvent
<1>3. Asked' = Asked \cup {e}
  BY <1>1, <1>2, AskedStep, NoneAssumption DEF RetryFind, OutboxInv
<1>4. Outcome[e] # "absent" /\ Outcome' = Outcome
  BY DEF RetryFind, Outcome, Present
<1> QED
  BY <1>3, <1>4 DEF Delivery!Ask, Asked, Outcome, RetryFind, history

LEMMA RetrySelectStutters ==
  ASSUME OutboxInv, NEW h \in Admin, RetrySelect(h)
  PROVE  UNCHANGED Abstract
<1>1. \A g \in Admin : retry'[g].event = retry[g].event
  BY DEF RetrySelect, OutboxInv, TypeInv, TypeOK, RetryState
<1> QED
  BY <1>1 DEF RetrySelect, Abstract, Outcome, Asked, history

LEMMA RetryWriteRedelivers ==
  ASSUME OutboxInv, NEW h \in Admin, RetryWrite(h)
  PROVE  Delivery!Next
<1> PICK e : e = retry[h].event
  OBVIOUS
<1>0. TypeOK
  BY DEF OutboxInv, TypeInv
<1>1. retry[h].pc = "write" /\ acked' = acked
  BY DEF RetryWrite
<1>2. e \in Event
  BY <1>1 DEF OutboxInv, TypeInv, RetryHasEvent
<1>3. e \in Asked
  BY <1>2, NoneAssumption DEF Asked
<1>4. Asked' \in {Asked, Asked \ {e}}
  BY Empties, AskedStep DEF RetryWrite, OutboxInv, NoRetry
<1>5. PICK new : new = ResetRow(row[e], retry[h].seen)
  OBVIOUS
<1>6. new.status \in {row[e].status, "pending"}
  BY <1>0, <1>2, <1>5, RowParts DEF ResetRow, Row
<1>7. row' = [row EXCEPT ![e] = new]
  BY <1>5 DEF RetryWrite
<1>8. \A f \in Event :
        row'[f].status = IF f = e THEN new.status ELSE row[f].status
  BY <1>0, <1>2, <1>7 DEF TypeOK
<1>9. Outcome' \in {Outcome, [Outcome EXCEPT ![e] = "pending"]}
  <2>1. Outcome' = [Outcome EXCEPT ![e] = new.status]
    BY <1>8 DEF Outcome
  <2>2. CASE new.status = "pending"
    BY <2>1, <2>2
  <2>3. CASE new.status = row[e].status
    BY <2>1, <2>3 DEF Outcome
  <2> QED
    BY <1>6, <2>2, <2>3
<1>10. Delivery!Redeliver(e)
  BY <1>1, <1>3, <1>4, <1>9 DEF Delivery!Redeliver, Asked, Outcome
<1> QED
  BY <1>2, <1>10, DeliveryActions

LEMMA DeliveryStep ==
  ASSUME OutboxInv, [Next]_vars
  PROVE  Delivery!Next \/ UNCHANGED Abstract
<1>1. ASSUME UNCHANGED <<row, retry, acked>> PROVE UNCHANGED Abstract
  BY <1>1, Stutter
<1>2. CASE UNCHANGED vars
  BY <1>1, <1>2 DEF vars, history
<1>3. ASSUME NEW w \in Worker, Dispatch(w)
      PROVE  Delivery!Next \/ UNCHANGED Abstract
  <2>1. CASE \E e \in Event : Claim(w, e)
    BY <2>1, ClaimStutters
  <2>2. CASE ClaimNothing(w) \/ FindSubscription(w)
    BY <1>1, <2>2 DEF ClaimNothing, FindSubscription, history
  <2> QED
    BY <1>3, <2>1, <2>2, SweepGivesUp, PostAcknowledges, RecordDelivers,
       RescheduleGivesUp DEF Dispatch
<1>4. ASSUME NEW w \in Worker, RecordThrows(w) \/ WorkerFails(w)
      PROVE  UNCHANGED Abstract
  BY <1>1, <1>4 DEF RecordThrows, WorkerFails, history
<1>5. ASSUME NEW h \in Admin, RetryStep(h)
      PROVE  Delivery!Next \/ UNCHANGED Abstract
  BY <1>5, RetryFindAsks, DeliveryActions, RetrySelectStutters,
     RetryWriteRedelivers DEF RetryStep
<1>6. ASSUME NEW s \in Service, ServiceStep(s)
      PROVE  Delivery!Next \/ UNCHANGED Abstract
  BY <1>1, <1>6, EnqueueDelivers, DeliveryActions
     DEF ServiceStep, Subscribe, SetStatus, history
<1> QED
  BY <1>2, <1>3, <1>4, <1>5, <1>6, BecomeDueStutters DEF Next

(* The outbox, with its leases, claims, sweeps and partial saves,          *)
(* implements EventDelivery: only acknowledged events are reported         *)
(* delivered, and settled events move only for an administrator.           *)
THEOREM OutboxImplementsDelivery == Spec => ImplementsDelivery
<1>1. OutboxInv /\ [Next]_vars =>
        [Delivery!Next]_<<Outcome, acked, Asked>>
  BY DeliveryStep DEF Abstract
<1> QED
  BY <1>1, AbstractInit, OutboxInvariant, PTL
     DEF Spec, ImplementsDelivery, Delivery!Spec, Outcome, Asked
=============================================================================
