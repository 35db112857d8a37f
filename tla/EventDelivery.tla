---------------------------- MODULE EventDelivery ----------------------------
(***************************************************************************)
(* What the webhook outbox promises of each event, without workers, claims *)
(* or leases: an event is reported delivered only if its receiver has      *)
(* acknowledged it, an event that was delivered or given up stays so       *)
(* unless an administrator has asked for it again, and none is forgotten.  *)
(***************************************************************************)
CONSTANT Event

VARIABLES outcome, \* what the outbox reports of each event
          acked,   \* the events whose receiver has answered 2xx
          asked    \* the events some administrator is asking for again

Init ==
  /\ outcome = [e \in Event |-> "absent"]
  /\ acked = {}
  /\ asked = {}

Enqueue(e) ==
  /\ outcome[e] = "absent"
  /\ outcome' = [outcome EXCEPT ![e] = "pending"]
  /\ UNCHANGED <<acked, asked>>

Acknowledge(e) ==
  /\ outcome[e] # "absent"
  /\ acked' = acked \cup {e}
  /\ UNCHANGED <<outcome, asked>>

Deliver(e) ==
  /\ outcome[e] = "pending"
  /\ e \in acked
  /\ outcome' = [outcome EXCEPT ![e] = "delivered"]
  /\ UNCHANGED <<acked, asked>>

(* Several events may be given up at once.                                 *)
GiveUp(events) ==
  /\ \A e \in events : outcome[e] = "pending"
  /\ outcome' = [e \in Event |-> IF e \in events THEN "exhausted"
                                 ELSE outcome[e]]
  /\ UNCHANGED <<acked, asked>>

Ask(e) ==
  /\ outcome[e] # "absent"
  /\ asked' = asked \cup {e}
  /\ UNCHANGED <<outcome, acked>>

(* Another administrator may still be asking for the same event.  A        *)
(* request that overlaps with the event being settled may have no effect.  *)
Redeliver(e) ==
  /\ e \in asked
  /\ outcome' \in {outcome, [outcome EXCEPT ![e] = "pending"]}
  /\ asked' \in {asked, asked \ {e}}
  /\ UNCHANGED acked

Next ==
  \/ \E e \in Event :
       \/ Enqueue(e)
       \/ Acknowledge(e)
       \/ Deliver(e)
       \/ Ask(e)
       \/ Redeliver(e)
  \/ \E events \in SUBSET Event : GiveUp(events)

Spec == Init /\ [][Next]_<<outcome, acked, asked>>
=============================================================================
