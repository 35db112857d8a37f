----------------------- MODULE MCNotificationDelivery -----------------------
(* NotificationDelivery on small instances.  Everything in a set is         *)
(* interchangeable; the symmetry is for safety runs.                        *)
EXTENDS NotificationDelivery, TLC

Symmetry == Permutations(Worker) \cup Permutations(Notification)
              \cup Permutations(Call) \cup Permutations(PushToken)
              \cup Permutations(Device)
=============================================================================
