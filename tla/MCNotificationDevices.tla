----------------------- MODULE MCNotificationDevices -----------------------
(* NotificationDevices on small instances.  Handlers, tokens and devices   *)
(* are interchangeable when all devices are one account's.                 *)
EXTENDS NotificationDevices, TLC

Symmetry == Permutations(Call) \cup Permutations(PushToken)
              \cup Permutations(Device)
=============================================================================
