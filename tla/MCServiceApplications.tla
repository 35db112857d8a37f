------------------------ MODULE MCServiceApplications ------------------------
(* Permissions and applications on small instances: handlers and the rows  *)
(* of applications are interchangeable.                                    *)
EXTENDS ServiceApplications, TLC

Symmetry == Permutations(Handler) \cup Permutations(Application)

(* The managed definitions have the lowest sort orders.                    *)
CONSTANTS member, manager

Order == [k \in Key |-> CASE k = Superadmin -> 0 [] k = Visitor -> 1
                          [] k = member -> 2 [] k = manager -> 3]

(* The operations that interfere meet in one of these.                     *)
WithoutCaller == {"put", "revoke", "update", "remove", "migrate"}

Workloads ==
  {{"firstLogin", "create", "service", "apply", "approve"},
   {"put", "revoke", "firstLogin", "migrate"},
   {"firstLogin", "update", "remove", "migrate", "service"},
   {"put", "firstLogin", "apply", "approve"},
   {"revoke", "firstLogin", "apply", "approve"},
   {"firstLogin", "migrate", "apply", "approve"}}

(* Two permissions to apply for where every operation has a caller, one in *)
(* the other workloads.                                                    *)
MCInit == Init /\ (operations \cap WithoutCaller # {}
                    => definition[manager] = "absent")

MCSpec == MCInit /\ [][Next]_vars
=============================================================================
