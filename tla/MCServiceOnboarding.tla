------------------------- MODULE MCServiceOnboarding -------------------------
(* Onboarding on small instances: a behaviour has items of one kind, with   *)
(* two rows for credentials and targets, and some of the operations on them. *)
(* Only the first workload runs operations that no controller calls.        *)
EXTENDS ServiceOnboarding, TLC

CONSTANTS i1, i2

Symmetry == Permutations(Handler) \cup Permutations(Request)

Of(k, second, omitted, ops) ==
  [kind |-> i1 :> k @@ i2 :> second, omitted |-> omitted, operations |-> ops]

Workloads ==
  {Of("client", "unused", {}, {"edit", "rotate"}),
   Of("client", "unused", {}, {"create", "approve"}),
   Of("credential", "unused", {}, {"create", "approve", "rotate", "status"}),
   Of("credential", "credential", {}, {"create", "approve", "rotate"}),
   Of("credential", "credential", {}, {"create", "approve", "reject"}),
   Of("subscription", "unused", {}, {"create", "approve", "rotate", "status"}),
   Of("subscription", "unused", {i1}, {"create", "approve", "status"}),
   Of("target", "target", {}, {"create", "approve"}),
   Of("target", "target", {i2}, {"create", "approve", "status"}),
   Of("permission", "unused", {}, {"create", "update", "approve", "reject"})}
==============================================================================
