----------------------------- MODULE MCAccounts -----------------------------
(* Accounts on small instances.  Handlers are interchangeable, and so are  *)
(* the accounts when all or none of them are super admins.                 *)
EXTENDS AccountRaces, TLC

Symmetry == Permutations(AdminCall) \cup Permutations(Account)
=============================================================================
