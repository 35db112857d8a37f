-------------------------- MODULE MCRefreshTokens --------------------------
(* RefreshTokens on small instances.  Tokens are interchangeable, and so   *)
(* are requests and clients.                                               *)
EXTENDS RefreshTokens, TLC

Symmetry == Permutations(Token) \cup Permutations(Request)
              \cup Permutations(Client)
=============================================================================
