--------------------------- MODULE MCRefreshTokens ---------------------------
(* Instances of RefreshTokens for TLC.                                     *)
EXTENDS RefreshTokens, TLC

Symmetry == Permutations(Tokens) \cup Permutations(Users) \cup Permutations(Handlers)
=============================================================================
