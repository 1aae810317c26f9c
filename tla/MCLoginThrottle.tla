--------------------------- MODULE MCLoginThrottle ---------------------------
(* Instances of LoginThrottle for TLC.                                     *)
EXTENDS LoginThrottle, TLC

Symmetry == Permutations(Requests) \cup Permutations(Emails)
=============================================================================
