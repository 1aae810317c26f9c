----------------------------- MODULE MCFigures -----------------------------
(* An instance of Figures for TLC.                                         *)
EXTENDS Figures

CONSTANTS s1, s2, c1, c2
Alike == Permutations({s1, s2}) \cup Permutations({c1, c2})
=============================================================================
