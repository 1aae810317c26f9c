---------------------------- MODULE MCWebSession ----------------------------
(* An instance of WebSession for TLC.                                      *)
EXTENDS WebSession, TLC

VARIABLE kept       \* the tab was opened with a session

MCInit == WebInit /\ kept = (refresh # Nil)
MCNext == WebNext /\ UNCHANGED kept
MCSpec == MCInit /\ [][MCNext]_<<webVars, kept>>

\* A session that was kept is followed to its end, and not to the next one's.
OneSession == kept => family[2] = Unmade

Alike == Permutations(Calls) \cup Permutations(Guards) \cup Permutations(People)
=============================================================================
