------------------------- MODULE MCStudentPlacement -------------------------
(* Instances of StudentPlacement for TLC.                                  *)
EXTENDS StudentPlacement, TLC

MCGradeOf == [c \in Classes |-> 1]
Symmetry == Permutations(Students) \cup Permutations(Classes) \cup Permutations(Handlers)

\* Goes no further than the first save that undoes what it did not know of:
\* such a state is checked, and not left.
FirstAccident ==
    /\ torn = {} /\ overridden = {}
    /\ \A l \in Leads : reset[l] = 0
=============================================================================
