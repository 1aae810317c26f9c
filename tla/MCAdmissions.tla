---------------------------- MODULE MCAdmissions ----------------------------
(* The placement of students, and the way their parents get in, of which   *)
(* one runs: an invite names a student and reads nothing of him.           *)
EXTENDS MCStudentPlacement, Families

VARIABLE focus      \* the part that runs

MCInit ==
    /\ focus \in {"placement", "families"}
    /\ Init /\ FamiliesInit
    /\ focus = "families" => \A c \in Classes : \A n \in Capacities : class[c].capacity <= n

MCNext ==
    /\ UNCHANGED focus
    /\ \/ focus = "placement" /\ Next /\ UNCHANGED familyVars
       \/ focus = "families" /\ FamiliesNext /\ UNCHANGED vars

MCSpec == MCInit /\ [][MCNext]_<<focus, vars, familyVars>>

\* Goes no further than a first accident, of either part, and beyond two accounts
\* deleted.
FirstOfEach ==
    /\ FirstAccident
    /\ overtaken = {}
    /\ Cardinality({u \in Users : user[u].deleted}) <= 2

\* The values that name students, requests and classes name siblings, chores and
\* chats in the other part, and one permutation serves both.
Alike == Symmetry \cup Permutations(Invites)
=============================================================================
