---------------------------- MODULE MCSchoolDesk ----------------------------
(* The four parts of the school's desk, of which one runs: they share no   *)
(* state, so that what is checked is the sum of their state spaces.        *)
EXTENDS Clubs, Timetable, Staffing, Registers, TLC

CONSTANTS s1, s2, s3, h1, h2, l1, l2

VARIABLE focus      \* the part that runs

MCLevelOf == [s \in Pupils |-> 1]
MCRoleOf == [admin |-> "SUPER_ADMIN", manager |-> "MANAGER", t1 |-> "TEACHER",
              t2 |-> "TEACHER"]

Lesson(slot, group, teacher, room, active) ==
    [stored |-> TRUE, active |-> active, slot |-> slot, group |-> group,
     teacher |-> teacher, room |-> room]
MCPlans == {Lesson(1, 1, 1, 1, TRUE), Lesson(1, 1, 2, 2, TRUE), Lesson(1, 2, 1, 2, TRUE),
            Lesson(2, 1, 1, 1, FALSE)}

MCInit ==
    /\ focus \in {"clubs", "timetable", "staff", "registers"}
    /\ ClubsInit /\ TimetableInit /\ StaffInit /\ RegistersInit
    /\ focus # "staff" => \A u \in Users : RoleOf[u] # "SUPER_ADMIN" => ~account[u].born
    /\ focus # "registers" => register = "school"

MCNext ==
    /\ UNCHANGED focus
    /\ \/ /\ focus = "clubs" /\ ClubsNext
          /\ UNCHANGED <<timetableVars, staffVars, registerVars>>
       \/ /\ focus = "timetable" /\ TimetableNext
          /\ UNCHANGED <<clubVars, staffVars, registerVars>>
       \/ /\ focus = "staff" /\ StaffNext
          /\ UNCHANGED <<clubVars, timetableVars, registerVars>>
       \/ /\ focus = "registers" /\ RegistersNext
          /\ UNCHANGED <<clubVars, timetableVars, staffVars>>

MCSpec == MCInit /\ [][MCNext]_<<focus, clubVars, timetableVars, staffVars, registerVars>>

\* Where what a property forgives has happened, nothing more is to be seen.
Unforgiven == raced = {} /\ moved = {} /\ undone = {}

\* A manager or a second teacher: both make the accounts too many.
OneOfBoth == ~(account["manager"].born /\ account["t2"].born)

Alike == Permutations({s1, s2}) \cup Permutations({h1, h2}) \cup Permutations({l1, l2})
=============================================================================
