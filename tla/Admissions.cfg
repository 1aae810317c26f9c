\* Two requests at a time over two students, two classes of one grade and a lead;
\* and two over two invites for two students, two people and one of the staff.
CONSTANTS
    Students = {s1, s2}
    Classes = {x1, x2}
    Leads = {l1}
    Handlers = {h1, h2}
    Grades = {1, 2}
    GradeOf <- MCGradeOf
    Capacities = {1, 2}
    MaxOpen = 2
    None = None
    Staff = {a1}
    Chats = {x1, x2}
    Siblings = {s1, s2}
    Invites = {i1, i2}
    Codes = {d1}
    Chores = {h1, h2}
    Nobody = Nobody
SPECIFICATION MCSpec
SYMMETRY Alike
CONSTRAINT FirstOfEach
CHECK_DEADLOCK FALSE
INVARIANTS
    CapacityKept
    HistoryFollowsClass
    ConvertedOnce
    AdmittedByInvite
    InviteEndsOnce
