SPECIFICATION MCSpec
CONSTANTS
    s1 = s1
    s2 = s2
    s3 = s3
    h1 = h1
    h2 = h2
    l1 = l1
    l2 = l2
    Clubs = {"chess"}
    Pupils = {s1, s2, s3}
    Desks = {h1, h2}
    Levels = {1}
    LevelOf <- MCLevelOf
    Seats = {1, 2}
    MaxClubEdits = 3
    Lessons = {l1, l2}
    Slots = {1, 2}
    Groups = {1, 2}
    Teachers = {1, 2}
    Rooms = {1, 2}
    Plans <- MCPlans
    Dates = {"monday"}
    Clerks = {h1, h2}
    Users = {"admin", "manager", "t1", "t2"}
    RoleOf <- MCRoleOf
    HeadPosts = {"5A"}
    SubjectPosts = {"maths"}
    Offices = {h1, h2}
    MaxSecrets = 2
    Nobody = Nobody
    Children = {s1, s2}
    Markers = {h1, h2}
    MaxSheets = 3
    Untouched = Untouched
SYMMETRY Alike
CONSTRAINTS Unforgiven OneOfBoth
CHECK_DEADLOCK FALSE
INVARIANTS
    SeatsOverrunBounded
    OneTimetable
    NoDoubleBooking
    LastWordStands
    PostsGoToTeachers
    SignedByItsAuthor
    AbsenceIsTold
PROPERTY
    CoveredOnce
