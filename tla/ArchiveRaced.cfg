\* A student archived while it is moved to another class.
CONSTANTS
    Students = {s1}
    Classes = {c1, c2}
    Leads = {}
    Handlers = {h1, h2}
    Grades = {1}
    GradeOf <- MCGradeOf
    Capacities = {1}
    MaxOpen = 2
    None = None
SPECIFICATION Spec
CHECK_DEADLOCK FALSE
INVARIANTS
    ArchivedIsOut
