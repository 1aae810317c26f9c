SPECIFICATION FiguresSpec
CONSTANTS
    s1 = s1
    s2 = s2
    c1 = c1
    c2 = c2
    Pupils = {s1, s2}
    Classes = {c1, c2}
    Nowhere = Nowhere
    Seats = 2
    Amounts = {1, 3}
    MonthDays = 1
    MeanLength = 2
    LastDay = 1
    MaxRecords = 2
    Statuses = {"PRESENT"}
    Backdates = {0}
    MaxChanges = 1
SYMMETRY Alike
CHECK_DEADLOCK FALSE
INVARIANTS
    ServicesAgree
    OwedOrCollected
