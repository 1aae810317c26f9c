\* Payme: one transaction and three calls in flight, the timeout within reach.
\* Click: two transactions and three requests in flight, for two amounts.
SPECIFICATION MCSpec
CONSTANTS
    h1 = h1
    h2 = h2
    h3 = h3
    c1 = c1
    c2 = c2
    Ids = {p1}
    Handlers = {h1, h2, h3}
    Timeout = 1
    MaxClock = 4
    ClickIds = {c1, c2}
    ClickHandlers = {h1, h2, h3}
    Amounts = {100, 200}
    Students = {s1}
SYMMETRY Alike
CHECK_DEADLOCK FALSE
INVARIANTS
    BooksAgree
    ToldIsKept
    AnswersAgree
    NoLateMoney
    ClickIsBooked
PROPERTIES
    ImplementsLedger
    ClickImplementsLedger
