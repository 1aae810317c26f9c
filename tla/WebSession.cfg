SPECIFICATION MCSpec
CONSTANTS
    People = {p1, p2}
    Calls = {k1, k2}
    Guards = {g1}
    MaxLogins = 2
    MaxTokens = 2
    MaxFaults = 1
    Nil = Nil
SYMMETRY Alike
CONSTRAINT OneSession
CHECK_DEADLOCK FALSE
INVARIANTS
    ReuseIsExcused
    SignedOutStaysOut
    TabIsOfOnePerson
    LogoutEndsSession
