\* Both features on, and up to three dialogs opened on a page.  Beside the client:
\* two logins at a time, with two emails from one address; and two attempts at a
\* time that overlap with each other and with the end of a window.
SPECIFICATION MCSpec
CONSTANTS
    Flags = {"TELEGRAM_LOGIN", "PARENT_PORTAL"}
    MaxOpenings = 3
    Nothing = Nothing
    e1 = e1
    e2 = e2
    r1 = r1
    r2 = r2
    Emails = {e1, e2}
    Ips = {"here"}
    Requests = {r1, r2}
    MaxAttempts = 2
    MaxValue = 4
    Window = 2
    Attempts = {r1, r2}
    MaxPerWindow = 2
    QuotaBound = 6
SYMMETRY Alike
CHECK_DEADLOCK FALSE
INVARIANTS
    RefusalsAreKnown
    AnswersItsOwn
    LockIsEarned
    OverrunIsBounded
    TwoWindowsAtMost
