\* A password change while another session is being refreshed.
CONSTANTS
    Tokens = {t1, t2, t3}
    Users = {u1}
    Handlers = {h1, h2}
    None = None
SPECIFICATION Spec
SYMMETRY Symmetry
CHECK_DEADLOCK FALSE
INVARIANTS
    PasswordChangeEndsSessions
