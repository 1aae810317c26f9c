\* Two requests in flight over the sessions of one user.
CONSTANTS
    Tokens = {t1, t2, t3}
    Users = {u1}
    Handlers = {h1, h2}
    None = None
SPECIFICATION Spec
SYMMETRY Symmetry
CHECK_DEADLOCK FALSE
INVARIANTS
    RotatedIsDead
    SweptIsDead
PROPERTIES
    RevokedIsFinal
