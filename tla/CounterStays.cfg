\* A counter that vanishes between its seed and its increment.
CONSTANTS
    Emails = {e1}
    Ips = {i1}
    Requests = {r1, r2}
    MaxAttempts = 2
    Window = 2
    MaxValue = 3
SPECIFICATION Spec
INVARIANTS
    EveryCounterExpires
