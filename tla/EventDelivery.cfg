\* Two notifications with two recipients each and one slot for both, and a stop
\* of the process or of its connection.
CONSTANTS
    AuditEvents = {}
    NoticeEvents = {n1, n2}
    Recipients = 2
    MaxRetries = 1
    Slots = {s1}
    MaxStops = 1
SPECIFICATION FairSpec
CHECK_DEADLOCK FALSE
INVARIANTS
    NeverLost
    RepeatsAreBounded
PROPERTIES
    ImplementsContract
    Settled
