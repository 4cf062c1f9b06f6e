\* Two requests; three users, so that two admins can act on each other.
CONSTANTS
    Users = {u1, u2, u3}
    Requests = {q1, q2}
    TTL = 1
    Slow = 1
    Uptime = 1
    Stored <- LongAgo
    Horizon = 4
SPECIFICATION Spec
INVARIANTS
    TypeOK
    ShownIsRecent
    AlwaysAnAdmin
PROPERTIES
    SignUpWasOpen
SYMMETRY Symmetry
CHECK_DEADLOCK FALSE
