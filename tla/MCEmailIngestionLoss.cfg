\* One fault is enough to lose a message.
CONSTANTS
    m1 = m1
    m2 = m2
    x1 = x1
    x2 = x2
    n1 = n1
    n2 = n2
    Messages = {m1, m2}
    Parts = {x1, x2}
    PartsOf <- TwoAndOne
    Names = {n1, n2}
    NameOf <- SharedName
    Loop = loop
    Forced = forced
    MaxFaults = 1
SPECIFICATION Spec
INVARIANTS
    MarkedAfterProcessing
CHECK_DEADLOCK FALSE
