\* Two messages, a scheduled and a forced poll, two faults.
CONSTANTS
    m1 = m1
    m2 = m2
    x1 = x1
    x2 = x2
    n1 = n1
    n2 = n2
    Messages = {m1, m2}
    Parts = {x1, x2}
    PartsOf <- TwoAndOne
    Names = {n1, n2}
    NameOf <- SharedName
    Loop = loop
    Forced = forced
    MaxFaults = 2
SPECIFICATION FairSpec
INVARIANTS
    TypeOK
    ImportedOnce
    ProcessedHasMedia
    NoneForgotten
PROPERTIES
    EveryMessageIsTaken
CHECK_DEADLOCK FALSE
