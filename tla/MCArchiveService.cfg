\* One batch of up to two parts, one event, one admin request at a time.
CONSTANTS
    b1 = b1
    e1 = e1
    d1 = d1
    Batches = {b1}
    Events = {e1}
    EventOf <- OneBatchOneEvent
    MaxParts = 2
    Admins = {d1}
SPECIFICATION FairSpec
INVARIANTS
    TypeOK
    ReadyHasZip
    DiskOwned
    SettledLeavesNothing
PROPERTIES
    NoResurrection
    ImplementsLink
    BatchIsWorkedThrough
    EveryLinkEnds
CHECK_DEADLOCK FALSE
