\* A cancellation that meets the start of the build.
CONSTANTS
    b1 = b1
    e1 = e1
    d1 = d1
    Batches = {b1}
    Events = {e1}
    EventOf <- OneBatchOneEvent
    MaxParts = 2
    Admins = {d1}
SPECIFICATION OneLifeSpec
PROPERTIES
    CancelledBeforeStartIsNotBuilt
CHECK_DEADLOCK FALSE
