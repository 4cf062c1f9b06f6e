\* A retry at the end of its batch.
CONSTANTS
    Files = {f1, f2, f3}
    Texts = {empty, hello}
    NoText = empty
    CONCURRENT_UPLOADS = 2
SPECIFICATION Spec
INVARIANTS
    MessageOnEveryFile
CHECK_DEADLOCK FALSE
