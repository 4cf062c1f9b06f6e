\* Three files, two slots, a message or none.
CONSTANTS
    Files = {f1, f2, f3}
    Texts = {empty, hello}
    NoText = empty
    CONCURRENT_UPLOADS = 2
SPECIFICATION FairSpec
INVARIANTS
    TypeOK
    CountersAgree
    SlotsAreUsed
    SentWithItsBatch
PROPERTIES
    EveryFileIsAnswered
CHECK_DEADLOCK FALSE
