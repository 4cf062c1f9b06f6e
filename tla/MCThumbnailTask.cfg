\* Two files, two tasks at the same time, one time stamp.
CONSTANTS
    Files = {1, 2}
    Stamps = {s1}
    Tasks = {t1, t2}
SPECIFICATION FairSpec
INVARIANTS
    TypeOK
    ProgressAddsUp
    RepairsThumbnails
PROPERTIES
    RegenerationEnds
