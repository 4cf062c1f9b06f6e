\* Two files, two requests at the same time.
CONSTANTS
    Files = {f1, f2}
    Calls = {c1, c2}
SPECIFICATION FairSpec
INVARIANTS
    TypeOK
    PageShowsSelection
    SelectedOnPage
    PageFollowsTable
    OverlayMeansWork
    LightboxLetsGo
PROPERTIES
    EveryCallIsReported
